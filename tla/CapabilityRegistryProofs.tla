---------------------- MODULE CapabilityRegistryProofs ----------------------
(***************************************************************************)
(* Proofs about CapabilityRegistry, for any sets of invitations, sessions, *)
(* endpoints and connections.                                              *)
(***************************************************************************)
EXTENDS CapabilityRegistry, FiniteSetTheorems, TLAPS

-----------------------------------------------------------------------------
(* Definitions the proofs need *)

\* The two maps of a registry refer to each other consistently.
WellFormed(st) ==
  /\ st.closed \subseteq st.issued
  /\ st.revoked \subseteq st.issued
  /\ st.kicked \subseteq Admitted(st)
  /\ \A s \in Session : st.home[s] \in st.issued \cup {None}

Sound(st) == st \in RegistryState /\ WellFormed(st) /\ SlotsBalancedIn(st)

\* Event ev takes its standing from session s.
Removes(st, ev, s) ==
  \/ ev.type \in {"AllSessionsKicked", "AllSessionsKickedAndAdmissionsClosed"}
  \/ /\ ev.type \in {"SessionKicked", "SessionKickedAndAdmissionsClosed"}
     /\ ev.session = s
  \/ ev.type = "InviteRevoked" /\ ev.invite = st.home[s]

\* What every registry operation does: commit one applicable event, and keep no
\* connection of a session the event removes.
Operation(ev) ==
  /\ ev \in JournalEvent
  /\ Applicable(live, ev)
  /\ Commit(ev)
  /\ active' \in [Session -> Connection \cup {None}]
  /\ closing' \in SUBSET Connection
  /\ \A s \in Session : active'[s] # None => active'[s] = active[s] /\ ~Removes(live, ev, s)

-----------------------------------------------------------------------------
(* Applying an event *)

\* A registry state stays one.
LEMMA ApplyType ==
  ASSUME NEW st \in RegistryState, NEW ev \in JournalEvent, Applicable(st, ev)
  PROVE  Apply(st, ev) \in RegistryState
BY LimitAssumption, NoneAssumption
   DEF Apply, Applicable, JournalEvent, EventType, RegistryState, Admitted

\* The references between the maps stay consistent.
LEMMA ApplyWellFormed ==
  ASSUME NEW st \in RegistryState, NEW ev \in JournalEvent, Applicable(st, ev),
         WellFormed(st)
  PROVE  WellFormed(Apply(st, ev))
<1>1. /\ Apply(st, ev).closed \subseteq Apply(st, ev).issued
      /\ Apply(st, ev).revoked \subseteq Apply(st, ev).issued
  BY DEF Apply, Applicable, JournalEvent, EventType, RegistryState, WellFormed
<1>2. Admitted(st) \subseteq Admitted(Apply(st, ev))
  BY NoneAssumption
     DEF Apply, Applicable, JournalEvent, EventType, RegistryState, Admitted
<1>3. Apply(st, ev).kicked \subseteq Admitted(st)
  BY DEF Apply, Applicable, JournalEvent, EventType, RegistryState, WellFormed, Admitted
<1>4. \A s \in Session : Apply(st, ev).home[s] \in Apply(st, ev).issued \cup {None}
  BY DEF Apply, Applicable, JournalEvent, EventType, RegistryState, WellFormed
<1> QED BY <1>1, <1>2, <1>3, <1>4 DEF WellFormed

\* The sessions homed at an invitation are finitely many.
LEMMA HomedFinite ==
  ASSUME NEW st, NEW i
  PROVE  /\ IsFiniteSet(HomedAt(st, i))
         /\ Cardinality(HomedAt(st, i)) \in Nat
<1>1. HomedAt(st, i) \subseteq Session
  BY DEF HomedAt
<1> QED BY <1>1, SessionAssumption, FS_Subset, FS_CardinalityType

\* An admission takes one slot, and nothing else takes or frees any.
LEMMA ApplyBalanced ==
  ASSUME NEW st \in RegistryState, NEW ev \in JournalEvent, Applicable(st, ev),
         SlotsBalancedIn(st)
  PROVE  SlotsBalancedIn(Apply(st, ev))
<1> DEFINE new == Apply(st, ev)
<1> SUFFICES ASSUME NEW i \in Invite
             PROVE  new.remaining[i] + Cardinality(HomedAt(new, i))
                      = IF i \in new.issued THEN Limit[i] ELSE 0
  BY DEF SlotsBalancedIn
<1>0. /\ st.remaining[i] + Cardinality(HomedAt(st, i))
            = IF i \in st.issued THEN Limit[i] ELSE 0
      /\ st.remaining[i] \in Nat
      /\ Limit[i] \in Nat
      /\ Cardinality(HomedAt(st, i)) \in Nat
  BY HomedFinite, LimitAssumption DEF SlotsBalancedIn, RegistryState
<1>1. CASE ev.type = "SessionAdmitted" /\ ev.invite = i
  <2>1. /\ ev.session \in Session
        /\ ev.session \notin HomedAt(st, i)
        /\ i \in st.issued
        /\ st.remaining[i] > 0
    BY <1>1, NoneAssumption DEF Applicable, Admitted, HomedAt
  <2>2. HomedAt(new, i) = HomedAt(st, i) \cup {ev.session}
    BY <1>1, <2>1 DEF HomedAt, Apply, RegistryState
  <2>3. Cardinality(HomedAt(new, i)) = Cardinality(HomedAt(st, i)) + 1
    BY <2>1, <2>2, HomedFinite, FS_AddElement
  <2>4. new.remaining[i] = st.remaining[i] - 1 /\ new.issued = st.issued
    BY <1>1 DEF Apply, RegistryState
  <2> QED BY <1>0, <2>1, <2>3, <2>4
<1>2. CASE ev.type = "InviteInserted" /\ ev.invite = i
  <2>1. HomedAt(new, i) = HomedAt(st, i)
    BY <1>2 DEF HomedAt, Apply
  <2>2. i \notin st.issued
    BY <1>2 DEF Applicable
  <2>3. new.remaining[i] = Limit[i] /\ i \in new.issued
    BY <1>2 DEF Apply, RegistryState
  <2> QED BY <1>0, <2>1, <2>2, <2>3
<1>3. CASE ~(ev.type \in {"SessionAdmitted", "InviteInserted"} /\ ev.invite = i)
  <2>1. HomedAt(new, i) = HomedAt(st, i)
    <3>1. CASE ev.type = "SessionAdmitted"
      <4>1. ev.session \in Session /\ st.home[ev.session] = None /\ None # i
        BY <3>1, NoneAssumption DEF Applicable, Admitted
      <4> QED BY <1>3, <3>1, <4>1 DEF HomedAt, Apply, RegistryState
    <3>2. CASE ev.type # "SessionAdmitted"
      BY <3>2 DEF HomedAt, Apply
    <3> QED BY <3>1, <3>2
  <2>2. new.remaining[i] = st.remaining[i]
    BY <1>3 DEF Apply, RegistryState
  <2>3. i \in new.issued <=> i \in st.issued
    BY <1>3 DEF Apply
  <2> QED BY <1>0, <2>1, <2>2, <2>3
<1> QED BY <1>1, <1>2, <1>3

\* An event that applies keeps a sound registry sound.
LEMMA ApplySound ==
  ASSUME NEW st, Sound(st), NEW ev \in JournalEvent, Applicable(st, ev)
  PROVE  Sound(Apply(st, ev))
BY ApplyType, ApplyWellFormed, ApplyBalanced DEF Sound

\* The registry of a host that has never been used.
LEMMA EmptySound == Sound(EmptyRegistry)
<1>1. EmptyRegistry \in RegistryState
  BY DEF EmptyRegistry, RegistryState
<1>2. WellFormed(EmptyRegistry)
  BY DEF EmptyRegistry, WellFormed
<1>3. ASSUME NEW i \in Invite PROVE HomedAt(EmptyRegistry, i) = {}
  BY NoneAssumption DEF HomedAt, EmptyRegistry
<1>4. SlotsBalancedIn(EmptyRegistry)
  <2> SUFFICES ASSUME NEW i \in Invite
               PROVE  EmptyRegistry.remaining[i] + Cardinality(HomedAt(EmptyRegistry, i))
                        = IF i \in EmptyRegistry.issued THEN Limit[i] ELSE 0
    BY DEF SlotsBalancedIn
  <2>1. EmptyRegistry.remaining[i] = 0 /\ i \notin EmptyRegistry.issued
    BY DEF EmptyRegistry
  <2> QED BY <1>3, <2>1, FS_EmptySet
<1> QED BY <1>1, <1>2, <1>4 DEF Sound

\* A session the event does not remove keeps its standing.
LEMMA ApplyKeepsStanding ==
  ASSUME NEW st \in RegistryState, NEW ev \in JournalEvent, Applicable(st, ev),
         NEW s \in Session, InGoodStanding(st, s), ~Removes(st, ev, s)
  PROVE  InGoodStanding(Apply(st, ev), s)
BY NoneAssumption
   DEF Apply, Applicable, JournalEvent, EventType, RegistryState, Admitted,
       InGoodStanding, Removes

\* Only SessionAdmitted admits: its session, through its invitation.
LEMMA ApplyAdmits ==
  ASSUME NEW st \in RegistryState, NEW ev \in JournalEvent, Applicable(st, ev)
  PROVE  /\ ev.type # "SessionAdmitted" => Admitted(Apply(st, ev)) = Admitted(st)
         /\ ev.type = "SessionAdmitted" =>
              \A s \in Admitted(Apply(st, ev)) \ Admitted(st) :
                Apply(st, ev).home[s] = ev.invite
<1>1. ev.type # "SessionAdmitted" => Apply(st, ev).home = st.home
  BY DEF Apply
<1>2. CASE ev.type = "SessionAdmitted"
  <2>1. Apply(st, ev).home = [st.home EXCEPT ![ev.session] = ev.invite] /\ ev.session \in Session
    BY <1>2 DEF Apply, Applicable
  <2>2. st.home \in [Session -> Invite \cup {None}]
    BY DEF RegistryState
  <2> QED BY <1>2, <2>1, <2>2 DEF Admitted
<1> QED BY <1>1, <1>2 DEF Admitted

\* An event only ever makes a registry stricter.
LEMMA ApplyStricter ==
  ASSUME NEW st \in RegistryState, NEW ev \in JournalEvent, Applicable(st, ev),
         WellFormed(st)
  PROVE  AtLeastAsStrict(Apply(st, ev), st)
BY NoneAssumption
   DEF Apply, Applicable, JournalEvent, EventType, RegistryState, Admitted,
       WellFormed, AtLeastAsStrict

\* An event that two registries accept keeps the stricter one stricter.
LEMMA ApplyMonotone ==
  ASSUME NEW st1 \in RegistryState, NEW st0 \in RegistryState, NEW ev \in JournalEvent,
         Applicable(st1, ev), Applicable(st0, ev), AtLeastAsStrict(st1, st0)
  PROVE  AtLeastAsStrict(Apply(st1, ev), Apply(st0, ev))
<1>1. Admitted(st0) \subseteq Admitted(st1)
  BY DEF Admitted, AtLeastAsStrict
<1>2. \A s \in Admitted(Apply(st0, ev)) : Apply(st1, ev).home[s] = Apply(st0, ev).home[s]
  BY NoneAssumption DEF Apply, Applicable, JournalEvent, EventType, RegistryState,
                        Admitted, AtLeastAsStrict
<1> QED
  BY <1>1, <1>2 DEF Apply, JournalEvent, EventType, RegistryState, AtLeastAsStrict

\* Strictness is transitive.
LEMMA StricterTransitive ==
  ASSUME NEW st2, NEW st1, NEW st0,
         AtLeastAsStrict(st2, st1), AtLeastAsStrict(st1, st0)
  PROVE  AtLeastAsStrict(st2, st0)
BY DEF AtLeastAsStrict, Admitted

-----------------------------------------------------------------------------
(* The operations *)

\* What an operation may be appending is an event, and it applies in memory.
LEMMA AppendableApplies ==
  ASSUME NEW ev \in Appendable, live \in RegistryState, WellFormed(live)
  PROVE  ev \in JournalEvent /\ Applicable(live, ev)
<1>1. CASE ev \in {InviteInserted(i) : i \in {x \in NewInvites : CanInsert(x)}}
  BY <1>1 DEF NewInvites, CanInsert, InviteInserted, Event, JournalEvent, EventType, Applicable
<1>2. CASE ev \in {AdmissionsClosed(i) : i \in live.issued \ live.closed}
            \cup {AllAdmissionsClosed : x \in {y \in {None} : CanCloseAll}}
            \cup {InviteRevoked(i) : i \in live.issued \ live.revoked}
  BY <1>2 DEF RegistryState, AdmissionsClosed, AllAdmissionsClosed, InviteRevoked,
              Event, JournalEvent, EventType, Applicable
<1>3. CASE ev \in {SessionAdmitted(p[1], p[2], p[3]) :
                     p \in {q \in Invite \X NewSessions \X Endpoint : CanAdmit(q[1], q[2])}}
  <2>1. PICK i \in Invite, s \in NewSessions, e \in Endpoint :
               CanAdmit(i, s) /\ ev = SessionAdmitted(i, s, e)
    BY <1>3
  <2> QED
    BY <2>1 DEF NewSessions, CanAdmit, InviteAdmits, SessionAdmitted,
                Event, JournalEvent, EventType, Applicable
<1>4. CASE ev \in {SessionEndpointUpdated(p[1], p[2]) :
                     p \in {s \in Session : CanResume(s)} \X Endpoint}
  BY <1>4 DEF CanResume, InGoodStanding, SessionEndpointUpdated,
              Event, JournalEvent, EventType, Applicable
<1>5. CASE ev \in {SessionKicked(s) : s \in Unkicked(live)}
            \cup {AllSessionsKicked : s \in Unkicked(live)}
  BY <1>5 DEF Unkicked, Admitted, SessionKicked, AllSessionsKicked,
              Event, JournalEvent, EventType, Applicable
<1>6. CASE ev \in {SessionKickedAndAdmissionsClosed(p[1], p[2]) :
                     p \in Unkicked(live) \X live.issued}
            \cup {AllSessionsKickedAndAdmissionsClosed(p[2]) :
                     p \in Unkicked(live) \X live.issued}
  BY <1>6 DEF Unkicked, Admitted, RegistryState, SessionKickedAndAdmissionsClosed,
              AllSessionsKickedAndAdmissionsClosed, Event, JournalEvent, EventType, Applicable
<1> QED BY <1>1, <1>2, <1>3, <1>4, <1>5, <1>6 DEF Appendable

\* The operations that leave the connections alone.
LEMMA AdmissionIsOperation ==
  ASSUME TypeOK, Admission
  PROVE  \E ev : Operation(ev)
<1>1. ASSUME NEW i \in NewInvites, Insert(i) PROVE Operation(InviteInserted(i))
  BY <1>1 DEF TypeOK, Insert, NewInvites, CanInsert, connections, InviteInserted, Event,
              JournalEvent, EventType, Applicable, Operation, Removes
<1>2. ASSUME NEW i \in Invite, NEW s \in NewSessions, NEW e \in Endpoint, Admit(i, s, e)
      PROVE  Operation(SessionAdmitted(i, s, e))
  BY <1>2 DEF TypeOK, Admit, NewSessions, CanAdmit, InviteAdmits, connections,
              SessionAdmitted, Event, JournalEvent, EventType, Applicable, Operation, Removes
<1>3. ASSUME NEW s \in Session, NEW e \in Endpoint, Resume(s, e)
      PROVE  Operation(SessionEndpointUpdated(s, e))
  BY <1>3 DEF TypeOK, Resume, CanResume, InGoodStanding, connections,
              SessionEndpointUpdated, Event, JournalEvent, EventType, Applicable,
              Operation, Removes
<1> QED BY <1>1, <1>2, <1>3 DEF Admission, AdmitTcp

\* Taking connections out of `active' leaves both sets of connections well typed.
LEMMA DropType ==
  ASSUME TypeOK, NEW sessions \in SUBSET Session, Drop(sessions)
  PROVE  /\ active' \in [Session -> Connection \cup {None}]
         /\ closing' \in SUBSET Connection
         /\ \A s \in Session : active'[s] # None => active'[s] = active[s] /\ s \notin sessions
<1>1. active' \in [Session -> Connection \cup {None}]
  BY DEF TypeOK, Drop
<1>2. {active[s] : s \in sessions} \subseteq Connection \cup {None}
  BY DEF TypeOK
<1>3. closing' \in SUBSET Connection
  BY <1>2 DEF TypeOK, Drop
<1> QED BY <1>1, <1>3 DEF Drop

\* The operations that withdraw take every connection of a removed session out.
LEMMA WithdrawalIsOperation ==
  ASSUME TypeOK, WellFormed(live), Withdrawal
  PROVE  \E ev : Operation(ev)
<1>1. ASSUME NEW i \in Invite, CloseAdmissions(i) PROVE Operation(AdmissionsClosed(i))
  BY <1>1 DEF TypeOK, CloseAdmissions, connections, AdmissionsClosed, Event,
              JournalEvent, EventType, Applicable, Operation, Removes
<1>2. ASSUME CloseAllAdmissions PROVE Operation(AllAdmissionsClosed)
  BY <1>2 DEF TypeOK, CloseAllAdmissions, connections, AllAdmissionsClosed, Event,
              JournalEvent, EventType, Applicable, Operation, Removes
<1>3. ASSUME NEW s \in Session, Kick(s) PROVE Operation(SessionKicked(s))
  <2>1. SessionKicked(s) \in JournalEvent /\ Applicable(live, SessionKicked(s))
    BY <1>3 DEF Kick, Unkicked, SessionKicked, Event, JournalEvent, EventType, Applicable
  <2>2. \A t \in Session \ {s} : ~Removes(live, SessionKicked(s), t)
    BY DEF Removes, SessionKicked, Event
  <2> QED BY <1>3, <2>1, <2>2, DropType DEF Kick, Operation
<1>4. ASSUME NEW s \in Session, NEW i \in Invite, KickAndCloseAdmissions(s, i)
      PROVE  Operation(SessionKickedAndAdmissionsClosed(s, i))
  <2> DEFINE ev == SessionKickedAndAdmissionsClosed(s, i)
  <2>1. ev \in JournalEvent /\ Applicable(live, ev)
    BY <1>4 DEF KickAndCloseAdmissions, Unkicked, SessionKickedAndAdmissionsClosed,
                Event, JournalEvent, EventType, Applicable
  <2>2. \A t \in Session \ {s} : ~Removes(live, ev, t)
    BY DEF Removes, SessionKickedAndAdmissionsClosed, Event
  <2> QED BY <1>4, <2>1, <2>2, DropType DEF KickAndCloseAdmissions, Operation
<1>5. ASSUME KickAll PROVE Operation(AllSessionsKicked)
  <2>1. AllSessionsKicked \in JournalEvent /\ Applicable(live, AllSessionsKicked)
    BY DEF AllSessionsKicked, Event, JournalEvent, EventType, Applicable
  <2> QED BY <1>5, <2>1, DropType DEF KickAll, Operation
<1>6. ASSUME NEW i \in Invite, KickAllAndCloseAdmissions(i)
      PROVE  Operation(AllSessionsKickedAndAdmissionsClosed(i))
  <2>1. /\ AllSessionsKickedAndAdmissionsClosed(i) \in JournalEvent
        /\ Applicable(live, AllSessionsKickedAndAdmissionsClosed(i))
    BY <1>6 DEF KickAllAndCloseAdmissions, AllSessionsKickedAndAdmissionsClosed,
                Event, JournalEvent, EventType, Applicable
  <2> QED BY <1>6, <2>1, DropType DEF KickAllAndCloseAdmissions, Operation
<1>7. ASSUME NEW i \in Invite, Revoke(i) PROVE Operation(InviteRevoked(i))
  <2>1. InviteRevoked(i) \in JournalEvent /\ Applicable(live, InviteRevoked(i))
    BY <1>7 DEF Revoke, InviteRevoked, Event, JournalEvent, EventType, Applicable
  <2>2. HomedAt(live, i) \in SUBSET Session
    BY DEF HomedAt
  <2>3. \A t \in Session \ HomedAt(live, i) : ~Removes(live, InviteRevoked(i), t)
    BY DEF Removes, InviteRevoked, Event, HomedAt
  <2> QED BY <1>7, <2>1, <2>2, <2>3, DropType DEF Revoke, Operation
<1> QED BY <1>1, <1>2, <1>3, <1>4, <1>5, <1>6, <1>7 DEF Withdrawal

-----------------------------------------------------------------------------
(* The inductive invariant.  TypeOK and the properties are not inductive:   *)
(* slot accounting needs the references between the maps to be consistent,  *)
(* and restarting needs no connection to survive the process.               *)

RegistryInv ==
  /\ TypeOK
  /\ Sound(live)
  /\ Sound(durable)
  /\ ~up => active = NoneActive
  /\ ActiveInGoodStanding
  /\ AcknowledgedDenialsAreDurable

\* The invariant holds when the host has just started for the first time.
LEMMA InitInv == Init => RegistryInv
<1> SUFFICES ASSUME Init PROVE RegistryInv
  OBVIOUS
<1>1. Sound(live) /\ Sound(durable)
  BY EmptySound DEF Init
<1>2. TypeOK
  BY <1>1, AttributeAssumption DEF Init, TypeOK, Sound, NoneActive
<1>3. ActiveInGoodStanding /\ AcknowledgedDenialsAreDurable
  BY DEF Init, NoneActive, ActiveInGoodStanding, AcknowledgedDenialsAreDurable,
         AtLeastAsStrict
<1> QED BY <1>1, <1>2, <1>3 DEF RegistryInv, Init

\* A line that leaves the journal readable has been applied to it.
LEMMA WriteLineSound ==
  ASSUME NEW ev \in JournalEvent, Sound(durable), WriteLine(ev),
         file \in {"clean", "torn", "unreadable"}
  PROVE  /\ Sound(durable')
         /\ file' \in {"clean", "torn", "unreadable"}
         /\ file' # "unreadable" => /\ file = "clean"
                                   /\ Applicable(durable, ev)
                                   /\ durable' = Apply(durable, ev)
<1>1. CASE file = "clean" /\ Applicable(durable, ev)
  BY <1>1, ApplySound DEF WriteLine
<1>2. CASE ~(file = "clean" /\ Applicable(durable, ev))
  BY <1>2 DEF WriteLine
<1> QED BY <1>1, <1>2

\* Every registry operation preserves the invariant.
LEMMA OperationInv ==
  ASSUME RegistryInv, NEW ev, Operation(ev)
  PROVE  RegistryInv'
<1> USE DEF RegistryInv
<1>1. /\ ev \in JournalEvent
      /\ Applicable(live, ev)
      /\ up /\ up'
      /\ WriteLine(ev)
      /\ live' = Apply(live, ev)
      /\ UNCHANGED <<up, expired, faults>>
  BY DEF Operation, Commit
<1>2. Sound(live')
  BY <1>1, ApplySound
<1>3. /\ Sound(durable')
      /\ file' \in {"clean", "torn", "unreadable"}
      /\ file' # "unreadable" => /\ file = "clean"
                                /\ Applicable(durable, ev)
                                /\ durable' = Apply(durable, ev)
  BY <1>1, WriteLineSound DEF TypeOK
<1>4. TypeOK'
  BY <1>1, <1>2, <1>3 DEF TypeOK, Operation, Sound
<1>5. ActiveInGoodStanding'
  <2> SUFFICES ASSUME NEW s \in Session, active'[s] # None
               PROVE  InGoodStanding(live', s)
    BY DEF ActiveInGoodStanding, InGoodStanding, Admitted
  <2>1. active[s] # None /\ ~Removes(live, ev, s)
    BY DEF Operation
  <2>2. InGoodStanding(live, s)
    BY <2>1 DEF ActiveInGoodStanding
  <2> QED BY <1>1, <2>1, <2>2, ApplyKeepsStanding DEF Sound
<1>6. AcknowledgedDenialsAreDurable'
  <2> SUFFICES ASSUME file' # "unreadable"
               PROVE  AtLeastAsStrict(durable', live')
    BY DEF AcknowledgedDenialsAreDurable, AtLeastAsStrict, Admitted
  <2>1. AtLeastAsStrict(durable, live)
    BY <1>1, <1>3 DEF AcknowledgedDenialsAreDurable
  <2> QED BY <1>1, <1>3, <2>1, ApplyMonotone DEF Sound
<1> QED BY <1>1, <1>2, <1>3, <1>4, <1>5, <1>6

\* So does everything that happens to connections.
LEMMA ConnectingInv ==
  ASSUME RegistryInv, Connecting
  PROVE  RegistryInv'
<1> USE DEF RegistryInv
<1>1. UNCHANGED <<up, live, durable, file, expired, faults>>
  BY DEF Connecting, SessionConnected, SessionDisconnected, CloseConnection
<1>2. up \/ active' = active
  BY DEF Connecting, SessionConnected, SessionDisconnected, CloseConnection
<1>3. /\ active' \in [Session -> Connection \cup {None}]
      /\ closing' \in SUBSET Connection
  BY DEF TypeOK, Connecting, SessionConnected, SessionDisconnected, CloseConnection
<1>4. ASSUME NEW s \in Session, active'[s] # None
      PROVE  active[s] # None \/ InGoodStanding(live, s)
  BY <1>4 DEF TypeOK, Connecting, SessionConnected, SessionDisconnected,
              CloseConnection, SessionIsActive
<1>5. ActiveInGoodStanding'
  BY <1>1, <1>4 DEF ActiveInGoodStanding, InGoodStanding, Admitted
<1>6. AcknowledgedDenialsAreDurable'
  BY <1>1 DEF AcknowledgedDenialsAreDurable, AtLeastAsStrict, Admitted
<1>7. TypeOK'
  BY <1>1, <1>3 DEF TypeOK
<1>8. Sound(live') /\ Sound(durable')
  BY <1>1
<1> QED BY <1>1, <1>2, <1>5, <1>6, <1>7, <1>8

\* The process dies; whatever it was writing may have reached the journal.
LEMMA DieInv ==
  ASSUME RegistryInv, Die, Sound(durable'),
         file' \in {"clean", "torn", "unreadable"}
  PROVE  RegistryInv'
<1>1. Sound(live')
  BY EmptySound DEF Die
<1>2. TypeOK'
  BY <1>1 DEF RegistryInv, TypeOK, Die, NoneActive, Sound
<1>3. ActiveInGoodStanding' /\ AcknowledgedDenialsAreDurable'
  BY DEF Die, NoneActive, ActiveInGoodStanding, AcknowledgedDenialsAreDurable
<1> QED BY <1>1, <1>2, <1>3 DEF RegistryInv, Die

\* Time, crashes and restarts preserve the invariant.
LEMMA EnvironmentInv ==
  ASSUME RegistryInv, Environment
  PROVE  RegistryInv'
<1> USE DEF RegistryInv
<1>1. ASSUME NEW i \in Invite, Expire(i) PROVE RegistryInv'
  BY <1>1 DEF Expire, TypeOK, Sound, ActiveInGoodStanding, InGoodStanding, Admitted,
              AcknowledgedDenialsAreDurable, AtLeastAsStrict
<1>2. CASE Crash
  BY <1>2, DieInv DEF Crash, storage, TypeOK
<1>3. ASSUME NEW ev \in Appendable, CrashDuringAppend(ev) PROVE RegistryInv'
  <2>1. ev \in JournalEvent
    BY AppendableApplies DEF Sound
  <2>2. Sound(durable') /\ file' \in {"clean", "torn", "unreadable"}
    BY <1>3, <2>1, WriteLineSound DEF CrashDuringAppend, TypeOK
  <2> QED BY <1>3, <2>2, DieInv DEF CrashDuringAppend
<1>4. CASE Open
  <2>1. TypeOK' /\ Sound(live') /\ Sound(durable') /\ up'
    BY <1>4 DEF Open, TypeOK
  <2>2. ActiveInGoodStanding'
    BY <1>4 DEF Open, NoneActive, ActiveInGoodStanding
  <2>3. AcknowledgedDenialsAreDurable'
    BY <1>4 DEF Open, AcknowledgedDenialsAreDurable, AtLeastAsStrict
  <2> QED BY <2>1, <2>2, <2>3
<1> QED BY <1>1, <1>2, <1>3, <1>4 DEF Environment

\* A failed append changes the journal at most, and only for the stricter.
LEMMA FailAppendInv ==
  ASSUME RegistryInv, NEW ev \in Appendable, FailAppend(ev)
  PROVE  RegistryInv'
<1> USE DEF RegistryInv
<1>1. ev \in JournalEvent
  BY AppendableApplies DEF Sound
<1>2. /\ up /\ UNCHANGED <<up, live, active, closing, expired>>
      /\ faults' \in 0..MaxFaults
  BY AttributeAssumption DEF FailAppend, TypeOK
<1>3. \/ UNCHANGED durable /\ file' \in {"clean", "torn", "unreadable"}
         /\ (file' # "unreadable" => file # "unreadable")
      \/ WriteLine(ev)
  BY DEF FailAppend, storage, TypeOK
<1>4. Sound(durable') /\ file' \in {"clean", "torn", "unreadable"}
  BY <1>1, <1>3, WriteLineSound DEF TypeOK
<1>5. AcknowledgedDenialsAreDurable'
  <2> SUFFICES ASSUME file' # "unreadable"
               PROVE  AtLeastAsStrict(durable', live)
    BY <1>2 DEF AcknowledgedDenialsAreDurable, AtLeastAsStrict, Admitted
  <2>1. CASE UNCHANGED durable /\ file # "unreadable"
    BY <1>2, <2>1 DEF AcknowledgedDenialsAreDurable
  <2>2. CASE WriteLine(ev)
    <3>1. file = "clean" /\ Applicable(durable, ev) /\ durable' = Apply(durable, ev)
      BY <1>1, <2>2, WriteLineSound DEF TypeOK
    <3>2. AtLeastAsStrict(durable', durable)
      BY <1>1, <3>1, ApplyStricter DEF Sound
    <3>3. AtLeastAsStrict(durable, live)
      BY <1>2, <3>1 DEF AcknowledgedDenialsAreDurable
    <3> QED BY <3>2, <3>3, StricterTransitive
  <2> QED BY <1>3, <2>1, <2>2
<1>6. TypeOK' /\ Sound(live')
  BY <1>2, <1>4 DEF TypeOK, Sound
<1>7. ActiveInGoodStanding'
  BY <1>2 DEF ActiveInGoodStanding, InGoodStanding, Admitted
<1> QED BY <1>2, <1>4, <1>5, <1>6, <1>7

\* Every step preserves the invariant, failing appends included.
LEMMA NextInv == RegistryInv /\ [FaultyNext]_vars => RegistryInv'
<1> SUFFICES ASSUME RegistryInv, [FaultyNext]_vars PROVE RegistryInv'
  OBVIOUS
<1>1. CASE Admission
  BY <1>1, AdmissionIsOperation, OperationInv DEF RegistryInv
<1>2. CASE Withdrawal
  BY <1>2, WithdrawalIsOperation, OperationInv DEF RegistryInv, Sound
<1>3. CASE Connecting
  BY <1>3, ConnectingInv
<1>4. CASE Environment
  BY <1>4, EnvironmentInv
<1>5. CASE \E ev \in Appendable : FailAppend(ev)
  BY <1>5, FailAppendInv
<1>6. CASE UNCHANGED vars
  BY <1>6 DEF vars, RegistryInv, TypeOK, Sound, ActiveInGoodStanding, InGoodStanding,
              Admitted, AcknowledgedDenialsAreDurable, AtLeastAsStrict
<1> QED BY <1>1, <1>2, <1>3, <1>4, <1>5, <1>6 DEF FaultyNext, Next

-----------------------------------------------------------------------------
(* What holds although appends fail *)

\* The inductive invariant holds in every state of a host whose appends may fail.
THEOREM RegistryInvariant == FaultySpec => []RegistryInv
BY InitInv, NextInv, PTL DEF FaultySpec

\* Every variable of the registry keeps its type.
THEOREM TypeCorrect == FaultySpec => []TypeOK
BY RegistryInvariant, PTL DEF RegistryInv

\* Slot accounting: no invitation is oversubscribed and no slot is lost, in
\* memory or in the journal (apply_registry_event).
THEOREM SlotAccounting == FaultySpec => []SlotsBalanced
<1>1. RegistryInv => SlotsBalanced
  BY DEF RegistryInv, Sound, SlotsBalanced
<1> QED BY <1>1, RegistryInvariant, PTL

\* A connection is only ever registered for a session that may be served
\* (session_connected, kick, revoke).
THEOREM RegisteredAreInGoodStanding == FaultySpec => []ActiveInGoodStanding
BY RegistryInvariant, PTL DEF RegistryInv

\* What the running host denies, a host restarted from the journal denies too,
\* whichever appends failed on the way (append_event, replay_registry_journal).
THEOREM DenialsAreDurable == FaultySpec => []AcknowledgedDenialsAreDurable
BY RegistryInvariant, PTL DEF RegistryInv

-----------------------------------------------------------------------------
(* What holds while every append succeeds or ends the process *)

\* The behaviours without failing appends are among those with them.
LEMMA SpecIsFaultySpec == Spec => FaultySpec
<1>1. [Next]_vars => [FaultyNext]_vars
  BY DEF FaultyNext
<1> QED BY <1>1, PTL DEF Spec, FaultySpec

\* The inductive invariant holds without failing appends as well.
LEMMA SpecInvariant == Spec => []RegistryInv
BY SpecIsFaultySpec, RegistryInvariant, PTL

\* What a step of the registry can do to the journal.
Journalled ==
  \/ UNCHANGED durable
  \/ \E ev \in JournalEvent : Applicable(durable, ev) /\ durable' = Apply(durable, ev)

\* Without failing appends memory and journal move together, one event at a time.
LEMMA StepJournalled ==
  ASSUME RegistryInv, LiveIsDurable, [Next]_vars
  PROVE  LiveIsDurable' /\ Journalled
<1> USE DEF RegistryInv, LiveIsDurable
<1>1. ASSUME NEW ev, Operation(ev) PROVE LiveIsDurable' /\ Journalled
  <2>1. /\ ev \in JournalEvent /\ Applicable(durable, ev)
        /\ up /\ file = "clean"
        /\ live' = Apply(live, ev) /\ WriteLine(ev)
    BY <1>1 DEF Operation, Commit
  <2>2. durable' = Apply(durable, ev) /\ file' = "clean" /\ live' = durable'
    BY <2>1 DEF WriteLine
  <2> QED BY <2>1, <2>2 DEF Journalled
<1>2. CASE Admission
  BY <1>1, <1>2, AdmissionIsOperation
<1>3. CASE Withdrawal
  BY <1>1, <1>3, WithdrawalIsOperation DEF Sound
<1>4. CASE Connecting
  BY <1>4 DEF Connecting, SessionConnected, SessionDisconnected, CloseConnection, Journalled
<1>5. ASSUME NEW i \in Invite, Expire(i) PROVE LiveIsDurable' /\ Journalled
  BY <1>5 DEF Expire, Journalled
<1>6. CASE Crash
  BY <1>6 DEF Crash, Die, storage, Journalled
<1>7. ASSUME NEW ev \in Appendable, CrashDuringAppend(ev)
      PROVE  LiveIsDurable' /\ Journalled
  <2>1. ev \in JournalEvent /\ Applicable(live, ev)
    BY AppendableApplies DEF Sound
  <2>2. up /\ ~up' /\ file = "clean" /\ live = durable
    BY <1>7 DEF CrashDuringAppend, Die
  <2>3. CASE WriteLine(ev)
    BY <2>1, <2>2, <2>3 DEF WriteLine, Journalled
  <2>4. CASE file' = "torn" /\ UNCHANGED durable
    BY <2>2, <2>4 DEF Journalled
  <2> QED BY <1>7, <2>3, <2>4 DEF CrashDuringAppend
<1>8. CASE Open
  BY <1>8 DEF Open, Journalled
<1>9. CASE UNCHANGED vars
  BY <1>9 DEF vars, Journalled
<1> QED BY <1>2, <1>3, <1>4, <1>5, <1>6, <1>7, <1>8, <1>9 DEF Next, Environment

\* A session the journal has admitted stays in it.
LEMMA JournalGrows ==
  ASSUME RegistryInv, LiveIsDurable, [Next]_vars
  PROVE  Admitted(durable) \subseteq Admitted(durable')
<1>1. CASE UNCHANGED durable
  BY <1>1 DEF Admitted
<1>2. ASSUME NEW ev \in JournalEvent, Applicable(durable, ev), durable' = Apply(durable, ev)
      PROVE  AtLeastAsStrict(durable', durable)
  BY <1>2, ApplyStricter DEF RegistryInv, Sound
<1>3. AtLeastAsStrict(durable', durable) => Admitted(durable) \subseteq Admitted(durable')
  BY DEF AtLeastAsStrict, Admitted
<1> QED BY <1>1, <1>2, <1>3, StepJournalled DEF Journalled

\* The operations that withdraw admit nobody.
LEMMA WithdrawalAdmitsNobody ==
  ASSUME Withdrawal
  PROVE  Admitted(live') = Admitted(live)
<1>1. ASSUME NEW ev, Commit(ev), ev.type # "SessionAdmitted"
      PROVE  live'.home = live.home
  BY <1>1 DEF Commit, Apply
<1>2. ASSUME NEW i \in Invite, CloseAdmissions(i) \/ KickAllAndCloseAdmissions(i) \/ Revoke(i)
      PROVE  live'.home = live.home
  BY <1>1, <1>2 DEF CloseAdmissions, KickAllAndCloseAdmissions, Revoke, AdmissionsClosed,
                    AllSessionsKickedAndAdmissionsClosed, InviteRevoked, Event
<1>3. ASSUME CloseAllAdmissions \/ KickAll
      PROVE  live'.home = live.home
  BY <1>1, <1>3 DEF CloseAllAdmissions, KickAll, AllAdmissionsClosed, AllSessionsKicked, Event
<1>4. ASSUME NEW s \in Session, Kick(s) \/ \E i \in Invite : KickAndCloseAdmissions(s, i)
      PROVE  live'.home = live.home
  BY <1>1, <1>4 DEF Kick, KickAndCloseAdmissions, SessionKicked,
                    SessionKickedAndAdmissionsClosed, Event
<1> QED BY <1>2, <1>3, <1>4 DEF Withdrawal, Admitted

(***************************************************************************)
(* While the host runs, a session is admitted only through an invitation   *)
(* that admits at that moment: issued, neither closed nor revoked, not     *)
(* expired, and with a slot left.                                          *)
(***************************************************************************)
LEMMA AdmitsOnlyThroughOpen ==
  ASSUME RegistryInv, [Next]_vars, up, up',
         NEW s \in Admitted(live') \ Admitted(live)
  PROVE  InviteAdmits(live'.home[s])
<1>1. ASSUME NEW i \in NewInvites, Insert(i)
      PROVE  Admitted(live') = Admitted(live)
  BY <1>1 DEF Insert, Commit, InviteInserted, Event, Apply, Admitted
<1>2. ASSUME NEW i \in Invite, NEW t \in NewSessions, NEW e \in Endpoint, Admit(i, t, e)
      PROVE  InviteAdmits(i) /\ live'.home[s] = i
  <2> DEFINE ev == SessionAdmitted(i, t, e)
  <2>1. /\ ev \in JournalEvent /\ Applicable(live, ev) /\ live' = Apply(live, ev)
        /\ ev.type = "SessionAdmitted" /\ ev.invite = i /\ InviteAdmits(i)
    BY <1>2 DEF Admit, NewSessions, CanAdmit, InviteAdmits, Commit, SessionAdmitted,
                Event, JournalEvent, EventType, Applicable
  <2> HIDE DEF ev
  <2> QED BY <2>1, ApplyAdmits DEF RegistryInv, Sound
<1>3. ASSUME NEW t \in Session, NEW e \in Endpoint, Resume(t, e)
      PROVE  Admitted(live') = Admitted(live)
  BY <1>3 DEF Resume, Commit, SessionEndpointUpdated, Event, Apply, Admitted
<1>4. CASE Admission
  BY <1>1, <1>2, <1>3, <1>4 DEF Admission, AdmitTcp
<1>5. CASE Withdrawal
  BY <1>5, WithdrawalAdmitsNobody
<1>6. CASE Connecting \/ Environment \/ UNCHANGED vars
  <2>1. live' = live
    BY <1>6 DEF Connecting, SessionConnected, SessionDisconnected, CloseConnection,
                Environment, Expire, Crash, CrashDuringAppend, Die, Open, vars
  <2> QED BY <2>1
<1> QED BY <1>4, <1>5, <1>6 DEF Next

\* The journal replays to exactly what the running host enforces.
THEOREM JournalIsExact == Spec => []LiveIsDurable
<1>1. Init => LiveIsDurable
  BY DEF Init, LiveIsDurable
<1>2. RegistryInv /\ LiveIsDurable /\ [Next]_vars => LiveIsDurable'
  BY StepJournalled
<1> QED BY <1>1, <1>2, SpecInvariant, PTL DEF Spec

-----------------------------------------------------------------------------
(* The registry implements the ledger.  Under LiveIsDurable what the host   *)
(* enforces is what its journal replays to, running or not.                 *)

\* The ledger's view of a registry state.
DeniedIn(st) == {s \in Admitted(st) : ~InGoodStanding(st, s)}
OpenIn(st) == st.issued \ (st.closed \cup st.revoked)

\* The ledger counts with its own instance of Cardinality.
LEMMA LedgerCardinality ==
  ASSUME NEW S
  PROVE  Ledger!Cardinality(S) = Cardinality(S)
BY DEF Ledger!Cardinality, Cardinality

\* One applied event is one step of the ledger, or none.
LEMMA ApplyIsLedgerStep ==
  ASSUME Sound(durable), NEW ev \in JournalEvent, Applicable(durable, ev),
         durable' = Apply(durable, ev), Enforced = durable, Enforced' = durable'
  PROVE  [Ledger!Next]_(Ledger!vars)
<1> DEFINE old == durable
           new == Apply(durable, ev)
<1> USE DEF Sound
<1>1. CASE ev.type = "InviteInserted"
  <2>1. /\ ev.invite \in Invite \ old.issued
        /\ new.issued = old.issued \cup {ev.invite}
        /\ UNCHANGED <<durable.closed, durable.revoked, durable.home, durable.kicked>>
    BY <1>1 DEF Apply, Applicable
  <2>2. OpenIn(new) = OpenIn(old) \cup {ev.invite}
    BY <2>1 DEF OpenIn, WellFormed
  <2>3. DeniedIn(new) = DeniedIn(old)
    BY <2>1 DEF DeniedIn, InGoodStanding, Admitted
  <2>4. Ledger!Issue(ev.invite)
    BY <2>1, <2>2, <2>3 DEF Ledger!Issue, OpenIn, DeniedIn
  <2> QED BY <2>1, <2>4 DEF Ledger!Next
<1>2. CASE ev.type = "SessionAdmitted"
  <2> DEFINE i == ev.invite
             s == ev.session
  <2>1. /\ i \in OpenIn(old) /\ i \in Invite
        /\ s \in Session /\ old.home[s] = None
        /\ old.remaining[i] > 0
        /\ new.home = [old.home EXCEPT ![s] = i]
        /\ new.issued = old.issued /\ new.closed = old.closed
        /\ new.revoked = old.revoked /\ new.kicked = old.kicked
    BY <1>2 DEF Apply, Applicable, OpenIn, Admitted, RegistryState
  <2>2. Cardinality(HomedAt(old, i)) < Limit[i]
    <3>1. /\ old.remaining[i] + Cardinality(HomedAt(old, i)) = Limit[i]
          /\ old.remaining[i] \in Nat /\ Limit[i] \in Nat
          /\ Cardinality(HomedAt(old, i)) \in Nat
      BY <2>1, HomedFinite, LimitAssumption DEF SlotsBalancedIn, RegistryState, OpenIn
    <3> QED BY <2>1, <3>1
  <2>3. OpenIn(new) = OpenIn(old)
    BY <2>1 DEF OpenIn
  <2>4. DeniedIn(new) = DeniedIn(old)
    <3>1. s \notin DeniedIn(old) /\ s \notin DeniedIn(new)
      BY <2>1, NoneAssumption
         DEF DeniedIn, InGoodStanding, Admitted, WellFormed, OpenIn, RegistryState
    <3>2. ASSUME NEW t \in Session \ {s} PROVE t \in DeniedIn(new) <=> t \in DeniedIn(old)
      <4>1. new.home[t] = old.home[t]
        BY <2>1 DEF RegistryState
      <4> QED BY <2>1, <4>1 DEF DeniedIn, InGoodStanding, Admitted
    <3> QED BY <3>1, <3>2 DEF DeniedIn, Admitted
  <2>5. Ledger!Through(i) = HomedAt(old, i)
    BY DEF Ledger!Through, HomedAt
  <2>6. Ledger!Grant(s, i)
    BY <2>1, <2>2, <2>3, <2>4, <2>5, LedgerCardinality DEF Ledger!Grant, OpenIn, DeniedIn
  <2> QED BY <2>1, <2>6 DEF Ledger!Next
<1>3. CASE ev.type = "SessionEndpointUpdated"
  <2>1. /\ new.issued = old.issued /\ new.home = old.home
        /\ OpenIn(new) = OpenIn(old) /\ DeniedIn(new) = DeniedIn(old)
    BY <1>3 DEF Apply, OpenIn, DeniedIn, InGoodStanding, Admitted
  <2> QED BY <2>1 DEF Ledger!vars, OpenIn, DeniedIn
<1>4. CASE ev.type \notin {"InviteInserted", "SessionAdmitted", "SessionEndpointUpdated"}
  <2>1. new.issued = old.issued /\ new.home = old.home
    BY <1>4 DEF Apply
  <2>2. AtLeastAsStrict(new, old)
    BY ApplyStricter
  <2>3. OpenIn(new) \subseteq OpenIn(old) /\ OpenIn(old) \subseteq Invite
    BY <2>1, <2>2 DEF AtLeastAsStrict, OpenIn, RegistryState
  <2>4. DeniedIn(old) \subseteq DeniedIn(new) /\ DeniedIn(new) \subseteq Session
    BY <2>1, <2>2 DEF AtLeastAsStrict, DeniedIn, InGoodStanding, Admitted
  <2>5. Ledger!Withdraw(OpenIn(old) \ OpenIn(new), DeniedIn(new))
    BY <2>1, <2>3, <2>4 DEF Ledger!Withdraw, OpenIn, DeniedIn
  <2> QED BY <2>3, <2>4, <2>5 DEF Ledger!Next
<1> QED BY <1>1, <1>2, <1>3, <1>4

\* The registry implements the abstract ledger: crashes, torn appends and
\* restarts are stuttering, and nothing that was withdrawn comes back
\* (CapabilityRegistry::open, apply_registry_event).
THEOREM RegistryImplementsLedger == Spec => ImplementsLedger
<1>1. Init => Ledger!Init
  BY NoneAssumption DEF Init, Ledger!Init, Enforced, EmptyRegistry, InGoodStanding, Admitted
<1>2. ASSUME RegistryInv, LiveIsDurable, [Next]_vars
      PROVE  [Ledger!Next]_(Ledger!vars)
  <2>1. LiveIsDurable' /\ Journalled
    BY <1>2, StepJournalled
  <2>2. Enforced = durable /\ Enforced' = durable'
    BY <1>2, <2>1 DEF LiveIsDurable, Enforced
  <2>3. CASE UNCHANGED durable
    BY <2>2, <2>3 DEF Ledger!vars, InGoodStanding, Admitted
  <2>4. CASE \E ev \in JournalEvent : Applicable(durable, ev) /\ durable' = Apply(durable, ev)
    BY <1>2, <2>2, <2>4, ApplyIsLedgerStep DEF RegistryInv
  <2> QED BY <2>1, <2>3, <2>4 DEF Journalled
<1> QED BY <1>1, <1>2, SpecInvariant, JournalIsExact, PTL
        DEF Spec, ImplementsLedger, Ledger!Spec
=============================================================================
