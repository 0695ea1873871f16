------------------------- MODULE InviteRotationProofs ------------------------
(***************************************************************************)
(* Proofs about the two hosts that hand out one invitation at a time, for  *)
(* any number of invitations, sessions and failed writes: ServiceRuntime   *)
(* and OperatorConsole.                                                    *)
(*                                                                         *)
(* What a registry call does to the invitations that are open comes first, *)
(* because both use it.  In the service, after whatever the operator does  *)
(* and after every crash, one invitation at most is open, it is the one    *)
(* handed out last, and nobody comes in through what was handed out before *)
(* a kick.  The console leaves one invitation open at most, too, and the   *)
(* gap between a kick and the rotation behind it closes with the rotation. *)
(***************************************************************************)
EXTENDS ServiceRuntime, OperatorConsole, CapabilityRegistryProofs

-----------------------------------------------------------------------------
(* The invariant both hosts share *)

\* Which invitation can be open depends on how far a rotation is.
Handing ==
  /\ phase = "mint" => OpenInvites(live) = {}
  /\ phase = "publish" => OpenInvites(live) = {next}
  /\ phase \in {"idle", "rotate"} => OpenInvites(live) \subseteq {current}

\* No invitation is opened or closed, and nobody is admitted.
NothingHandedOut ==
  /\ up' = up /\ live'.issued = live.issued
  /\ OpenInvites(live') = OpenInvites(live) /\ Admitted(live') = Admitted(live)

\* Whatever was open is closed, and nobody is admitted.
EverythingCloses ==
  /\ up' = up /\ live'.issued = live.issued
  /\ OpenInvites(live') = {} /\ Admitted(live') = Admitted(live)

-----------------------------------------------------------------------------
(* Events *)

\* The type of an event says what it does to invitations and to sessions.
LEMMA ApplyOpens ==
  ASSUME NEW st \in RegistryState, NEW ev \in JournalEvent, Applicable(st, ev), WellFormed(st)
  PROVE  /\ ev.type = "InviteInserted" =>
              /\ Apply(st, ev).issued = st.issued \cup {ev.invite}
              /\ OpenInvites(Apply(st, ev)) = OpenInvites(st) \cup {ev.invite}
         /\ ev.type # "InviteInserted" =>
              /\ Apply(st, ev).issued = st.issued
              /\ OpenInvites(Apply(st, ev)) \subseteq OpenInvites(st)
         /\ ev.type \in {"AdmissionsClosed", "SessionKickedAndAdmissionsClosed",
                         "AllSessionsKickedAndAdmissionsClosed"}
              => ev.invite \notin OpenInvites(Apply(st, ev))
         /\ ev.type = "AllAdmissionsClosed" => OpenInvites(Apply(st, ev)) = {}
         /\ ev.type \in {"SessionAdmitted", "SessionEndpointUpdated", "SessionKicked",
                         "AllSessionsKicked"}
              => OpenInvites(Apply(st, ev)) = OpenInvites(st)
BY DEF Apply, Applicable, JournalEvent, EventType, RegistryState, WellFormed, OpenInvites

\* A committed event has its effect on the running host.
LEMMA CommitApplies ==
  ASSUME RegistryInv, NEW ev, Commit(ev)
  PROVE  /\ live \in RegistryState /\ WellFormed(live) /\ up /\ up' = up
         /\ live' = Apply(live, ev)
BY DEF RegistryInv, Sound, Commit

-----------------------------------------------------------------------------
(* Registry calls *)

\* close_admissions of the current invitation, where no other is open
LEMMA CloseCurrentEffect ==
  ASSUME RegistryInv, CloseCurrent, OpenInvites(live) \subseteq {current}
  PROVE  EverythingCloses /\ [FaultyNext]_vars
<1>1. live \in RegistryState /\ WellFormed(live)
  BY DEF RegistryInv, Sound
<1>2. CASE current \in live.issued \ live.closed
  <2> DEFINE ev == AdmissionsClosed(current)
  <2>1. Commit(ev) /\ CloseAdmissions(current) /\ current \in Invite
    BY <1>1, <1>2 DEF CloseCurrent, CloseAdmissions, RegistryState
  <2>2. ev \in JournalEvent /\ Applicable(live, ev) /\ ev.type = "AdmissionsClosed"
        /\ ev.invite = current
    BY <1>2, <2>1 DEF AdmissionsClosed, Event, JournalEvent, EventType, Applicable
  <2> HIDE DEF ev
  <2>3. EverythingCloses
    BY <2>1, <2>2, CommitApplies, ApplyOpens, ApplyAdmits DEF EverythingCloses
  <2> QED BY <2>1, <2>3 DEF FaultyNext, Next, Withdrawal
<1>3. CASE current \notin live.issued \ live.closed
  <2>1. UNCHANGED vars /\ OpenInvites(live) = {}
    BY <1>3 DEF CloseCurrent, OpenInvites
  <2> QED BY <2>1 DEF EverythingCloses, vars
<1> QED BY <1>2, <1>3

\* insert of an invitation nobody has used
LEMMA InsertEffect ==
  ASSUME RegistryInv, NEW i \in NewInvites, Insert(i)
  PROVE  /\ up /\ up' = up /\ i \notin live.issued /\ live'.issued = live.issued \cup {i}
         /\ OpenInvites(live') = OpenInvites(live) \cup {i}
         /\ Admitted(live') = Admitted(live) /\ [FaultyNext]_vars
<1> DEFINE ev == InviteInserted(i)
<1>1. Commit(ev) /\ i \in Invite /\ i \notin live.issued /\ Limit[i] > 0
  BY DEF Insert, CanInsert, NewInvites
<1>2. ev \in JournalEvent /\ Applicable(live, ev) /\ ev.type = "InviteInserted" /\ ev.invite = i
  BY <1>1 DEF InviteInserted, Event, JournalEvent, EventType, Applicable
<1> HIDE DEF ev
<1>3. [FaultyNext]_vars
  BY DEF FaultyNext, Next, Admission
<1> QED BY <1>1, <1>2, <1>3, CommitApplies, ApplyOpens, ApplyAdmits

\* close_all_admissions, where there may be nothing to close
LEMMA CloseAllEffect ==
  ASSUME RegistryInv, IF CanCloseAll THEN CloseAllAdmissions ELSE UNCHANGED vars
  PROVE  EverythingCloses /\ [FaultyNext]_vars
<1>1. CASE CanCloseAll
  <2>1. /\ AllAdmissionsClosed \in JournalEvent /\ Applicable(live, AllAdmissionsClosed)
        /\ AllAdmissionsClosed.type = "AllAdmissionsClosed" /\ Commit(AllAdmissionsClosed)
    BY <1>1 DEF AllAdmissionsClosed, Event, JournalEvent, EventType, Applicable,
                CloseAllAdmissions
  <2>2. EverythingCloses
    BY <2>1, CommitApplies, ApplyOpens, ApplyAdmits DEF EverythingCloses
  <2> QED BY <1>1, <2>2 DEF FaultyNext, Next, Withdrawal
<1>2. CASE ~CanCloseAll
  BY <1>2 DEF CanCloseAll, EverythingCloses, OpenInvites, vars
<1> QED BY <1>1, <1>2

\* The combined kicks close the current invitation, where no other is open.
LEMMA KickAndCloseEffect ==
  ASSUME RegistryInv, OpenInvites(live) \subseteq {current},
         \/ \E s \in Session : KickAndCloseAdmissions(s, current)
         \/ KickAllAndCloseAdmissions(current)
  PROVE  EverythingCloses /\ [FaultyNext]_vars
<1>1. live \in RegistryState /\ WellFormed(live)
  BY DEF RegistryInv, Sound
<1>2. current \in live.issued /\ current \in Invite
  BY <1>1 DEF KickAndCloseAdmissions, KickAllAndCloseAdmissions, RegistryState
<1>3. ASSUME NEW s \in Session, KickAndCloseAdmissions(s, current)
      PROVE  EverythingCloses
  <2> DEFINE ev == SessionKickedAndAdmissionsClosed(s, current)
  <2>1. Commit(ev) /\ s \in Admitted(live)
    BY <1>3 DEF KickAndCloseAdmissions, Unkicked
  <2>2. /\ ev \in JournalEvent /\ Applicable(live, ev) /\ ev.invite = current
        /\ ev.type = "SessionKickedAndAdmissionsClosed"
    BY <1>2, <2>1 DEF SessionKickedAndAdmissionsClosed, Event, JournalEvent, EventType, Applicable
  <2> HIDE DEF ev
  <2> QED BY <2>1, <2>2, CommitApplies, ApplyOpens, ApplyAdmits DEF EverythingCloses
<1>4. ASSUME KickAllAndCloseAdmissions(current)
      PROVE  EverythingCloses
  <2> DEFINE ev == AllSessionsKickedAndAdmissionsClosed(current)
  <2>1. Commit(ev)
    BY <1>4 DEF KickAllAndCloseAdmissions
  <2>2. /\ ev \in JournalEvent /\ Applicable(live, ev) /\ ev.invite = current
        /\ ev.type = "AllSessionsKickedAndAdmissionsClosed"
    BY <1>2 DEF AllSessionsKickedAndAdmissionsClosed, Event, JournalEvent, EventType, Applicable
  <2> HIDE DEF ev
  <2> QED BY <2>1, <2>2, CommitApplies, ApplyOpens, ApplyAdmits DEF EverythingCloses
<1> QED BY <1>2, <1>3, <1>4 DEF FaultyNext, Next, Withdrawal

\* The plain kicks leave every invitation as it was.
LEMMA KickEffect ==
  ASSUME RegistryInv, (\E s \in Session : Kick(s)) \/ KickAll
  PROVE  NothingHandedOut /\ [FaultyNext]_vars
<1>1. ASSUME NEW s \in Session, Kick(s)
      PROVE  NothingHandedOut
  <2>1. Commit(SessionKicked(s)) /\ s \in Admitted(live)
    BY <1>1 DEF Kick, Unkicked
  <2>2. /\ SessionKicked(s) \in JournalEvent /\ Applicable(live, SessionKicked(s))
        /\ SessionKicked(s).type = "SessionKicked"
    BY <2>1 DEF SessionKicked, Event, JournalEvent, EventType, Applicable
  <2> QED BY <2>1, <2>2, CommitApplies, ApplyOpens, ApplyAdmits DEF NothingHandedOut
<1>2. ASSUME KickAll
      PROVE  NothingHandedOut
  <2>1. /\ AllSessionsKicked \in JournalEvent /\ Applicable(live, AllSessionsKicked)
        /\ AllSessionsKicked.type = "AllSessionsKicked" /\ Commit(AllSessionsKicked)
    BY <1>2 DEF KickAll, AllSessionsKicked, Event, JournalEvent, EventType, Applicable
  <2> QED BY <2>1, CommitApplies, ApplyOpens, ApplyAdmits DEF NothingHandedOut
<1> QED BY <1>1, <1>2 DEF FaultyNext, Next, Withdrawal

\* A browser is admitted through an invitation that is open, or resumes.
LEMMA BrowserEffect ==
  ASSUME RegistryInv, RotationTypeOK, Browser
  PROVE  /\ up' = up /\ live'.issued = live.issued /\ OpenInvites(live') = OpenInvites(live)
         /\ \A s \in Admitted(live') \ Admitted(live) : live'.home[s] \in OpenInvites(live)
         /\ [FaultyNext]_vars
<1>1. ASSUME NEW i \in shared, NEW s \in NewSessions, NEW e \in Endpoint, Admit(i, s, e)
      PROVE  /\ up' = up /\ live'.issued = live.issued /\ OpenInvites(live') = OpenInvites(live)
             /\ \A t \in Admitted(live') \ Admitted(live) : live'.home[t] \in OpenInvites(live)
             /\ [FaultyNext]_vars
  <2> DEFINE ev == SessionAdmitted(i, s, e)
  <2>1. Commit(ev) /\ i \in OpenInvites(live) /\ i \in Invite /\ CanAdmit(i, s)
    BY <1>1 DEF Admit, CanAdmit, InviteAdmits, OpenInvites, RotationTypeOK
  <2>2. ev \in JournalEvent /\ Applicable(live, ev) /\ ev.type = "SessionAdmitted" /\ ev.invite = i
    BY <1>1, <2>1 DEF SessionAdmitted, NewSessions, CanAdmit, InviteAdmits,
                      Event, JournalEvent, EventType, Applicable
  <2> HIDE DEF ev
  <2>3. [FaultyNext]_vars
    BY <1>1, <2>1 DEF FaultyNext, Next, Admission
  <2> QED BY <2>1, <2>2, <2>3, CommitApplies, ApplyOpens, ApplyAdmits
<1>2. ASSUME NEW s \in Session, NEW e \in Endpoint, Resume(s, e)
      PROVE  NothingHandedOut /\ [FaultyNext]_vars
  <2> DEFINE ev == SessionEndpointUpdated(s, e)
  <2>1. Commit(ev) /\ s \in Admitted(live)
    BY <1>2 DEF Resume, CanResume, InGoodStanding
  <2>2. ev \in JournalEvent /\ Applicable(live, ev) /\ ev.type = "SessionEndpointUpdated"
    BY <1>2, <2>1 DEF SessionEndpointUpdated, Event, JournalEvent, EventType, Applicable
  <2> HIDE DEF ev
  <2>3. [FaultyNext]_vars
    BY <1>2 DEF FaultyNext, Next, Admission
  <2> QED BY <2>1, <2>2, <2>3, CommitApplies, ApplyOpens, ApplyAdmits DEF NothingHandedOut
<1> QED BY <1>1, <1>2 DEF Browser, AdmitTcp, NothingHandedOut

\* An invitation that expires is refused, and stays as open as it was.
LEMMA TimeEffect ==
  ASSUME Time
  PROVE  NothingHandedOut /\ [FaultyNext]_vars
<1>1. PICK i \in Invite : Expire(i)
  BY DEF Time
<1> QED BY <1>1 DEF Expire, NothingHandedOut, FaultyNext, Next, Environment

-----------------------------------------------------------------------------
(* Named service mode: the inductive invariant *)

\* The invitations handed out so far, and which of them a kick has barred, as a
\* registry in state st sees them.
Remembered(st) == shared \subseteq st.issued /\ barred \cap OpenInvites(st) = {}

(***************************************************************************)
(* Memory remembers while the host is up; while it is down the journal has *)
(* to, unless it can never be opened again.                                *)
(***************************************************************************)
RotationInv ==
  /\ ServiceTypeOK
  /\ phase # "rotate"
  /\ serving => phase \in {"idle", "mint", "publish"}
  /\ Handing
  /\ barred \subseteq shared
  /\ up => Remembered(live)
  /\ ~up /\ file # "unreadable" => Remembered(durable)

ServiceInvariant == RegistryInv /\ RotationInv

\* A service that starts for the first time
LEMMA ServiceInitially ==
  ASSUME ServiceInit
  PROVE  ServiceInvariant
<1>1. RegistryInv
  BY InitInv DEF ServiceInit
<1>2. RotationInv
  BY <1>1 DEF ServiceInit, Init, RegistryInv, RotationInv, ServiceTypeOK, RotationTypeOK, Phase,
              Handing, Remembered
<1> QED BY <1>1, <1>2 DEF ServiceInvariant

-----------------------------------------------------------------------------
(* Named service mode: steps *)

\* What a step leaves to be shown once the registry's part of it is known.
ServiceFollows == [FaultyNext]_vars /\ RotationInv'

\* A start that reads the journal knows what was handed out before.
LEMMA ServiceOpenRegistryStep ==
  ASSUME ServiceInvariant, OpenRegistry
  PROVE  ServiceFollows
<1>1. [FaultyNext]_vars
  BY DEF OpenRegistry, FaultyNext, Next, Environment
<1>2. RegistryInv'
  BY <1>1, NextInv DEF ServiceInvariant
<1>3. /\ Remembered(durable) /\ live' = durable /\ up' /\ phase' = "opened" /\ serving' = FALSE
      /\ UNCHANGED <<current, next, shared, barred>>
  BY DEF OpenRegistry, Open, ServiceInvariant, RotationInv, ServiceTypeOK
<1>4. RotationInv'
  BY <1>2, <1>3 DEF RegistryInv, ServiceInvariant, RotationInv, ServiceTypeOK, RotationTypeOK,
                    Phase, Handing, Remembered
<1> QED BY <1>1, <1>4 DEF ServiceFollows

\* Steps behind which nothing is open: Invitation, the kicks, CloseEarlier
LEMMA ServiceClosingStep ==
  ASSUME ServiceInvariant, EverythingCloses, [FaultyNext]_vars, up,
         phase' = "mint", UNCHANGED <<serving, current, next, shared>>,
         barred' \in {barred, shared}
  PROVE  ServiceFollows
<1>1. RegistryInv'
  BY NextInv DEF ServiceInvariant
<1>2. /\ live'.issued = live.issued /\ OpenInvites(live') = {} /\ up' = up /\ Remembered(live)
      /\ barred' \subseteq shared
  BY DEF EverythingCloses, ServiceInvariant, RotationInv
<1>3. Remembered(live)'
  BY <1>2 DEF Remembered
<1>4. Handing'
  BY <1>2 DEF Handing
<1>5. ServiceTypeOK'
  BY <1>1, <1>2 DEF RegistryInv, ServiceInvariant, RotationInv, ServiceTypeOK, RotationTypeOK, Phase
<1>6. RotationInv'
  BY <1>2, <1>3, <1>4, <1>5 DEF RotationInv
<1> QED BY <1>6 DEF ServiceFollows

\* The invitation that is minted is the only one open; it was never handed out.
LEMMA ServiceMintStep ==
  ASSUME ServiceInvariant, Mint
  PROVE  ServiceFollows
<1>1. PICK i \in NewInvites : Insert(i) /\ next' = i
  BY DEF Mint
<1>2. /\ up /\ up' = up /\ i \notin live.issued /\ live'.issued = live.issued \cup {i}
      /\ OpenInvites(live') = OpenInvites(live) \cup {i} /\ [FaultyNext]_vars
  BY <1>1, InsertEffect DEF ServiceInvariant
<1>3. /\ phase = "mint" /\ phase' = "publish" /\ i \in Invite
      /\ UNCHANGED <<serving, current, shared, barred>>
  BY DEF Mint, NewInvites
<1>4. RegistryInv'
  BY <1>2, NextInv DEF ServiceInvariant
<1>5. OpenInvites(live) = {} /\ barred \subseteq shared /\ shared \subseteq live.issued
  BY <1>2, <1>3 DEF ServiceInvariant, RotationInv, Handing, Remembered
<1>6. Remembered(live)'
  BY <1>2, <1>3, <1>5 DEF Remembered
<1>7. Handing'
  BY <1>1, <1>2, <1>3, <1>5 DEF Handing
<1>8. ServiceTypeOK'
  BY <1>1, <1>2, <1>3, <1>4 DEF RegistryInv, ServiceInvariant, RotationInv, ServiceTypeOK,
                          RotationTypeOK, Phase
<1>9. RotationInv'
  BY <1>2, <1>3, <1>5, <1>6, <1>7, <1>8 DEF RotationInv
<1> QED BY <1>2, <1>9 DEF ServiceFollows

\* What is handed out is the invitation just minted.
LEMMA ServicePublishStep ==
  ASSUME ServiceInvariant, Publish
  PROVE  ServiceFollows
<1>1. /\ phase = "publish" /\ phase' = "idle" /\ serving' = TRUE /\ current' = next /\ next' = None
      /\ shared' \in {shared, shared \cup {next}} /\ UNCHANGED <<vars, barred>>
  BY DEF Publish
<1>2. /\ OpenInvites(live) = {next} /\ next \in live.issued /\ up /\ RegistryInv
      /\ live \in RegistryState
  BY <1>1 DEF ServiceInvariant, RotationInv, Handing, OpenInvites, ServiceTypeOK, RegistryInv, TypeOK
<1>3. Remembered(live)'
  BY <1>1, <1>2 DEF ServiceInvariant, RotationInv, Remembered, vars
<1>4. Handing'
  BY <1>1, <1>2 DEF Handing, vars
<1>5. ServiceTypeOK'
  <2>1. TypeOK'
    BY <1>1 DEF ServiceInvariant, RegistryInv, TypeOK, vars
  <2>2. next \in Invite
    BY <1>2 DEF RegistryState
  <2> QED BY <1>1, <1>2, <2>1, <2>2 DEF ServiceInvariant, RotationInv, ServiceTypeOK,
                                        RotationTypeOK, Phase, vars
<1>6. RotationInv'
  BY <1>1, <1>2, <1>3, <1>4, <1>5 DEF ServiceInvariant, RotationInv, vars
<1> QED BY <1>1, <1>6 DEF ServiceFollows

\* Steps that concern no invitation: a browser, time, a write that fails
LEMMA ServiceQuietStep ==
  ASSUME ServiceInvariant, [FaultyNext]_vars, UNCHANGED <<serving, current, next, shared, barred>>,
         up' = up, live'.issued = live.issued, OpenInvites(live') = OpenInvites(live),
         \/ phase' = phase /\ (up \/ UNCHANGED <<durable, file>>)
         \/ up /\ ~serving /\ phase' = "exit"
         \/ up /\ phase = "mint" /\ phase' = "idle"
  PROVE  ServiceFollows
<1>1. RegistryInv'
  BY NextInv DEF ServiceInvariant
<1>2. /\ up => Remembered(live)'
      /\ ~up /\ file' # "unreadable" => Remembered(durable)'
  BY DEF ServiceInvariant, RotationInv, Remembered, ServiceTypeOK
<1>3. Handing'
  BY DEF ServiceInvariant, RotationInv, Handing
<1>4. ServiceTypeOK'
  BY <1>1 DEF RegistryInv, ServiceInvariant, RotationInv, ServiceTypeOK, RotationTypeOK, Phase
<1>5. RotationInv'
  BY <1>2, <1>3, <1>4 DEF ServiceInvariant, RotationInv, ServiceTypeOK
<1> QED BY <1>5 DEF ServiceFollows

\* What the process was writing may be in the journal and denies nobody less.
LEMMA ServiceLeaveStep ==
  ASSUME ServiceInvariant, Leave
  PROVE  ServiceFollows
<1> USE DEF ServiceInvariant
<1>1. [FaultyNext]_vars
  BY DEF Leave, InProgress, FaultyNext, Next, Environment
<1>2. RegistryInv'
  BY <1>1, NextInv
<1>3. /\ up /\ ~up' /\ phase' = "down" /\ serving' = FALSE /\ current' = None /\ next' = None
      /\ live' = EmptyRegistry /\ UNCHANGED <<shared, barred>>
  BY DEF Leave, Crash, CrashDuringAppend, Die
<1>4. file' # "unreadable" => AtLeastAsStrict(durable', live)
  <2> SUFFICES ASSUME file' # "unreadable"
               PROVE  AtLeastAsStrict(durable', live)
    OBVIOUS
  <2>1. CASE UNCHANGED durable /\ file # "unreadable"
    BY <1>3, <2>1 DEF RegistryInv, AcknowledgedDenialsAreDurable
  <2>2. ASSUME NEW ev \in Appendable, WriteLine(ev)
        PROVE  AtLeastAsStrict(durable', live)
    <3>1. ev \in JournalEvent
      BY <2>2, AppendableApplies DEF RegistryInv, Sound
    <3>2. file = "clean" /\ Applicable(durable, ev) /\ durable' = Apply(durable, ev)
      BY <2>2, <3>1, WriteLineSound DEF RegistryInv, TypeOK
    <3>3. AtLeastAsStrict(durable', durable)
      BY <3>1, <3>2, ApplyStricter DEF RegistryInv, Sound
    <3>4. AtLeastAsStrict(durable, live)
      BY <1>3, <3>2 DEF RegistryInv, AcknowledgedDenialsAreDurable
    <3> QED BY <3>3, <3>4, StricterTransitive
  <2>3. \/ UNCHANGED durable /\ file # "unreadable"
        \/ \E ev \in Appendable : WriteLine(ev)
    BY DEF Leave, Crash, CrashDuringAppend, InProgress, storage
  <2> QED BY <2>1, <2>2, <2>3
<1>5. file' # "unreadable" => Remembered(durable)'
  <2>1. Remembered(live) /\ barred \subseteq shared
    BY <1>3 DEF RotationInv
  <2> QED BY <1>3, <1>4, <2>1 DEF Remembered, AtLeastAsStrict, OpenInvites
<1>6. RotationInv'
  BY <1>2, <1>3, <1>5 DEF RegistryInv, RotationInv, ServiceTypeOK, RotationTypeOK, Phase, Handing
<1> QED BY <1>1, <1>6 DEF ServiceFollows

\* A write that fails leaves memory as it was.
LEMMA ServiceAppendFailsStep ==
  ASSUME ServiceInvariant, AppendFails
  PROVE  ServiceFollows
<1>1. PICK ev \in InProgress :
        /\ FailAppend(ev)
        /\ phase' = IF ~serving THEN "exit"
                    ELSE IF ev.type = "InviteInserted" THEN "idle" ELSE phase
  BY DEF AppendFails
<1>2. /\ [FaultyNext]_vars /\ up /\ up' = up /\ live' = live
      /\ UNCHANGED <<serving, current, next, shared, barred>>
  BY <1>1 DEF AppendFails, InProgress, FailAppend, FaultyNext
<1>3. serving /\ ev.type = "InviteInserted" => phase = "mint"
  BY <1>1 DEF InProgress, ServiceInvariant, RotationInv
<1> QED BY <1>1, <1>2, <1>3, ServiceQuietStep

-----------------------------------------------------------------------------
(* Named service mode: what holds for every instance *)

\* Every step of the service is one of the registry and keeps the invariant.
LEMMA ServiceStep ==
  ASSUME ServiceInvariant, [ServiceNext]_hostVars
  PROVE  ServiceFollows
<1> USE DEF ServiceInvariant
<1>1. CASE OpenRegistry
  BY <1>1, ServiceOpenRegistryStep
<1>2. CASE CloseEarlier
  <2>1. up
    BY <1>2 DEF CloseEarlier, RotationInv, ServiceTypeOK
  <2> QED BY <1>2, <2>1, CloseAllEffect, ServiceClosingStep DEF CloseEarlier
<1>3. CASE Mint
  BY <1>3, ServiceMintStep
<1>4. CASE Publish
  BY <1>4, ServicePublishStep
<1>5. CASE Invitation
  <2>1. up /\ OpenInvites(live) \subseteq {current}
    BY <1>5 DEF Invitation, RotationInv, ServiceTypeOK, Handing
  <2> QED BY <1>5, <2>1, CloseCurrentEffect, ServiceClosingStep DEF Invitation
<1>6. CASE (\E s \in Session : KickCommand(s)) \/ KickAllCommand
  <2>1. up /\ OpenInvites(live) \subseteq {current}
    BY <1>6 DEF KickCommand, KickAllCommand, RotationInv, ServiceTypeOK, Handing
  <2>2. /\ phase' = "mint" /\ barred' = shared /\ UNCHANGED <<serving, current, next, shared>>
        /\ \/ \E s \in Session : KickAndCloseAdmissions(s, current)
           \/ KickAllAndCloseAdmissions(current)
    BY <1>6 DEF KickCommand, KickAllCommand
  <2> QED BY <2>1, <2>2, KickAndCloseEffect, ServiceClosingStep
<1>7. CASE Browser
  <2>1. up /\ UNCHANGED rotationVars /\ RotationTypeOK
    BY <1>7 DEF Browser, RotationInv, ServiceTypeOK
  <2> QED BY <1>7, <2>1, BrowserEffect, ServiceQuietStep DEF rotationVars
<1>8. CASE Time
  <2>1. UNCHANGED rotationVars /\ UNCHANGED <<durable, file>>
    BY <1>8 DEF Time, Expire
  <2> QED BY <1>8, <2>1, TimeEffect, ServiceQuietStep DEF rotationVars, NothingHandedOut
<1>9. CASE AppendFails
  BY <1>9, ServiceAppendFailsStep
<1>10. CASE Leave
  BY <1>10, ServiceLeaveStep
<1>11. CASE UNCHANGED hostVars
  <2>1. UNCHANGED vars /\ UNCHANGED rotationVars
    BY <1>11 DEF hostVars
  <2> QED BY <2>1, ServiceQuietStep DEF vars, rotationVars
<1> QED BY <1>1, <1>2, <1>3, <1>4, <1>5, <1>6, <1>7, <1>8, <1>9, <1>10, <1>11 DEF ServiceNext

(***************************************************************************)
(* The invariant the others follow from: which invitation may be open at   *)
(* each point of a rotation, and that memory or journal know every         *)
(* invitation that was ever handed out.                                    *)
(***************************************************************************)
THEOREM ServiceInvariantHolds == ServiceSpec => []ServiceInvariant
<1>1. ServiceInit => ServiceInvariant
  BY ServiceInitially
<1>2. ServiceInvariant /\ [ServiceNext]_hostVars => ServiceInvariant'
  BY ServiceStep, NextInv DEF ServiceFollows, ServiceInvariant
<1> QED BY <1>1, <1>2, PTL DEF ServiceSpec

\* The service uses the registry as its specification allows.
THEOREM ServiceUsesRegistry == ServiceSpec => FaultySpec
<1>1. ServiceInit => Init
  BY DEF ServiceInit
<1>2. ServiceInvariant /\ [ServiceNext]_hostVars => [FaultyNext]_vars
  BY ServiceStep DEF ServiceFollows
<1> QED BY <1>1, <1>2, ServiceInvariantHolds, PTL DEF ServiceSpec, FaultySpec

(***************************************************************************)
(* No URL but the last one still admits anyone: after any sequence of      *)
(* commands, failed writes, crashes and restarts (run_service closes all   *)
(* admissions, ServiceRuntime::handle the current one).                    *)
(***************************************************************************)
THEOREM OnlyCurrentAdmits == ServiceSpec => []OnlyCurrentIsOpen
<1>1. ServiceInvariant => OnlyCurrentIsOpen
  BY DEF ServiceInvariant, RotationInv, Handing, OnlyCurrentIsOpen
<1> QED BY <1>1, ServiceInvariantHolds, PTL

\* What the running service denies, it denies after a restart
\* (append_event, replay_registry_journal).
THEOREM ServiceDenialsAreDurable == ServiceSpec => []AcknowledgedDenialsAreDurable
BY ServiceInvariantHolds, PTL DEF ServiceInvariant, RegistryInv

\* Nobody is admitted through what was handed out before the last acknowledged
\* kick, whatever failed, crashed or restarted since (ServiceRuntime::handle).
THEOREM KickedStayOut == ServiceSpec => RemovedStayOut
<1> DEFINE NotThrough ==
      up /\ up' => \A s \in Admitted(live') \ Admitted(live) : live'.home[s] \notin barred
<1>1. ASSUME ServiceInvariant, [ServiceNext]_hostVars
      PROVE  NotThrough
  <2> USE DEF ServiceInvariant
  <2>1. CASE Browser
    <3>1. up /\ RotationTypeOK /\ barred \cap OpenInvites(live) = {}
      BY <1>1, <2>1 DEF Browser, RotationInv, ServiceTypeOK, Remembered
    <3> QED BY <1>1, <2>1, <3>1, BrowserEffect
  <2>2. CASE Mint
    BY <1>1, <2>2, InsertEffect DEF Mint
  <2>3. CASE CloseEarlier
    BY <1>1, <2>3, CloseAllEffect DEF CloseEarlier, EverythingCloses
  <2>4. CASE Invitation
    BY <1>1, <2>4, CloseCurrentEffect DEF Invitation, RotationInv, Handing, EverythingCloses
  <2>5. CASE (\E s \in Session : KickCommand(s)) \/ KickAllCommand
    <3>1. /\ OpenInvites(live) \subseteq {current}
          /\ \/ \E s \in Session : KickAndCloseAdmissions(s, current)
             \/ KickAllAndCloseAdmissions(current)
      BY <1>1, <2>5 DEF KickCommand, KickAllCommand, RotationInv, Handing
    <3> QED BY <1>1, <3>1, KickAndCloseEffect DEF EverythingCloses
  <2>6. CASE OpenRegistry \/ Leave
    BY <2>6 DEF OpenRegistry, Open, Leave, Crash, CrashDuringAppend, Die
  <2>7. CASE Publish \/ Time \/ AppendFails \/ UNCHANGED hostVars
    BY <2>7 DEF Publish, Time, Expire, AppendFails, FailAppend, hostVars, vars
  <2> QED BY <1>1, <2>1, <2>2, <2>3, <2>4, <2>5, <2>6, <2>7 DEF ServiceNext
<1>2. ServiceSpec => [][NotThrough]_hostVars
  BY <1>1, ServiceInvariantHolds, PTL DEF ServiceSpec
<1> QED BY <1>2 DEF RemovedStayOut

\* A URL admits when it is handed out (publish_share_url takes its time).
THEOREM HandedOutAdmits == ServiceSpec => HandedOutIsOpen
<1> DEFINE Opens == phase = "publish" /\ phase' = "idle" => current' \in OpenInvites(live')
<1>1. ASSUME ServiceInvariant, [ServiceNext]_hostVars
      PROVE  Opens
  <2> SUFFICES ASSUME phase = "publish", phase' = "idle"
               PROVE  current' \in OpenInvites(live')
    OBVIOUS
  <2>1. Publish
    BY <1>1 DEF ServiceNext, OpenRegistry, CloseEarlier, Mint, Invitation, KickCommand,
                KickAllCommand, Browser, Time, AppendFails, InProgress, Leave, hostVars, rotationVars
  <2>2. OpenInvites(live) = {next} /\ current' = next /\ live' = live
    BY <1>1, <2>1 DEF Publish, vars, ServiceInvariant, RotationInv, Handing
  <2> QED BY <2>2
<1>2. ServiceSpec => [][Opens]_hostVars
  BY <1>1, ServiceInvariantHolds, PTL DEF ServiceSpec
<1> QED BY <1>2 DEF HandedOutIsOpen

-----------------------------------------------------------------------------
(* Foreground sharing: the inductive invariant *)

\* Only while a rotation is due may what a kick has barred still be open.
ConsoleRotation ==
  /\ RotationTypeOK /\ up
  /\ phase \in {"idle", "rotate", "mint", "publish"}
  /\ Handing
  /\ barred \subseteq shared /\ shared \subseteq live.issued
  /\ phase # "rotate" => barred \cap OpenInvites(live) = {}

ConsoleInvariant == RegistryInv /\ ConsoleRotation

\* The console starts with an invitation to mint.
LEMMA ConsoleInitially ==
  ASSUME ConsoleInit
  PROVE  ConsoleInvariant
<1>1. RegistryInv
  BY InitInv DEF ConsoleInit
<1>2. ConsoleRotation
  BY DEF ConsoleInit, Init, EmptyRegistry, ConsoleRotation, RotationTypeOK, Phase, Handing,
         OpenInvites
<1> QED BY <1>1, <1>2 DEF ConsoleInvariant

\* Nobody is admitted through what is barred, but while a rotation is due.
AdmitsNoneBarred ==
  \A s \in Admitted(live') \ Admitted(live) : live'.home[s] \in barred => phase = "rotate"

ConsoleFollows == [FaultyNext]_vars /\ ConsoleRotation' /\ AdmitsNoneBarred

-----------------------------------------------------------------------------
(* Foreground sharing: steps *)

\* A step behind which no more is open than before, and nothing new is barred
LEMMA ConsoleQuietStep ==
  ASSUME ConsoleInvariant, NothingHandedOut, [FaultyNext]_vars,
         UNCHANGED <<current, next, shared>>, serving' = serving,
         \/ phase' = phase /\ barred' = barred
         \/ phase = "idle" /\ phase' = "rotate" /\ barred' \in {barred, shared}
  PROVE  ConsoleFollows
BY DEF ConsoleFollows, ConsoleInvariant, ConsoleRotation, AdmitsNoneBarred, NothingHandedOut,
       RotationTypeOK, Phase, Handing

\* rotate_invite closes the only invitation that can be open.
LEMMA ConsoleCloseStep ==
  ASSUME ConsoleInvariant, Close
  PROVE  ConsoleFollows
<1>1. /\ phase = "rotate" /\ phase' = "mint" /\ CloseCurrent
      /\ UNCHANGED <<serving, current, next, shared, barred>>
  BY DEF Close
<1>2. EverythingCloses /\ [FaultyNext]_vars
  BY <1>1, CloseCurrentEffect DEF ConsoleInvariant, ConsoleRotation, Handing
<1> QED BY <1>1, <1>2 DEF ConsoleFollows, ConsoleInvariant, ConsoleRotation, AdmitsNoneBarred,
                          EverythingCloses, RotationTypeOK, Phase, Handing

\* What is minted was never handed out, so it is not barred.
LEMMA ConsoleMintStep ==
  ASSUME ConsoleInvariant, Mint
  PROVE  ConsoleFollows
<1>1. PICK i \in NewInvites : Insert(i) /\ next' = i
  BY DEF Mint
<1>2. /\ up' = up /\ i \notin live.issued /\ live'.issued = live.issued \cup {i}
      /\ OpenInvites(live') = OpenInvites(live) \cup {i}
      /\ Admitted(live') = Admitted(live) /\ [FaultyNext]_vars
  BY <1>1, InsertEffect DEF ConsoleInvariant
<1>3. /\ phase = "mint" /\ phase' = "publish" /\ i \in Invite
      /\ UNCHANGED <<serving, current, shared, barred>>
  BY DEF Mint, NewInvites
<1> QED BY <1>1, <1>2, <1>3 DEF ConsoleFollows, ConsoleInvariant, ConsoleRotation, AdmitsNoneBarred,
                                RotationTypeOK, Phase, Handing

\* What is handed out becomes the invitation the next rotation closes.
LEMMA ConsolePublishStep ==
  ASSUME ConsoleInvariant, Publish
  PROVE  ConsoleFollows
<1>1. /\ phase = "publish" /\ phase' = "idle" /\ serving' = TRUE /\ current' = next /\ next' = None
      /\ shared' \in {shared, shared \cup {next}} /\ UNCHANGED <<vars, barred>>
  BY DEF Publish
<1>2. OpenInvites(live) = {next} /\ next \in live.issued /\ live \in RegistryState
  BY <1>1 DEF ConsoleInvariant, ConsoleRotation, Handing, OpenInvites, RegistryInv, TypeOK
<1>3. next \in Invite /\ live' = live /\ up' = up
  BY <1>1, <1>2 DEF RegistryState, vars
<1> QED BY <1>1, <1>2, <1>3 DEF ConsoleFollows, ConsoleInvariant, ConsoleRotation, AdmitsNoneBarred,
                                RotationTypeOK, Phase, Handing

\* A browser comes in through what is open.
LEMMA ConsoleBrowserStep ==
  ASSUME ConsoleInvariant, Browser
  PROVE  ConsoleFollows
<1>1. UNCHANGED <<phase, serving, current, next, shared, barred>>
  BY DEF Browser, rotationVars
<1>2. /\ up' = up /\ live'.issued = live.issued /\ OpenInvites(live') = OpenInvites(live)
      /\ \A s \in Admitted(live') \ Admitted(live) : live'.home[s] \in OpenInvites(live)
      /\ [FaultyNext]_vars
  BY BrowserEffect DEF ConsoleInvariant, ConsoleRotation
<1> QED BY <1>1, <1>2 DEF ConsoleFollows, ConsoleInvariant, ConsoleRotation, AdmitsNoneBarred,
                          RotationTypeOK, Phase, Handing

\* Every step of the console is one of the registry and keeps the invariant.
LEMMA ConsoleStep ==
  ASSUME ConsoleInvariant, [ConsoleNext]_hostVars
  PROVE  ConsoleFollows
<1>1. CASE Close
  BY <1>1, ConsoleCloseStep
<1>2. CASE Mint
  BY <1>2, ConsoleMintStep
<1>3. CASE Publish
  BY <1>3, ConsolePublishStep
<1>4. CASE InviteCommand \/ UNCHANGED hostVars
  <2>1. NothingHandedOut /\ UNCHANGED vars /\ UNCHANGED <<serving, current, next, shared, barred>>
    BY <1>4 DEF InviteCommand, hostVars, rotationVars, vars, NothingHandedOut
  <2> QED BY <1>4, <2>1, ConsoleQuietStep DEF InviteCommand, hostVars, rotationVars
<1>5. CASE ConsoleKick
  BY <1>5, KickEffect, ConsoleQuietStep DEF ConsoleKick, ConsoleInvariant
<1>6. CASE Browser
  BY <1>6, ConsoleBrowserStep
<1>7. CASE Time
  BY <1>7, TimeEffect, ConsoleQuietStep DEF Time, rotationVars
<1> QED BY <1>1, <1>2, <1>3, <1>4, <1>5, <1>6, <1>7 DEF ConsoleNext

-----------------------------------------------------------------------------
(* Foreground sharing: what holds for every instance *)

\* Registry and rotation keep their invariant, whatever the operator types.
THEOREM ConsoleInvariantHolds == ConsoleSpec => []ConsoleInvariant
<1>1. ConsoleInit => ConsoleInvariant
  BY ConsoleInitially
<1>2. ConsoleInvariant /\ [ConsoleNext]_hostVars => ConsoleInvariant'
  BY ConsoleStep, NextInv DEF ConsoleFollows, ConsoleInvariant
<1> QED BY <1>1, <1>2, PTL DEF ConsoleSpec

\* No URL but the last one still admits anyone (rotate_invite closes it first).
THEOREM OnlyLastIsOpen == ConsoleSpec => []OnlyCurrentIsOpen
<1>1. ConsoleInvariant => OnlyCurrentIsOpen
  BY DEF ConsoleInvariant, ConsoleRotation, Handing, OnlyCurrentIsOpen
<1> QED BY <1>1, ConsoleInvariantHolds, PTL

\* Once the rotation behind a kick has closed the old URL, nobody is admitted
\* through anything handed out before the kick (operator_console).
THEOREM OutAfterRotation == ConsoleSpec => OutOnceRotated
<1>1. ConsoleInvariant /\ [ConsoleNext]_hostVars => AdmitsNoneBarred
  BY ConsoleStep DEF ConsoleFollows
<1>2. ConsoleSpec => [][AdmitsNoneBarred]_hostVars
  BY <1>1, ConsoleInvariantHolds, PTL DEF ConsoleSpec
<1> QED BY <1>2 DEF OutOnceRotated, AdmitsNoneBarred
=============================================================================
