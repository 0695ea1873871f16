----------------------- MODULE DeviceEnrollmentProofs -----------------------
(***************************************************************************)
(* Proofs about DeviceEnrollment, for any number of processes, invitations *)
(* and faults: one enrollment wins, what it saved is known to the host,    *)
(* and whoever resumes it is refused for a reason.                         *)
(***************************************************************************)
EXTENDS DeviceEnrollment, TLAPS

-----------------------------------------------------------------------------
(* Types *)

ClientRecord ==
  [stage : Stage, transport : Transport, invite : Invite \cup {None},
   grant : Grant \cup {None}, port : {"none", "own", "saved"}, mounted : BOOLEAN,
   why : {"none", "enrolled", "unsaved", "busy", "lost", "denied", "quit"}]

TaskRecord == [at : {"none", "challenged", "granted", "serving"}, hello : Message]

DeviceTypes ==
  /\ granted \in [Process -> Invite \cup {None}]
  /\ DeviceTypeOK

\* Grants of one session through one invitation
Alike(g, h) == g.session = h.session /\ g.invite = h.invite

\* Why a process that resumes may be refused
Reason(c) ==
  \/ moved
  \/ file.grant.session \in denied
  \/ Tunnel(c) /\ file.grant.invite \notin AllowTcp

\* A process that enrolls has a grant of its own, any other one that of the file.
OwnsGrant(c) ==
  client[c].grant # None =>
    IF Enrolls(c) THEN client[c].grant.session = c
    ELSE file # None /\ Alike(client[c].grant, file.grant)

\* How far a process is says what it has.
ClientFits(c) ==
  /\ client[c].stage = "off" => client[c] = Unstarted
  /\ client[c].stage \in {"saving", "linking"} => Enrolls(c) /\ client[c].grant # None
  /\ client[c].stage = "listening" => ~Enrolls(c)
  /\ ~Enrolls(c) /\ client[c].stage # "off" => file # None
  /\ ~Enrolls(c) /\ client[c].stage \notin {"off", "binding", "ended"} => client[c].grant # None
  /\ ~Enrolls(c) /\ client[c].mounted => client[c].grant # None
  /\ ~Enrolls(c) /\ client[c].why = "denied" => Reason(c)
  /\ client[c].mounted /\ Enrolls(c) => file # None /\ file.grant.session = c

\* A hello asks for what its process wants.
HelloFits(c, hello) ==
  /\ hello.type = "admit" => Enrolls(c)
  /\ hello.type = "resume" => client[c].grant # None /\ Alike(hello.grant, client[c].grant)

\* There is no connection before a process connects, and it is denied for a reason.
WireFits(c) ==
  /\ client[c].stage \in {"off", "binding"} => wire[c] = Closed /\ task[c] = NoHandler
  /\ HelloFits(c, wire[c]) /\ HelloFits(c, task[c].hello)
  /\ task[c].at # "none" \/ wire[c].type \in {"challenge", "proof"} =>
       task[c].hello.type \in {"admit", "resume"}
  /\ ~Enrolls(c) /\ wire[c].type = "denied" /\ ~wire[c].late => Reason(c)

Matching ==
  \A c \in Process : OwnsGrant(c) /\ ClientFits(c) /\ WireFits(c)

\* A handler that was left was asked for something, by whoever may want it.
LeftFits(h) ==
  /\ h.hello.type \in {"admit", "resume"}
  /\ h.hello.type = "admit" => Enrolls(h.by)

Leftover == \A h \in left : LeftFits(h)

\* What such a handler still does
LateStep(h) == LateProof(h) \/ LateRegister(h) \/ LateEnds(h)

\* What a message of each type carries.
LEMMA MessageParts ==
  ASSUME NEW m \in Message
  PROVE  /\ m.type = "admit" => m.invite \in Invite
         /\ m.type = "resume" => m.grant \in Grant
         /\ m.type = "granted" => m.grant \in Grant
         /\ m.type = "challenge" => m.session \in Process
         /\ m.type = "denied" => m.late \in BOOLEAN
BY DEF Message

\* Messages that are sent.
LEMMA MessageKinds ==
  /\ Closed \in Message /\ Read \in Message
  /\ \A late \in BOOLEAN : [type |-> "denied", late |-> late] \in Message
  /\ \A i \in Invite : [type |-> "admit", invite |-> i] \in Message
  /\ \A g \in Grant : [type |-> "resume", grant |-> g] \in Message
  /\ \A s \in Process : [type |-> "challenge", session |-> s] \in Message
  /\ \A p \in Proof : [type |-> "proof", signed |-> p] \in Message
  /\ \A g \in Grant : [type |-> "granted", grant |-> g] \in Message
<1>1. Closed \in Message /\ Read \in Message
  BY DEF Message, Closed, Read
<1>2. \A late \in BOOLEAN : [type |-> "denied", late |-> late] \in Message
  BY DEF Message
<1>3. \A i \in Invite : [type |-> "admit", invite |-> i] \in Message
  BY DEF Message
<1>4. \A g \in Grant : [type |-> "resume", grant |-> g] \in Message
  BY DEF Message
<1>5. \A s \in Process : [type |-> "challenge", session |-> s] \in Message
  BY DEF Message
<1>6. \A p \in Proof : [type |-> "proof", signed |-> p] \in Message
  BY DEF Message
<1>7. \A g \in Grant : [type |-> "granted", grant |-> g] \in Message
  BY DEF Message
<1> QED BY <1>1, <1>2, <1>3, <1>4, <1>5, <1>6, <1>7

\* Initially everything has its type.
LEMMA TypesInitially ==
  ASSUME DeviceInit
  PROVE  DeviceTypes
<1> USE DEF DeviceInit
<1>1. granted \in [Process -> Invite \cup {None}]
  BY DEF Ledger!Init
<1>2. client \in [Process -> ClientRecord]
  BY DEF Unstarted, ClientRecord, Stage, Transport
<1>3. wire \in [Process -> Message] /\ task \in [Process -> TaskRecord]
  BY MessageKinds DEF NoHandler, Read, TaskRecord
<1>4. \A c \in Process : task[c].at = "none"
  BY DEF NoHandler
<1> QED BY <1>1, <1>2, <1>3, <1>4, DeviceAssumption DEF DeviceTypes, DeviceTypeOK, ClientRecord, TaskRecord

\* Hanging up, on one connection or on several, leaves types as they are.
LEMMA HangTypes ==
  ASSUME DeviceTypes, NEW c \in Process, Hangs(c)
  PROVE  /\ wire' \in [Process -> Message]
         /\ task' \in [Process -> TaskRecord]
         /\ \A d \in Process : task'[d].at # "none" => wire'[d] # Closed
         /\ left' \subseteq Handler
<1>1. wire \in [Process -> Message] /\ task \in [Process -> TaskRecord]
  BY DEF DeviceTypes, DeviceTypeOK, TaskRecord
<1>2. NoHandler \in TaskRecord /\ NoHandler.at = "none"
  BY MessageKinds DEF NoHandler, TaskRecord, Read
<1>3. /\ wire' = [wire EXCEPT ![c] = Closed]
      /\ task' = [task EXCEPT ![c] = NoHandler]
  BY DEF Hangs, Puts
<1>4. Outlives(c) \subseteq Handler
  <2>1. task[c].hello \in Message
    BY <1>1 DEF TaskRecord
  <2> QED BY <2>1 DEF Outlives, Handler
<1>5. left' \subseteq Handler
  BY <1>4 DEF Hangs, DeviceTypes, DeviceTypeOK
<1> QED BY <1>1, <1>2, <1>3, <1>5, MessageKinds DEF DeviceTypes, DeviceTypeOK

\* A host that drops connections leaves no handler without one.
LEMMA DropTypes ==
  ASSUME DeviceTypes, NEW cs \in SUBSET Process, Drops(cs)
  PROVE  /\ wire' \in [Process -> Message]
         /\ task' \in [Process -> TaskRecord]
         /\ \A d \in Process : task'[d].at # "none" => wire'[d] # Closed
<1>1. wire \in [Process -> Message] /\ task \in [Process -> TaskRecord]
  BY DEF DeviceTypes, DeviceTypeOK, TaskRecord
<1>2. NoHandler \in TaskRecord /\ NoHandler.at = "none"
  BY MessageKinds DEF NoHandler, TaskRecord, Read
<1> QED BY <1>1, <1>2, MessageKinds DEF DeviceTypes, DeviceTypeOK, Drops

\* Putting a message on a connection, with its handler or without.
LEMMA PutTypes ==
  ASSUME DeviceTypes, NEW c \in Process, NEW m \in Message, Puts(c, m), m # Closed,
         \/ UNCHANGED task
         \/ \E t \in TaskRecord : task' = [task EXCEPT ![c] = t]
  PROVE  /\ wire' \in [Process -> Message]
         /\ task' \in [Process -> TaskRecord]
         /\ \A d \in Process : task'[d].at # "none" => wire'[d] # Closed
<1>1. wire \in [Process -> Message] /\ task \in [Process -> TaskRecord]
  BY DEF DeviceTypes, DeviceTypeOK, TaskRecord
<1> QED BY <1>1 DEF DeviceTypes, DeviceTypeOK, Puts
\* A process that fails has failed with one of the reasons.
LEMMA FailTypes ==
  ASSUME DeviceTypes, NEW c \in Process, NEW why \in {"enrolled", "unsaved", "busy", "lost", "denied"},
         Fails(c, why)
  PROVE  DeviceTypes'
<1>1. /\ wire' \in [Process -> Message]
      /\ task' \in [Process -> TaskRecord]
      /\ \A d \in Process : task'[d].at # "none" => wire'[d] # Closed
      /\ left' \subseteq Handler
  BY HangTypes DEF Fails
<1>2. client \in [Process -> ClientRecord]
  BY DEF DeviceTypes, DeviceTypeOK, ClientRecord
<1>3. /\ [client[c] EXCEPT !.stage = "open"] \in ClientRecord
      /\ [client[c] EXCEPT !.stage = "ended", !.port = "none", !.why = why] \in ClientRecord
  BY <1>2 DEF ClientRecord, Stage
<1>4. client' \in [Process -> ClientRecord]
  BY <1>2, <1>3 DEF Fails
<1>5. UNCHANGED <<granted, endpoint, issuer, file>>
  BY DEF Fails, recordVars, ledgerVars
<1> QED BY <1>1, <1>4, <1>5 DEF DeviceTypes, DeviceTypeOK, ClientRecord, TaskRecord

\* Steps of a process keep types.
LEMMA ProcessTypes ==
  ASSUME DeviceTypes, Matching, NEW c \in Process
  PROVE  /\ \A i \in Invite, t \in Transport : StartEnroll(c, i, t) => DeviceTypes'
         /\ \A ownPort \in BOOLEAN : StartResume(c, ownPort) => DeviceTypes'
         /\ Connect(c) \/ PortIsBusy(c) \/ CannotSave(c) \/ SavesInVain(c) \/ Quit(c) => DeviceTypes'
<1> USE DEF hostVars, recordVars, ledgerVars
<1>0. /\ client \in [Process -> ClientRecord]
      /\ wire \in [Process -> Message] /\ task \in [Process -> TaskRecord]
      /\ file \in StoredSession \cup {None} /\ None \notin Process
  BY DeviceAssumption DEF DeviceTypes, DeviceTypeOK, ClientRecord, TaskRecord, StoredSession
<1>1. /\ client[c] \in ClientRecord
      /\ \A stage \in Stage : [client[c] EXCEPT !.stage = stage] \in ClientRecord
  BY <1>0 DEF ClientRecord
<1>2. ASSUME NEW i \in Invite, NEW t \in Transport, StartEnroll(c, i, t)
      PROVE  DeviceTypes'
  <2>1. [Unstarted EXCEPT !.stage = "binding", !.transport = t, !.invite = i] \in ClientRecord
    BY DEF Unstarted, ClientRecord, Stage, Transport
  <2>2. client' \in [Process -> ClientRecord]
    BY <1>0, <1>2, <2>1 DEF StartEnroll
  <2> QED BY <1>2, <2>2 DEF StartEnroll, DeviceTypes, DeviceTypeOK, ClientRecord
<1>3. ASSUME NEW ownPort \in BOOLEAN, StartResume(c, ownPort)
      PROVE  DeviceTypes'
  <2>1. [Unstarted EXCEPT !.stage = "binding", !.transport = "tcp"] \in ClientRecord
    BY DEF Unstarted, ClientRecord, Stage, Transport
  <2>2. [Unstarted EXCEPT !.stage = "dialing", !.transport = file.transport,
                          !.grant = file.grant] \in ClientRecord
    BY <1>0, <1>3 DEF StartResume, Unstarted, ClientRecord, Stage, StoredSession
  <2>3. client' \in [Process -> ClientRecord]
    BY <1>0, <1>3, <2>1, <2>2 DEF StartResume
  <2> QED BY <1>3, <2>3 DEF StartResume, DeviceTypes, DeviceTypeOK, ClientRecord
<1>4. ASSUME Bind(c)
      PROVE  DeviceTypes'
  <2>1. ~Enrolls(c) => file.grant \in Grant
    BY <1>0, <1>4 DEF Bind, Matching, ClientFits, StoredSession
  <2> DEFINE g == IF Enrolls(c) THEN None ELSE file.grant
             bound == [client[c] EXCEPT !.stage = "dialing", !.port = "own", !.grant = g]
  <2>2. client' \in [Process -> ClientRecord]
    <3>1. g \in Grant \cup {None}
      BY <2>1
    <3>2. client' = [client EXCEPT ![c] = bound]
      BY <1>0, <1>4 DEF Bind
    <3> HIDE DEF g
    <3>3. [client[c] EXCEPT !.stage = "dialing"] \in ClientRecord
      BY <1>1 DEF Stage
    <3>4. bound \in ClientRecord
      BY <3>1, <3>3 DEF ClientRecord
    <3> QED BY <1>0, <3>2, <3>4
  <2> QED BY <1>4, <2>2 DEF Bind, DeviceTypes, DeviceTypeOK, ClientRecord
<1>5. ASSUME Dial(c)
      PROVE  DeviceTypes'
  <2> DEFINE m == IF client[c].grant = None
                  THEN [type |-> "admit", invite |-> client[c].invite]
                  ELSE [type |-> "resume", grant |-> client[c].grant]
  <2>1. client' \in [Process -> ClientRecord]
    BY <1>1, <1>0, <1>5 DEF Dial, Moves, Stage
  <2>2. m \in Message /\ m # Closed
    <3>1. CASE client[c].grant = None
      <4>1. Enrolls(c)
        BY <1>5, <3>1 DEF Dial, Matching, ClientFits
      <4>2. client[c].invite \in Invite
        BY <1>1, <4>1 DEF Enrolls, ClientRecord
      <4> QED BY <3>1, <4>2, MessageKinds DEF Closed
    <3>2. CASE client[c].grant # None
      BY <1>1, <3>2, MessageKinds DEF Closed, ClientRecord
    <3> QED BY <3>1, <3>2
  <2>3. Puts(c, m) /\ UNCHANGED task
    BY <1>5 DEF Dial
  <2> HIDE DEF m
  <2>4. /\ wire' \in [Process -> Message] /\ task' \in [Process -> TaskRecord]
        /\ \A d \in Process : task'[d].at # "none" => wire'[d] # Closed
    BY <2>2, <2>3, PutTypes
  <2> QED BY <1>5, <2>1, <2>4 DEF Dial, DeviceTypes, DeviceTypeOK, ClientRecord, TaskRecord
<1>6. ASSUME SendProof(c)
      PROVE  DeviceTypes'
  <2> DEFINE m == [type |-> "proof", signed |-> ProofOf(c, wire[c].session)]
  <2>1. wire[c].session \in Process
    BY <1>0, <1>6, MessageParts DEF SendProof
  <2>2. ProofOf(c, wire[c].session) \in Proof
    BY <1>1, <2>1 DEF ProofOf, Proof, ClientRecord
  <2>3. m \in Message /\ m # Closed
    BY <2>2, MessageKinds DEF Closed
  <2>4. Puts(c, m) /\ UNCHANGED task
    BY <1>6 DEF SendProof
  <2> HIDE DEF m
  <2>5. /\ wire' \in [Process -> Message] /\ task' \in [Process -> TaskRecord]
        /\ \A d \in Process : task'[d].at # "none" => wire'[d] # Closed
    BY <2>3, <2>4, PutTypes
  <2> QED BY <1>6, <2>5 DEF SendProof, DeviceTypes, DeviceTypeOK, TaskRecord
<1>7. ASSUME ReadGrant(c)
      PROVE  DeviceTypes'
  <2>1. wire[c].grant \in Grant
    BY <1>0, <1>7, MessageParts DEF ReadGrant
  <2>2. Onwards(c) \in Stage
    BY DEF Onwards, Stage
  <2>3. client' \in [Process -> ClientRecord]
    <3> DEFINE open2 == client[c].mounted \/ Onwards(c) = "open"
               granted2 == [client[c] EXCEPT !.grant = wire[c].grant, !.stage = Onwards(c),
                                             !.mounted = open2]
    <3>1. granted2 \in ClientRecord
      BY <1>1, <2>1, <2>2 DEF ClientRecord
    <3>2. client' = [client EXCEPT ![c] = granted2]
      BY <1>0, <1>7 DEF ReadGrant
    <3> QED BY <1>0, <3>1, <3>2
  <2>4. Puts(c, Read) /\ UNCHANGED task
    BY <1>7 DEF ReadGrant
  <2>5. Read \in Message /\ Read # Closed
    BY MessageKinds DEF Read, Closed
  <2>6. /\ wire' \in [Process -> Message] /\ task' \in [Process -> TaskRecord]
        /\ \A d \in Process : task'[d].at # "none" => wire'[d] # Closed
    BY <2>4, <2>5, PutTypes
  <2> QED BY <1>7, <2>3, <2>6 DEF ReadGrant, DeviceTypes, DeviceTypeOK, ClientRecord, TaskRecord
<1>8. ASSUME GiveUp(c) \/ PortIsBusy(c) \/ CannotSave(c)
      PROVE  DeviceTypes'
  BY <1>8, FailTypes DEF GiveUp, PortIsBusy, CannotSave
<1>9. ASSUME CheckFile(c)
      PROVE  DeviceTypes'
  <2>1. CASE file # None
    BY <1>9, <2>1, FailTypes DEF CheckFile
  <2>2. CASE file = None
    <3>1. client' \in [Process -> ClientRecord]
      BY <1>0, <1>1, <1>9, <2>2 DEF CheckFile, Moves, Stage
    <3> QED BY <1>9, <2>2, <3>1 DEF CheckFile, DeviceTypes, DeviceTypeOK, ClientRecord
  <2> QED BY <2>1, <2>2
<1>10. ASSUME Link(c)
      PROVE  DeviceTypes'
  <2>1. CASE file # None
    BY <1>10, <2>1, FailTypes DEF Link
  <2>2. CASE file = None
    <3>1. client' \in [Process -> ClientRecord]
      BY <1>0, <1>10, <2>2 DEF Link, ClientRecord, Stage
    <3>2. file' \in StoredSession
      BY <1>1, <1>10, <2>2 DEF Link, Saved, StoredSession, ClientRecord, Matching, ClientFits
    <3> QED BY <1>10, <2>2, <3>1, <3>2 DEF Link, DeviceTypes, DeviceTypeOK, ClientRecord, StoredSession
  <2> QED BY <2>1, <2>2
<1>11. ASSUME Listen(c)
      PROVE  DeviceTypes'
  <2> DEFINE busy == \E d \in Process \ {c} : HasSavedPort(d)
  <2>1. CASE busy
    BY <1>11, <2>1, FailTypes DEF Listen
  <2>2. CASE ~busy
    <3>1. client' \in [Process -> ClientRecord]
      BY <1>0, <1>11, <2>2 DEF Listen, ClientRecord, Stage
    <3> QED BY <1>11, <2>2, <3>1 DEF Listen, DeviceTypes, DeviceTypeOK, ClientRecord
  <2> QED BY <2>1, <2>2
<1>12. ASSUME Quit(c)
      PROVE  DeviceTypes'
  <2>1. [Unstarted EXCEPT !.stage = "ended", !.why = "quit",
                          !.invite = client[c].invite] \in ClientRecord
    <3>1. client[c].invite \in Invite \cup {None}
      BY <1>1 DEF ClientRecord
    <3> QED BY <3>1 DEF Unstarted, ClientRecord, Stage, Transport
  <2>2. client' \in [Process -> ClientRecord]
    BY <1>0, <1>12, <2>1 DEF Quit
  <2>3. Hangs(c)
    BY <1>12 DEF Quit
  <2> QED BY <1>12, <2>2, <2>3, HangTypes DEF Quit, DeviceTypes, DeviceTypeOK, ClientRecord, TaskRecord
<1>13. ASSUME SavesInVain(c)
      PROVE  DeviceTypes'
  <2>1. [client[c] EXCEPT !.stage = "ended", !.port = "none", !.why = "unsaved"] \in ClientRecord
    <3> DEFINE ended == [client[c] EXCEPT !.stage = "ended"]
               closed == [ended EXCEPT !.port = "none"]
    <3>1. ended \in ClientRecord
      BY <1>1 DEF Stage
    <3> HIDE DEF ended
    <3>2. closed \in ClientRecord
      BY <3>1 DEF ClientRecord
    <3> HIDE DEF closed
    <3>3. [closed EXCEPT !.why = "unsaved"] \in ClientRecord
      BY <3>2 DEF ClientRecord
    <3> QED BY <3>3 DEF ended, closed
  <2>2. client' \in [Process -> ClientRecord]
    BY <1>0, <1>13, <2>1 DEF SavesInVain
  <2>3. file' \in StoredSession
    BY <1>1, <1>13 DEF SavesInVain, Saved, StoredSession, ClientRecord, Matching, ClientFits
  <2>4. Hangs(c)
    BY <1>13 DEF SavesInVain
  <2> QED BY <1>13, <2>2, <2>3, <2>4, HangTypes
          DEF SavesInVain, DeviceTypes, DeviceTypeOK, ClientRecord, TaskRecord, StoredSession
<1> QED BY <1>2, <1>3, <1>4, <1>5, <1>6, <1>7, <1>8, <1>9, <1>10, <1>11, <1>12, <1>13 DEF Connect

\* Steps of the host for a connection, or against a session, keep types.
LEMMA HostTypes ==
  ASSUME DeviceTypes, Matching, NEW c \in Process
  PROVE  Serve(c) \/ HostRefuses(c) \/ Kick(c) => DeviceTypes'
<1> USE DEF hostVars, recordVars, ledgerVars
<1>0. /\ wire \in [Process -> Message] /\ task \in [Process -> TaskRecord]
      /\ endpoint \in [Process -> Process \cup {None}]
      /\ granted \in [Process -> Invite \cup {None}] /\ issuer \in Issuer
  BY DEF DeviceTypes, DeviceTypeOK, TaskRecord
<1> DEFINE Sound == /\ wire' \in [Process -> Message] /\ task' \in [Process -> TaskRecord]
                    /\ \A d \in Process : task'[d].at # "none" => wire'[d] # Closed
<1>1. ASSUME NEW late \in BOOLEAN, Deny(c, late)
      PROVE  Sound
  <2>1. NoHandler \in TaskRecord
    BY MessageKinds DEF NoHandler, TaskRecord, Read
  <2>2. [type |-> "denied", late |-> late] # Closed
    BY DEF Closed
  <2> QED BY <1>1, <2>1, <2>2, MessageKinds, PutTypes DEF Deny
<1>2. ASSUME NEW session \in Process, Challenge(c, session)
      PROVE  Sound
  <2>1. [at |-> "challenged", hello |-> wire[c]] \in TaskRecord
    BY <1>0 DEF TaskRecord
  <2>2. [type |-> "challenge", session |-> session] # Closed
    BY DEF Closed
  <2> QED BY <1>2, <2>1, <2>2, MessageKinds, PutTypes DEF Challenge
<1>3. ASSUME NEW session \in Process, NEW i \in Invite, Grants(c, session, i)
      PROVE  Sound /\ endpoint' \in [Process -> Process \cup {None}]
  <2>1. [task[c] EXCEPT !.at = "granted"] \in TaskRecord
    BY <1>0 DEF TaskRecord
  <2>2. SignedGrant(session, i) \in Grant
    BY <1>0 DEF SignedGrant, Grant
  <2>3. [type |-> "granted", grant |-> SignedGrant(session, i)] # Closed
    BY DEF Closed
  <2>4. task' = [task EXCEPT ![c] = [task[c] EXCEPT !.at = "granted"]]
    BY <1>0, <1>3 DEF Grants
  <2> QED BY <1>0, <1>3, <2>1, <2>2, <2>3, <2>4, MessageKinds, PutTypes DEF Grants
<1>4. ASSUME Sound, endpoint' \in [Process -> Process \cup {None}], issuer' \in Issuer,
             granted' \in [Process -> Invite \cup {None}], UNCHANGED <<left, file, client>>
      PROVE  DeviceTypes'
  BY <1>4 DEF DeviceTypes, DeviceTypeOK, TaskRecord
<1>5. ASSUME HostHello(c)
      PROVE  DeviceTypes'
  <2>1. wire[c].type = "resume" => wire[c].grant.session \in Process
    BY <1>0, MessageParts DEF Grant
  <2>2. Sound
    BY <1>1, <1>2, <1>5, <2>1 DEF HostHello
  <2> QED BY <1>0, <1>4, <1>5, <2>2 DEF HostHello, HostSame
<1>6. ASSUME HostProof(c)
      PROVE  DeviceTypes'
  <2>1. task[c].hello \in Message
    BY <1>0 DEF TaskRecord
  <2>2. CASE task[c].hello.type = "admit"
    <3>1. task[c].hello.invite \in Invite
      BY <2>1, <2>2, MessageParts
    <3>2. Sound /\ endpoint' \in [Process -> Process \cup {None}]
      BY <1>0, <1>1, <1>3, <1>6, <2>2, <3>1 DEF HostProof, AdmitSession
    <3>3. granted' \in [Process -> Invite \cup {None}]
      BY <1>0, <1>6, <2>2, <3>1 DEF HostProof, AdmitSession, Ledger!Grant
    <3> QED BY <1>0, <1>4, <1>6, <3>2, <3>3 DEF HostProof, HostSame
  <2>3. CASE task[c].hello.type # "admit"
    <3> DEFINE g == task[c].hello.grant
    <3>1. ResumeSession(c, g)
      BY <1>6, <2>3 DEF HostProof
    <3>2. task[c].hello.type = "resume"
      BY <1>6, <2>3 DEF HostProof, Matching, WireFits
    <3>3. g \in Grant
      BY <2>1, <3>2, MessageParts
    <3>4. Sound /\ endpoint' \in [Process -> Process \cup {None}]
      BY <1>0, <1>1, <1>3, <3>1, <3>3 DEF ResumeSession, Grant
    <3> QED BY <1>0, <1>4, <1>6, <3>1, <3>4 DEF HostProof, HostSame, ResumeSession
  <2> QED BY <2>2, <2>3
<1>7. ASSUME Register(c)
      PROVE  DeviceTypes'
  <2> DEFINE replaced == Registered(SessionOf(c))
             serving == [task[c] EXCEPT !.at = "serving"]
  <2>1. serving \in TaskRecord /\ NoHandler \in TaskRecord /\ NoHandler.at = "none"
    BY <1>0, MessageKinds DEF TaskRecord, NoHandler, Read
  <2>2. CASE ~IsActive(c)
    <3>1. Drops({c})
      BY <1>7, <2>2 DEF Register
    <3>2. Sound
      BY <3>1, DropTypes
    <3> QED BY <1>0, <1>4, <1>7, <3>2 DEF Register, HostSame
  <2>3. CASE IsActive(c)
    <3>1. /\ wire' = [d \in Process |-> IF d \in replaced THEN Closed ELSE wire[d]]
          /\ task' = [d \in Process |-> IF d \in replaced THEN NoHandler
                       ELSE IF d = c THEN serving ELSE task[d]]
      BY <1>7, <2>3 DEF Register
    <3>2. wire[c] # Closed
      BY <1>7 DEF Register, DeviceTypes, DeviceTypeOK
    <3> HIDE DEF replaced, serving
    <3>3. wire' \in [Process -> Message] /\ task' \in [Process -> TaskRecord]
      BY <1>0, <2>1, <3>1, MessageKinds
    <3>4. \A d \in Process : task'[d].at # "none" => wire'[d] # Closed
      BY <2>1, <3>1, <3>2 DEF DeviceTypes, DeviceTypeOK
    <3> QED BY <1>0, <1>4, <1>7, <3>3, <3>4 DEF Register, HostSame
  <2> QED BY <2>2, <2>3
<1>8. ASSUME HostRefuses(c)
      PROVE  DeviceTypes'
  BY <1>0, <1>1, <1>4, <1>8 DEF HostRefuses, HostSame
<1>9. ASSUME Kick(c)
      PROVE  DeviceTypes'
  <2>1. Sound
    BY <1>9, DropTypes DEF Kick, Registered
  <2> QED BY <1>0, <1>4, <1>9, <2>1 DEF Kick, Ledger!Withdraw
<1> QED BY <1>5, <1>6, <1>7, <1>8, <1>9 DEF Serve

\* So do the operator's other steps.
LEMMA OperatorTypes ==
  ASSUME DeviceTypes
  PROVE  /\ \A i \in Invite : Mint(i) \/ Close(i) => DeviceTypes'
         /\ \A other \in Issuer : Restart(other) => DeviceTypes'
<1>1. ASSUME NEW i \in Invite, Mint(i) \/ Close(i)
      PROVE  DeviceTypes'
  BY <1>1 DEF Mint, Close, Ledger!Issue, Ledger!Withdraw, DeviceTypes, DeviceTypeOK
<1>2. ASSUME NEW other \in Issuer, Restart(other)
      PROVE  DeviceTypes'
  <2>1. /\ wire' \in [Process -> Message] /\ task' \in [Process -> TaskRecord]
        /\ \A d \in Process : task'[d].at # "none" => wire'[d] # Closed
    BY <1>2, DropTypes DEF Restart
  <2> QED
    BY <1>2, <2>1 DEF Restart, recordVars, ledgerVars, DeviceTypes, DeviceTypeOK, TaskRecord
<1> QED BY <1>1, <1>2

\* A handler of the host that was left keeps types.
LEMMA LateTypes ==
  ASSUME DeviceTypes, Leftover, NEW h \in left, LateStep(h)
  PROVE  DeviceTypes'
<1> DEFINE session == SessionIn(h.by, h.hello)
           done == [h EXCEPT !.at = "granted"]
<1>1. h \in Handler /\ done \in Handler /\ h.hello \in Message /\ h.by \in Process
  BY DEF DeviceTypes, DeviceTypeOK, Handler
<1>2. session \in Process /\ (h.hello.type = "admit" => h.hello.invite \in Invite)
  BY <1>1, MessageParts DEF Leftover, LeftFits, SessionIn, Grant
<1>3. endpoint \in [Process -> Process \cup {None}] /\ granted \in [Process -> Invite \cup {None}]
  BY DEF DeviceTypes, DeviceTypeOK
<1> HIDE DEF session, done
<1>4. CASE LateProof(h)
  <2>1. /\ endpoint' = [endpoint EXCEPT ![session] = h.by]
        /\ left' = (left \ {h}) \cup {done}
        /\ UNCHANGED <<issuer, task, wire, file, client>>
    BY <1>4 DEF LateProof, session, done
  <2>2. \/ granted' = granted
        \/ h.hello.type = "admit" /\ granted' = [granted EXCEPT ![session] = h.hello.invite]
    BY <1>4 DEF LateProof, Ledger!Grant, ledgerVars, session
  <2>3. granted' \in [Process -> Invite \cup {None}]
    BY <1>2, <1>3, <2>2
  <2> QED BY <1>1, <1>3, <2>1, <2>3 DEF DeviceTypes, DeviceTypeOK
<1>5. CASE LateRegister(h)
  <2>1. /\ wire' \in [Process -> Message] /\ task' \in [Process -> TaskRecord]
        /\ \A d \in Process : task'[d].at # "none" => wire'[d] # Closed
    BY <1>5, DropTypes DEF LateRegister, Registered
  <2>2. left' \subseteq left /\ UNCHANGED <<granted, endpoint, issuer, file, client>>
    BY <1>5 DEF LateRegister, recordVars, ledgerVars
  <2> QED BY <2>1, <2>2 DEF DeviceTypes, DeviceTypeOK, TaskRecord
<1>6. CASE LateEnds(h)
  BY <1>6 DEF LateEnds, recordVars, ledgerVars, DeviceTypes, DeviceTypeOK
<1> QED BY <1>4, <1>5, <1>6 DEF LateStep

\* Every step keeps types.
LEMMA TypesStep ==
  ASSUME DeviceTypes, Matching, Leftover, [DeviceNext]_deviceVars
  PROVE  DeviceTypes'
<1>1. CASE DeviceNext
  <2>1. ASSUME NEW c \in Process,
               \/ \E i \in Invite, t \in Transport : StartEnroll(c, i, t)
               \/ \E ownPort \in BOOLEAN : StartResume(c, ownPort)
               \/ Connect(c) \/ PortIsBusy(c) \/ CannotSave(c) \/ SavesInVain(c) \/ Quit(c)
        PROVE  DeviceTypes'
    BY <2>1, ProcessTypes
  <2>2. ASSUME NEW c \in Process, Serve(c) \/ HostRefuses(c) \/ Kick(c)
        PROVE  DeviceTypes'
    BY <2>2, HostTypes
  <2>3. ASSUME NEW i \in Invite, Mint(i) \/ Close(i)
        PROVE  DeviceTypes'
    BY <2>3, OperatorTypes
  <2>4. ASSUME NEW other \in Issuer, Restart(other)
        PROVE  DeviceTypes'
    BY <2>4, OperatorTypes
  <2>5. ASSUME NEW h \in left, LateStep(h)
        PROVE  DeviceTypes'
    BY <2>5, LateTypes
  <2> QED BY <1>1, <2>1, <2>2, <2>3, <2>4, <2>5 DEF DeviceNext, LateStep
<1>2. CASE UNCHANGED deviceVars
  BY <1>2 DEF deviceVars, hostVars, recordVars, ledgerVars, DeviceTypes, DeviceTypeOK
<1> QED BY <1>1, <1>2

-----------------------------------------------------------------------------
(* What never changes *)

\* What was granted, denied or saved stays; a host of the same set-up signs alike.
Kept ==
  /\ \A session \in Process : granted[session] # None => granted'[session] = granted[session]
  /\ denied \subseteq denied'
  /\ file # None => file' = file
  /\ moved => moved'
  /\ moved' \/ issuer' = issuer

\* Sessions, denials and the device file only ever grow.
LEMMA Keeps ==
  ASSUME DeviceTypes, [DeviceNext]_deviceVars
  PROVE  Kept
<1> DEFINE Same == denied' = denied /\ issuer' = issuer /\ moved' = moved
<1> USE DEF hostVars, recordVars, ledgerVars
<1>0. ASSUME granted' = granted, file # None => file' = file, Same
      PROVE  Kept
  <2>1. \A s \in Process : granted[s] # None => granted'[s] = granted[s]
    BY <1>0
  <2>2. denied \subseteq denied'
    BY <1>0
  <2>3. (moved => moved') /\ (moved' \/ issuer' = issuer)
    BY <1>0, Zenon
  <2> QED BY <1>0, <2>1, <2>2, <2>3, Zenon DEF Kept
<1>1. ASSUME NEW c \in Process,
             \/ \E i \in Invite, t \in Transport : StartEnroll(c, i, t)
             \/ \E ownPort \in BOOLEAN : StartResume(c, ownPort)
             \/ Connect(c) \/ PortIsBusy(c) \/ CannotSave(c) \/ SavesInVain(c) \/ Quit(c)
      PROVE  Kept
  <2>1. granted' = granted /\ (file # None => file' = file) /\ Same
    <3>1. CASE \/ \E i \in Invite, t \in Transport : StartEnroll(c, i, t)
               \/ \E ownPort \in BOOLEAN : StartResume(c, ownPort)
      BY <3>1 DEF StartEnroll, StartResume
    <3>2. CASE Bind(c) \/ Dial(c) \/ SendProof(c) \/ ReadGrant(c)
      BY <3>2 DEF Bind, Dial, SendProof, ReadGrant
    <3>3. CASE GiveUp(c) \/ PortIsBusy(c) \/ CannotSave(c) \/ SavesInVain(c) \/ Quit(c)
      BY <3>3 DEF GiveUp, PortIsBusy, CannotSave, SavesInVain, Quit, Fails
    <3>4. CASE CheckFile(c) \/ Link(c) \/ Listen(c)
      BY <3>4 DEF CheckFile, Link, Listen, Fails
    <3> QED BY <1>1, <3>1, <3>2, <3>3, <3>4 DEF Connect
  <2> QED BY <1>0, <2>1
<1>2. ASSUME NEW c \in Process, HostHello(c) \/ Register(c) \/ HostRefuses(c)
      PROVE  Kept
  <2>1. UNCHANGED <<granted, file>> /\ Same
    BY <1>2 DEF HostHello, Register, HostRefuses, HostSame
  <2> QED BY <1>0, <2>1
<1>3. ASSUME NEW c \in Process, HostProof(c)
      PROVE  Kept
  <2>1. file' = file /\ Same
    BY <1>3 DEF HostProof, HostSame, AdmitSession, ResumeSession, Ledger!Grant
  <2>2. \A s \in Process : granted[s] # None => granted'[s] = granted[s]
    <3>1. \/ granted' = granted
          \/ granted[c] = None /\ \E i : granted' = [granted EXCEPT ![c] = i]
      BY <1>3 DEF HostProof, AdmitSession, ResumeSession, Ledger!Grant
    <3> QED BY <3>1 DEF DeviceTypes
  <2> QED BY <2>1, <2>2, Zenon DEF Kept
<1>4. ASSUME NEW c \in Process, Kick(c)
      PROVE  Kept
  <2>1. UNCHANGED <<granted, file, issuer, moved>> /\ denied \subseteq denied'
    BY <1>4 DEF Kick, Ledger!Withdraw
  <2> QED BY <2>1, Zenon DEF Kept
<1>5. ASSUME NEW i \in Invite, Mint(i) \/ Close(i)
      PROVE  Kept
  <2>1. UNCHANGED <<granted, file, issuer, moved>> /\ denied \subseteq denied'
    BY <1>5 DEF Mint, Close, Ledger!Issue, Ledger!Withdraw
  <2> QED BY <2>1, Zenon DEF Kept
<1>6. ASSUME NEW other \in Issuer, Restart(other)
      PROVE  Kept
  <2>1. UNCHANGED <<granted, denied, file>>
    BY <1>6 DEF Restart
  <2>2. (moved => moved') /\ (moved' \/ issuer' = issuer)
    BY <1>6, Zenon DEF Restart
  <2> QED BY <2>1, <2>2, Zenon DEF Kept
<1>7. CASE UNCHANGED deviceVars
  <2>1. UNCHANGED <<granted, file>> /\ Same
    BY <1>7 DEF deviceVars
  <2> QED BY <1>0, <2>1
<1>8. ASSUME NEW h \in left, LateStep(h)
      PROVE  Kept
  <2>1. file' = file /\ Same
    BY <1>8 DEF LateStep, LateProof, LateRegister, LateEnds, Ledger!Grant
  <2>2. \A s \in Process : granted[s] # None => granted'[s] = granted[s]
    <3>1. \/ granted' = granted
          \/ \E s, i : granted[s] = None /\ granted' = [granted EXCEPT ![s] = i]
      BY <1>8 DEF LateStep, LateProof, LateRegister, LateEnds, Ledger!Grant
    <3> QED BY <3>1 DEF DeviceTypes
  <2> QED BY <2>1, <2>2, Zenon DEF Kept
<1>10. CASE DeviceNext
  <2>1. CASE \E c \in Process :
               \/ \E i \in Invite, t \in Transport : StartEnroll(c, i, t)
               \/ \E ownPort \in BOOLEAN : StartResume(c, ownPort)
               \/ Connect(c) \/ PortIsBusy(c) \/ CannotSave(c) \/ SavesInVain(c) \/ Quit(c)
    BY <1>1, <2>1
  <2>2. CASE \E c \in Process : Serve(c) \/ HostRefuses(c) \/ Kick(c)
    BY <1>2, <1>3, <1>4, <2>2 DEF Serve
  <2>3. CASE \E i \in Invite : Mint(i) \/ Close(i)
    BY <1>5, <2>3
  <2>4. CASE \E other \in Issuer : Restart(other)
    BY <1>6, <2>4
  <2>5. CASE \E h \in left : LateStep(h)
    BY <1>8, <2>5
  <2> QED BY <1>10, <2>1, <2>2, <2>3, <2>4, <2>5 DEF DeviceNext, LateStep
<1> QED BY <1>7, <1>10

-----------------------------------------------------------------------------
(* Grants *)

\* A grant the host knows, and has signed if it is set up as before
IsGood(g) ==
  g \in Grant /\ granted[g.session] = g.invite /\ (moved \/ g.issuer = issuer)

\* All grants that are anywhere with process c
GrantsOf(c) ==
  {g \in Grant : \/ g = client[c].grant
                 \/ wire[c].type \in {"resume", "granted"} /\ g = wire[c].grant
                 \/ task[c].hello.type = "resume" /\ g = task[c].hello.grant}

KnownGrants ==
  /\ \A c \in Process : \A g \in GrantsOf(c) : IsGood(g)
  /\ file # None => IsGood(file.grant)

\* A grant the host knows stays one it knows.
LEMMA GoodStaysGood ==
  ASSUME DeviceTypes, Kept, NEW g, IsGood(g)
  PROVE  IsGood(g)'
<1>1. g \in Grant /\ g.session \in Process /\ g.invite \in Invite /\ g.invite # None
  BY DeviceAssumption DEF IsGood, Grant
<1> QED BY <1>1 DEF IsGood, Kept

\* A step of one process leaves the others alone, with their connections.
Untouched(d) == client'[d] = client[d] /\ wire'[d] = wire[d] /\ task'[d] = task[d]

ProcessStep(c) ==
  \/ \E i \in Invite, t \in Transport : StartEnroll(c, i, t)
  \/ \E ownPort \in BOOLEAN : StartResume(c, ownPort)
  \/ Connect(c) \/ PortIsBusy(c) \/ CannotSave(c) \/ SavesInVain(c) \/ Quit(c)

\* Processes of a device meet in its file and at the host only.
LEMMA ProcessLeavesOthers ==
  ASSUME DeviceTypes, NEW c \in Process, ProcessStep(c), NEW d \in Process \ {c}
  PROVE  Untouched(d)
<1> USE DEF hostVars
<1>1. /\ client \in [Process -> ClientRecord]
      /\ wire \in [Process -> Message] /\ task \in [Process -> TaskRecord]
  BY DEF DeviceTypes, DeviceTypeOK, ClientRecord, TaskRecord
<1>2. CASE \/ \E i \in Invite, t \in Transport : StartEnroll(c, i, t)
           \/ \E ownPort \in BOOLEAN : StartResume(c, ownPort)
  BY <1>1, <1>2 DEF StartEnroll, StartResume, Untouched
<1>3. CASE Bind(c) \/ Dial(c) \/ SendProof(c) \/ ReadGrant(c)
  BY <1>1, <1>3 DEF Bind, Dial, SendProof, ReadGrant, Puts, Moves, Untouched
<1>4. ASSUME NEW why, Fails(c, why)
      PROVE  Untouched(d)
  BY <1>1, <1>4 DEF Fails, Hangs, Puts, Untouched
<1>5. CASE GiveUp(c) \/ PortIsBusy(c) \/ CannotSave(c)
  BY <1>4, <1>5 DEF GiveUp, PortIsBusy, CannotSave
<1>6. CASE SavesInVain(c) \/ Quit(c)
  BY <1>1, <1>6 DEF SavesInVain, Quit, Hangs, Puts, Untouched
<1>7. CASE CheckFile(c)
  BY <1>1, <1>4, <1>7 DEF CheckFile, Moves, Untouched
<1>8. CASE Link(c)
  BY <1>1, <1>4, <1>8 DEF Link, Untouched
<1>9. CASE Listen(c)
  BY <1>1, <1>4, <1>9 DEF Listen, Untouched
<1> QED BY <1>2, <1>3, <1>5, <1>6, <1>7, <1>8, <1>9 DEF ProcessStep, Connect

\* A process that fails, or quits, leaves its connection.
LEMMA Fallen ==
  ASSUME DeviceTypes, NEW c \in Process,
         (\E why : Fails(c, why)) \/ SavesInVain(c) \/ Quit(c)
  PROVE  /\ wire'[c] = Closed /\ task'[c] = NoHandler
         /\ client'[c].grant \in {client[c].grant, None}
         /\ file' = file \/ SavesInVain(c)
<1>1. /\ client \in [Process -> ClientRecord]
      /\ wire \in [Process -> Message] /\ task \in [Process -> TaskRecord]
  BY DEF DeviceTypes, DeviceTypeOK, ClientRecord, TaskRecord
<1>2. ASSUME NEW why, Fails(c, why)
      PROVE  /\ Hangs(c) /\ client'[c].grant = client[c].grant /\ file' = file
  BY <1>1, <1>2 DEF Fails, ClientRecord
<1>3. Quit(c) => Hangs(c) /\ client'[c].grant = None /\ file' = file
  BY <1>1 DEF Quit, Unstarted
<1>4. Hangs(c) => wire'[c] = Closed /\ task'[c] = NoHandler
  BY <1>1 DEF Hangs, Puts
<1>5. SavesInVain(c) => Hangs(c) /\ client'[c].grant = client[c].grant
  BY <1>1 DEF SavesInVain, ClientRecord
<1> QED BY <1>2, <1>3, <1>4, <1>5

\* Steps of a process use grants that are there.
LEMMA ProcessGrants ==
  ASSUME DeviceTypes, Kept, Matching, KnownGrants, NEW c \in Process, ProcessStep(c)
  PROVE  KnownGrants'
<1> USE DEF hostVars
<1> DEFINE old == GrantsOf(c) \cup (IF file = None THEN {} ELSE {file.grant})
<1>0. /\ client \in [Process -> ClientRecord]
      /\ wire \in [Process -> Message] /\ task \in [Process -> TaskRecord]
      /\ file \in StoredSession \cup {None} /\ client[c] \in ClientRecord
      /\ None \notin Process \cup Grant
  BY DeviceAssumption DEF DeviceTypes, DeviceTypeOK, ClientRecord, TaskRecord
<1>1. \A g \in old : IsGood(g)
  BY DEF KnownGrants
<1>2. \A d \in Process \ {c} : GrantsOf(d)' = GrantsOf(d)
  BY ProcessLeavesOthers DEF GrantsOf, Untouched
<1>3. ASSUME NEW why, Fails(c, why)
      PROVE  GrantsOf(c)' \subseteq old /\ file' = file
  <2>1. file' = file
    BY <1>3 DEF Fails
  <2>2. /\ wire'[c] = Closed /\ task'[c] = NoHandler
        /\ client'[c].grant \in {client[c].grant, None}
    BY <1>3, Fallen
  <2> QED BY <1>0, <2>1, <2>2 DEF GrantsOf, Closed, NoHandler, Read
<1>4. GrantsOf(c)' \subseteq old /\ (file' = file \/ file'.grant \in GrantsOf(c))
  <2>1. ASSUME NEW i \in Invite, NEW t \in Transport, StartEnroll(c, i, t)
        PROVE  GrantsOf(c)' \subseteq old /\ file' = file
    BY <1>0, <2>1 DEF StartEnroll, GrantsOf, Unstarted
  <2>2. ASSUME NEW ownPort \in BOOLEAN, StartResume(c, ownPort)
        PROVE  GrantsOf(c)' \subseteq old /\ file' = file
    BY <1>0, <2>2 DEF StartResume, GrantsOf, Unstarted
  <2>3. CASE Bind(c)
    BY <1>0, <2>3 DEF Bind, GrantsOf, Matching, ClientFits, ClientRecord
  <2>4. CASE Dial(c)
    BY <1>0, <2>4 DEF Dial, Moves, Puts, GrantsOf, ClientRecord
  <2>5. CASE SendProof(c)
    BY <1>0, <2>5 DEF SendProof, Puts, GrantsOf
  <2>6. CASE ReadGrant(c)
    BY <1>0, <2>6 DEF ReadGrant, Puts, Read, GrantsOf, ClientRecord
  <2>7. CASE GiveUp(c) \/ PortIsBusy(c) \/ CannotSave(c)
    BY <1>3, <2>7 DEF GiveUp, PortIsBusy, CannotSave
  <2>8. CASE CheckFile(c)
    BY <1>0, <1>3, <2>8 DEF CheckFile, Moves, GrantsOf, ClientRecord
  <2>9. CASE Link(c)
    <3>1. CASE file = None
      <4>1. client[c].grant \in Grant
        BY <1>0, <2>9 DEF Link, Matching, ClientFits, ClientRecord
      <4> QED BY <1>0, <2>9, <3>1, <4>1 DEF Link, Saved, GrantsOf, ClientRecord
    <3>2. CASE file # None
      BY <1>3, <2>9, <3>2 DEF Link
    <3> QED BY <3>1, <3>2
  <2>10. CASE Listen(c)
    BY <1>0, <1>3, <2>10 DEF Listen, GrantsOf, ClientRecord
  <2>11. CASE Quit(c)
    <3>1. file' = file
      BY <2>11 DEF Quit
    <3>2. /\ wire'[c] = Closed /\ task'[c] = NoHandler
          /\ client'[c].grant \in {client[c].grant, None}
      BY <2>11, Fallen
    <3> QED BY <1>0, <3>1, <3>2 DEF GrantsOf, Closed, NoHandler, Read
  <2>12. CASE SavesInVain(c)
    <3>1. file' = Saved(c) /\ client[c].grant \in Grant
      BY <1>0, <2>12 DEF SavesInVain, Matching, ClientFits, ClientRecord
    <3>2. file'.grant \in GrantsOf(c)
      BY <3>1 DEF Saved, GrantsOf
    <3>3. GrantsOf(c)' \subseteq old
      BY <1>0, <2>12, Fallen DEF GrantsOf, Closed, NoHandler, Read
    <3> QED BY <3>2, <3>3
  <2> QED BY <2>1, <2>2, <2>3, <2>4, <2>5, <2>6, <2>7, <2>8, <2>9, <2>10, <2>11, <2>12
          DEF ProcessStep, Connect
<1>5. \A d \in Process : \A g \in GrantsOf(d)' : IsGood(g)'
  <2> TAKE d \in Process
  <2> TAKE g \in GrantsOf(d)'
  <2>1. IsGood(g)
    BY <1>1, <1>2, <1>4 DEF KnownGrants
  <2> QED BY <2>1, GoodStaysGood
<1>6. (file # None => IsGood(file.grant))'
  <2>1. file' # None => \E g : g = file'.grant /\ IsGood(g)
    BY <1>1, <1>4 DEF KnownGrants
  <2>2. file' # None => \E g : g = file'.grant /\ IsGood(g)'
    BY <2>1, GoodStaysGood
  <2> QED BY <2>2 DEF IsGood
<1> QED BY <1>5, <1>6 DEF KnownGrants

HostStep(c) == Serve(c) \/ HostRefuses(c) \/ Kick(c)

OperatorStep ==
  \/ \E i \in Invite : Mint(i) \/ Close(i)
  \/ \E other \in Issuer : Restart(other)

\* A connection that is closed, or left alone
Dropped(d) ==
  /\ client'[d] = client[d]
  /\ \/ wire'[d] = wire[d] /\ task'[d] = task[d]
     \/ wire'[d] = Closed /\ task'[d] = NoHandler

\* A connection that is registered
Serves(c) ==
  client'[c] = client[c] /\ wire'[c] = wire[c] /\ task'[c] = [task[c] EXCEPT !.at = "serving"]

\* The host answers one connection; others it closes, or leaves alone.
LEMMA HostDropsOthers ==
  ASSUME DeviceTypes, NEW c \in Process, HostStep(c)
  PROVE  /\ UNCHANGED <<client, file>>
         /\ \A d \in Process \ {c} : Dropped(d)
<1> USE DEF recordVars, HostSame, Dropped
<1>0. wire \in [Process -> Message] /\ task \in [Process -> TaskRecord]
  BY DEF DeviceTypes, DeviceTypeOK, TaskRecord
<1>1. CASE HostHello(c)
  BY <1>0, <1>1 DEF HostHello, Challenge, Deny, Puts
<1>2. CASE HostProof(c)
  BY <1>0, <1>2 DEF HostProof, AdmitSession, ResumeSession, Grants, Deny, Puts
<1>3. CASE Register(c)
  BY <1>0, <1>3 DEF Register, Drops
<1>4. CASE HostRefuses(c)
  BY <1>0, <1>4 DEF HostRefuses, Deny, Puts
<1>5. CASE Kick(c)
  BY <1>0, <1>5 DEF Kick, Drops
<1> QED BY <1>1, <1>2, <1>3, <1>4, <1>5 DEF HostStep, Serve

\* A connection is registered or dropped; kicking a session drops connections.
LEMMA HostRegisters ==
  ASSUME DeviceTypes, NEW c \in Process
  PROVE  /\ Register(c) => Dropped(c) \/ Serves(c)
         /\ Kick(c) => Dropped(c)
<1> USE DEF HostSame, Dropped, Serves
<1>0. wire \in [Process -> Message] /\ task \in [Process -> TaskRecord]
  BY DEF DeviceTypes, DeviceTypeOK, TaskRecord
<1>1. ASSUME Register(c)
      PROVE  Dropped(c) \/ Serves(c)
  <2>1. CASE IsActive(c)
    <3>1. c \notin Registered(SessionOf(c))
      BY <1>1 DEF Register, Registered
    <3> QED BY <1>0, <1>1, <2>1, <3>1 DEF Register
  <2>2. CASE ~IsActive(c)
    BY <1>0, <1>1, <2>2 DEF Register, Drops
  <2> QED BY <2>1, <2>2
<1>2. Kick(c) => Dropped(c)
  BY <1>0 DEF Kick, Drops
<1> QED BY <1>1, <1>2

\* So do the operator's other steps, which change no file either.
LEMMA OperatorDrops ==
  ASSUME DeviceTypes, OperatorStep
  PROVE  UNCHANGED <<client, file>> /\ \A d \in Process : Dropped(d)
BY DEF OperatorStep, Mint, Close, Restart, Drops, Dropped

\* Handlers that were left make no process and no file change.
LEMMA LateDrops ==
  ASSUME DeviceTypes, NEW h \in left, LateStep(h)
  PROVE  UNCHANGED <<client, file>> /\ \A d \in Process : Dropped(d)
BY DEF LateStep, LateProof, LateRegister, LateEnds, Drops, Dropped

\* A connection that is dropped has no grant it did not have.
LEMMA DroppedGrants ==
  ASSUME DeviceTypes, NEW d \in Process, Dropped(d)
  PROVE  GrantsOf(d)' \subseteq GrantsOf(d)
BY DEF Dropped, GrantsOf, Closed, NoHandler, Read

\* What the host knows, and signs, is good.
LEMMA HostGrants ==
  ASSUME DeviceTypes, Kept, Matching, KnownGrants, NEW c \in Process, HostStep(c)
  PROVE  KnownGrants'
<1> USE DEF recordVars, ledgerVars
<1>0. /\ wire \in [Process -> Message] /\ task \in [Process -> TaskRecord]
      /\ granted \in [Process -> Invite \cup {None}] /\ issuer \in Issuer
      /\ UNCHANGED <<client, file>>
  BY HostDropsOthers DEF DeviceTypes, DeviceTypeOK, TaskRecord
<1>1. \A d \in Process \ {c} : GrantsOf(d)' \subseteq GrantsOf(d)
  BY HostDropsOthers, DroppedGrants
<1>2. \A g \in GrantsOf(c)' : g \in GrantsOf(c) \/ IsGood(g)'
  <2>1. CASE HostHello(c)
    BY <1>0, <2>1 DEF HostHello, Challenge, Deny, Puts, GrantsOf, NoHandler, Read
  <2>2. CASE HostProof(c)
    <3> DEFINE hello == task[c].hello
    <3>1. ASSUME NEW late, Deny(c, late)
          PROVE  GrantsOf(c)' \subseteq GrantsOf(c)
      BY <1>0, <3>1 DEF Deny, Puts, GrantsOf, NoHandler, Read
    <3>2. ASSUME NEW s \in Process, NEW i \in Invite, Grants(c, s, i), granted'[s] = i
          PROVE  \A g \in GrantsOf(c)' : g \in GrantsOf(c) \/ IsGood(g)'
      <4>1. wire'[c] = [type |-> "granted", grant |-> SignedGrant(s, i)]
        BY <1>0, <3>2 DEF Grants, Puts
      <4>2. task'[c].hello = task[c].hello
        BY <1>0, <3>2 DEF Grants, TaskRecord
      <4>3. SignedGrant(s, i) \in Grant /\ SignedGrant(s, i).session = s
            /\ SignedGrant(s, i).invite = i /\ SignedGrant(s, i).issuer = issuer
        BY <1>0 DEF SignedGrant, Grant
      <4>4. issuer' = issuer
        BY <2>2 DEF HostProof, HostSame
      <4>5. \A g \in GrantsOf(c)' : g \in GrantsOf(c) \/ g = SignedGrant(s, i)
        BY <1>0, <4>1, <4>2 DEF GrantsOf
      <4>6. \A g : g = SignedGrant(s, i) => IsGood(g)'
        BY <3>2, <4>3, <4>4 DEF IsGood
      <4> QED BY <4>5, <4>6
    <3>3. CASE hello.type = "admit"
      <4>1. hello.invite \in Invite
        BY <1>0, <3>3, MessageParts DEF TaskRecord
      <4>2. AdmitSession(c, hello.invite)
        BY <2>2, <3>3 DEF HostProof
      <4>3. CASE Admits(c, hello.invite)
        <5>1. granted'[c] = hello.invite /\ Grants(c, c, hello.invite)
          BY <1>0, <4>2, <4>3 DEF AdmitSession, Ledger!Grant
        <5> QED BY <3>2, <4>1, <5>1
      <4>4. CASE ~Admits(c, hello.invite)
        BY <3>1, <4>2, <4>4 DEF AdmitSession
      <4> QED BY <4>3, <4>4
    <3>4. CASE hello.type # "admit"
      <4>1. hello.type = "resume"
        BY <2>2, <3>4 DEF HostProof, Matching, WireFits
      <4>2. hello.grant \in Grant
        BY <1>0, <4>1, MessageParts DEF TaskRecord
      <4>3. ResumeSession(c, hello.grant)
        BY <2>2, <3>4 DEF HostProof
      <4>4. CASE InGoodStanding(hello.grant)
        <5>1. /\ Grants(c, hello.grant.session, hello.grant.invite)
              /\ granted'[hello.grant.session] = hello.grant.invite
          BY <4>3, <4>4 DEF ResumeSession, InGoodStanding
        <5> QED BY <3>2, <4>2, <5>1 DEF Grant
      <4>5. CASE ~InGoodStanding(hello.grant)
        BY <3>1, <4>3, <4>5 DEF ResumeSession
      <4> QED BY <4>4, <4>5
    <3> QED BY <3>3, <3>4
  <2>3. CASE Register(c)
    <3>1. CASE Dropped(c)
      BY <3>1, DroppedGrants
    <3>2. CASE Serves(c)
      BY <1>0, <3>2 DEF Serves, GrantsOf, TaskRecord
    <3> QED BY <2>3, <3>1, <3>2, HostRegisters
  <2>4. CASE HostRefuses(c)
    BY <1>0, <2>4 DEF HostRefuses, Deny, Puts, GrantsOf, NoHandler, Read
  <2>5. CASE Kick(c)
    BY <2>5, HostRegisters, DroppedGrants
  <2> QED BY <2>1, <2>2, <2>3, <2>4, <2>5 DEF HostStep, Serve
<1>3. \A d \in Process : \A g \in GrantsOf(d)' : IsGood(g)'
  <2> TAKE d \in Process
  <2> TAKE g \in GrantsOf(d)'
  <2>1. IsGood(g) \/ IsGood(g)'
    BY <1>1, <1>2 DEF KnownGrants
  <2> QED BY <2>1, GoodStaysGood
<1>4. (file # None => IsGood(file.grant))'
  <2>1. file # None => \E g : g = file.grant /\ IsGood(g)
    BY DEF KnownGrants
  <2>2. file # None => \E g : g = file.grant /\ IsGood(g)'
    BY <2>1, GoodStaysGood
  <2> QED BY <1>0, <2>2 DEF IsGood
<1> QED BY <1>3, <1>4 DEF KnownGrants

\* Kicks, rotations, restarts of the host and handlers that were left make
\* no grants that anybody has.
LEMMA OperatorGrants ==
  ASSUME DeviceTypes, Kept, KnownGrants,
         UNCHANGED <<client, file>> /\ \A d \in Process : Dropped(d)
  PROVE  KnownGrants'
<1>1. \A d \in Process : GrantsOf(d)' \subseteq GrantsOf(d)
  BY DroppedGrants
<1>2. \A d \in Process : \A g \in GrantsOf(d)' : IsGood(g)'
  BY <1>1, GoodStaysGood DEF KnownGrants
<1>3. (file # None => IsGood(file.grant))'
  <2>1. file # None => \E g : g = file.grant /\ IsGood(g)
    BY DEF KnownGrants
  <2>2. file # None => \E g : g = file.grant /\ IsGood(g)'
    BY <2>1, GoodStaysGood
  <2> QED BY <2>2 DEF IsGood
<1> QED BY <1>2, <1>3 DEF KnownGrants

-----------------------------------------------------------------------------
(* Matching *)

\* The reason to refuse a process stays.
LEMMA ReasonStays ==
  ASSUME Kept, NEW d \in Process, Reason(d), file # None,
         client'[d].transport = client[d].transport
  PROVE  Reason(d)'
<1>1. file' = file /\ denied \subseteq denied' /\ (moved => moved')
  BY DEF Kept
<1> QED BY <1>1 DEF Reason, Tunnel

\* Whoever does not move keeps what it has.
LEMMA ClientKept ==
  ASSUME Kept, NEW d \in Process, OwnsGrant(d), ClientFits(d), client'[d] = client[d]
  PROVE  /\ OwnsGrant(d)' /\ ClientFits(d)'
         /\ ~Enrolls(d) /\ client[d].stage # "off" /\ Reason(d) => Reason(d)'
<1>1. file # None => file' = file
  BY DEF Kept
<1>2. Enrolls(d)' = Enrolls(d)
  BY DEF Enrolls
<1>3. OwnsGrant(d)'
  BY <1>1, <1>2 DEF OwnsGrant
<1>4. ~Enrolls(d) /\ client[d].stage # "off" /\ Reason(d) => Reason(d)'
  BY ReasonStays DEF ClientFits
<1>5. ~Enrolls(d) /\ client[d].why = "denied" => client[d].stage # "off"
  BY DEF ClientFits, Unstarted
<1>6. ClientFits(d)'
  BY <1>1, <1>2, <1>4, <1>5 DEF ClientFits
<1> QED BY <1>3, <1>4, <1>6

\* So does whoever loses its connection.
LEMMA DroppedMatch ==
  ASSUME Kept, NEW d \in Process, OwnsGrant(d), ClientFits(d), WireFits(d), Dropped(d)
  PROVE  OwnsGrant(d)' /\ ClientFits(d)' /\ WireFits(d)'
<1>1. /\ OwnsGrant(d)' /\ ClientFits(d)'
      /\ ~Enrolls(d) /\ client[d].stage # "off" /\ Reason(d) => Reason(d)'
  BY ClientKept DEF Dropped
<1>2. wire[d].type = "denied" => client[d].stage # "off"
  BY DEF WireFits, Closed
<1>3. WireFits(d)'
  BY <1>1, <1>2 DEF WireFits, Dropped, HelloFits, Enrolls, Closed, NoHandler, Read
<1> QED BY <1>1, <1>3

\* A process that resumes is not refused without a reason.
LEMMA RefusedForReason ==
  ASSUME DeviceTypes, Matching, KnownGrants, NEW c \in Process, ~Enrolls(c),
         NEW hello \in Message, hello.type = "resume", HelloFits(c, hello),
         hello.grant \in GrantsOf(c), ~CanResume(c, hello.grant)
  PROVE  Reason(c)
<1>1. IsGood(hello.grant)
  BY DEF KnownGrants
<1>2. file # None /\ Alike(hello.grant, file.grant)
  BY DEF Matching, OwnsGrant, HelloFits, Alike
<1>3. CASE ~IsOfHost(hello.grant)
  <2>1. moved
    BY <1>1, <1>3, Zenon DEF IsGood, IsOfHost
  <2> QED BY <2>1, Zenon DEF Reason
<1>4. CASE ~InGoodStanding(hello.grant)
  <2>1. file.grant.session \in denied
    BY <1>1, <1>2, <1>4 DEF IsGood, InGoodStanding, Alike
  <2> QED BY <2>1, Zenon DEF Reason
<1>5. CASE Tunnel(c) /\ hello.grant.invite \notin AllowTcp
  <2>1. Tunnel(c) /\ file.grant.invite \notin AllowTcp
    BY <1>2, <1>5 DEF Alike
  <2> QED BY <2>1, Zenon DEF Reason
<1> QED BY <1>3, <1>4, <1>5 DEF CanResume

\* The host's steps keep the matching of the process they answer.
LEMMA HostMatch ==
  ASSUME DeviceTypes, Kept, Matching, KnownGrants, NEW c \in Process, HostStep(c)
  PROVE  OwnsGrant(c)' /\ ClientFits(c)' /\ WireFits(c)'
<1>0. /\ wire \in [Process -> Message] /\ task \in [Process -> TaskRecord]
      /\ UNCHANGED <<client, file>>
      /\ OwnsGrant(c) /\ ClientFits(c) /\ WireFits(c)
  BY HostDropsOthers DEF DeviceTypes, DeviceTypeOK, TaskRecord, Matching
<1>1. /\ OwnsGrant(c)' /\ ClientFits(c)'
      /\ ~Enrolls(c) /\ client[c].stage # "off" /\ Reason(c) => Reason(c)'
  BY <1>0, ClientKept
<1> SUFFICES WireFits(c)'
  BY <1>1
<1>2. Enrolls(c)' = Enrolls(c)
  BY <1>0 DEF Enrolls
<1>3. wire[c] # Closed \/ task[c] # NoHandler => client[c].stage \notin {"off", "binding"}
  BY <1>0 DEF WireFits
<1>4. ASSUME NEW late \in BOOLEAN, Deny(c, late), client[c].stage \notin {"off", "binding"},
             ~Enrolls(c) /\ ~late => Reason(c)
      PROVE  WireFits(c)'
  <2>1. wire'[c] = [type |-> "denied", late |-> late] /\ task'[c] = NoHandler
    BY <1>0, <1>4 DEF Deny, Puts
  <2>2. ~Enrolls(c)' /\ ~late => Reason(c)'
    BY <1>1, <1>2, <1>4
  <2> QED BY <1>0, <1>4, <2>1, <2>2 DEF WireFits, HelloFits, NoHandler, Read
<1>5. ASSUME NEW s \in Process, NEW i, Grants(c, s, i), client[c].stage \notin {"off", "binding"},
             task[c].hello.type \in {"admit", "resume"}
      PROVE  WireFits(c)'
  <2>1. wire'[c] = [type |-> "granted", grant |-> SignedGrant(s, i)]
        /\ task'[c].hello = task[c].hello
    BY <1>0, <1>5 DEF Grants, Puts, TaskRecord
  <2> QED BY <1>0, <1>2, <1>5, <2>1 DEF WireFits, HelloFits
<1>6. CASE HostHello(c)
  <2>0. client[c].stage \notin {"off", "binding"}
    <3>1. wire[c].type \in {"admit", "resume"}
      BY <1>6 DEF HostHello
    <3> QED BY <1>3, <3>1 DEF Closed
  <2>1. ASSUME NEW s, Challenge(c, s), wire[c].type \in {"admit", "resume"}
        PROVE  WireFits(c)'
    <3>1. wire'[c] = [type |-> "challenge", session |-> s] /\ task'[c].hello = wire[c]
      BY <1>0, <2>1 DEF Challenge, Puts
    <3> QED BY <1>0, <1>2, <2>0, <2>1, <3>1 DEF WireFits, HelloFits
  <2>2. CASE wire[c].type = "admit"
    <3>1. Enrolls(c)
      BY <1>0, <2>2 DEF WireFits, HelloFits
    <3> QED BY <1>4, <1>6, <2>0, <2>1, <2>2, <3>1 DEF HostHello
  <2>3. CASE wire[c].type = "resume"
    <3>1. wire[c].grant \in GrantsOf(c)
      BY <1>0, <2>3, MessageParts DEF GrantsOf
    <3>2. ~Enrolls(c) /\ ~CanResume(c, wire[c].grant) => Reason(c)
      BY <1>0, <2>3, <3>1, RefusedForReason DEF WireFits
    <3> QED BY <1>4, <1>6, <2>0, <2>1, <2>3, <3>2 DEF HostHello
  <2> QED BY <1>6, <2>2, <2>3 DEF HostHello
<1>7. CASE HostProof(c)
  <2> DEFINE hello == task[c].hello
  <2>0. client[c].stage \notin {"off", "binding"} /\ hello \in Message
    BY <1>0, <1>3, <1>7 DEF HostProof, Closed, TaskRecord
  <2>1. CASE hello.type = "admit"
    <3>1. Enrolls(c) /\ AdmitSession(c, hello.invite)
      BY <1>0, <1>7, <2>1 DEF HostProof, WireFits, HelloFits
    <3> QED BY <1>4, <1>5, <2>0, <2>1, <3>1 DEF AdmitSession
  <2>2. CASE hello.type # "admit"
    <3>1. hello.type = "resume" /\ ResumeSession(c, hello.grant)
      BY <1>0, <1>7, <2>2 DEF HostProof, WireFits
    <3>2. hello.grant \in GrantsOf(c) /\ hello.grant \in Grant
      BY <2>0, <3>1, MessageParts DEF GrantsOf
    <3>3. ~Enrolls(c) /\ ~InGoodStanding(hello.grant) => Reason(c)
      BY <1>0, <2>0, <3>1, <3>2, RefusedForReason DEF WireFits, CanResume
    <3> QED BY <1>4, <1>5, <2>0, <3>1, <3>2, <3>3 DEF ResumeSession, Grant
  <2> QED BY <2>1, <2>2
<1>8. CASE Register(c)
  <2>1. CASE Dropped(c)
    BY <1>0, <2>1, DroppedMatch
  <2>2. CASE Serves(c)
    <3>1. client[c].stage \notin {"off", "binding"}
      BY <1>3, <1>8 DEF Register, NoHandler
    <3>2. wire'[c] = wire[c] /\ task'[c].hello = task[c].hello
      BY <1>0, <2>2 DEF Serves, TaskRecord
    <3>3. ~Enrolls(c) /\ wire[c].type = "denied" /\ ~wire[c].late => Reason(c)'
      BY <1>0, <1>1, <3>1 DEF WireFits
    <3>4. task[c].hello.type \in {"admit", "resume"}
      BY <1>0, <1>8 DEF Register, WireFits
    <3> QED BY <1>0, <1>2, <3>1, <3>2, <3>3, <3>4 DEF WireFits, HelloFits
  <2> QED BY <1>8, <2>1, <2>2, HostRegisters
<1>9. CASE HostRefuses(c)
  <2>1. client[c].stage \notin {"off", "binding"}
    BY <1>3, <1>9 DEF HostRefuses, Closed
  <2> QED BY <1>4, <1>9, <2>1 DEF HostRefuses
<1>10. CASE Kick(c)
  BY <1>0, <1>10, HostRegisters, DroppedMatch
<1> QED BY <1>6, <1>7, <1>8, <1>9, <1>10 DEF HostStep, Serve

\* A process that fails or quits has no connection, and says denied for a reason.
LEMMA FailMatch ==
  ASSUME DeviceTypes, Kept, Matching, NEW c \in Process,
         \/ Quit(c)
         \/ \E why : /\ Fails(c, why) /\ client[c].stage # "off"
                     /\ ~Enrolls(c) /\ why = "denied" => Reason(c)
  PROVE  OwnsGrant(c)' /\ ClientFits(c)' /\ WireFits(c)'
<1>0. /\ client \in [Process -> ClientRecord] /\ client[c] \in ClientRecord
      /\ OwnsGrant(c) /\ ClientFits(c)
      /\ wire'[c] = Closed /\ task'[c] = NoHandler /\ file' = file
  BY Fallen DEF Fails, Quit, DeviceTypes, DeviceTypeOK, ClientRecord, Matching
<1>1. Reason(c) /\ file # None /\ client'[c].transport = client[c].transport => Reason(c)'
  BY ReasonStays
<1>2. CASE Quit(c)
  <2>1. client'[c] = [Unstarted EXCEPT !.stage = "ended", !.why = "quit", !.invite = client[c].invite]
        /\ client[c].stage # "off"
    BY <1>0, <1>2 DEF Quit
  <2> QED BY <1>0, <2>1 DEF OwnsGrant, ClientFits, WireFits, HelloFits, Enrolls, Unstarted,
                            Closed, NoHandler, Read
<1>3. ASSUME NEW why, Fails(c, why), client[c].stage # "off",
             ~Enrolls(c) /\ why = "denied" => Reason(c)
      PROVE  OwnsGrant(c)' /\ ClientFits(c)' /\ WireFits(c)'
  <2>1. client'[c] = IF client[c].mounted THEN [client[c] EXCEPT !.stage = "open"]
                     ELSE [client[c] EXCEPT !.stage = "ended", !.port = "none", !.why = why]
    BY <1>0, <1>3 DEF Fails
  <2>2. /\ client'[c].grant = client[c].grant /\ client'[c].transport = client[c].transport
        /\ client'[c].mounted = client[c].mounted /\ Enrolls(c)' = Enrolls(c)
        /\ client'[c].stage \in {"open", "ended"}
        /\ client'[c].stage = "open" => client[c].mounted /\ client'[c].why = client[c].why
        /\ client'[c].stage = "ended" => client'[c].why = why
    BY <1>0, <2>1 DEF Enrolls, ClientRecord
  <2>3. OwnsGrant(c)'
    BY <1>0, <2>2 DEF OwnsGrant
  <2>4. ~Enrolls(c) => file # None
    BY <1>0, <1>3 DEF ClientFits
  <2>5. (~Enrolls(c) /\ client[c].why = "denied" => Reason(c))'
    BY <1>0, <1>1, <1>3, <2>2, <2>4 DEF ClientFits
  <2>6. ClientFits(c)'
    BY <1>0, <2>2, <2>4, <2>5 DEF ClientFits
  <2>7. WireFits(c)'
    BY <1>0, <2>2 DEF WireFits, HelloFits, Closed, NoHandler, Read
  <2> QED BY <2>3, <2>6, <2>7
<1> QED BY <1>2, <1>3

\* A process's own steps keep its matching.
LEMMA ProcessMatch ==
  ASSUME DeviceTypes, Kept, Matching, KnownGrants, NEW c \in Process, ProcessStep(c)
  PROVE  OwnsGrant(c)' /\ ClientFits(c)' /\ WireFits(c)'
<1> USE DEF hostVars, recordVars, ledgerVars
<1> DEFINE Fits == OwnsGrant(c)' /\ ClientFits(c)' /\ WireFits(c)'
<1>0. /\ client \in [Process -> ClientRecord] /\ client[c] \in ClientRecord
      /\ wire \in [Process -> Message] /\ task \in [Process -> TaskRecord]
      /\ OwnsGrant(c) /\ ClientFits(c) /\ WireFits(c)
      /\ file \in StoredSession \cup {None} /\ None \notin Invite \cup Grant \cup StoredSession
  BY DeviceAssumption DEF DeviceTypes, DeviceTypeOK, ClientRecord, TaskRecord, Matching
<1>1. ASSUME file # None, client'[c].transport = client[c].transport, Reason(c)
      PROVE  Reason(c)'
  BY <1>1, ReasonStays
<1>2. ASSUME NEW i \in Invite, NEW t \in Transport, StartEnroll(c, i, t)
      PROVE  Fits
  <2>1. /\ client'[c] = [Unstarted EXCEPT !.stage = "binding", !.transport = t, !.invite = i]
        /\ wire'[c] = Closed /\ task'[c] = NoHandler
    BY <1>0, <1>2 DEF StartEnroll, WireFits
  <2> QED BY <1>0, <2>1 DEF OwnsGrant, ClientFits, WireFits, HelloFits, Enrolls, Unstarted,
                            Closed, NoHandler, Read
<1>3. ASSUME NEW ownPort \in BOOLEAN, StartResume(c, ownPort)
      PROVE  Fits
  <2>1. /\ file # None /\ file' = file
        /\ client'[c] = IF ownPort THEN [Unstarted EXCEPT !.stage = "binding", !.transport = "tcp"]
                        ELSE [Unstarted EXCEPT !.stage = "dialing", !.transport = file.transport,
                                               !.grant = file.grant]
        /\ wire'[c] = Closed /\ task'[c] = NoHandler
    BY <1>0, <1>3 DEF StartResume, WireFits
  <2>2. file.grant \in Grant
    BY <1>0, <2>1 DEF StoredSession
  <2> QED BY <1>0, <2>1, <2>2 DEF OwnsGrant, ClientFits, WireFits, HelloFits, Enrolls, Unstarted,
                            Alike, Closed, NoHandler, Read
<1>4. CASE Bind(c)
  <2>1. /\ client[c].stage = "binding" /\ file' = file
        /\ client'[c] = [client[c] EXCEPT !.stage = "dialing", !.port = "own",
                                          !.grant = IF Enrolls(c) THEN None ELSE file.grant]
        /\ wire'[c] = Closed /\ task'[c] = NoHandler
    BY <1>0, <1>4 DEF Bind, WireFits
  <2>2. /\ client'[c].stage = "dialing" /\ Enrolls(c)' = Enrolls(c)
        /\ client'[c].grant = (IF Enrolls(c) THEN None ELSE file.grant)
        /\ client'[c].mounted = client[c].mounted /\ client'[c].why = client[c].why
        /\ client'[c].transport = client[c].transport
    BY <1>0, <2>1 DEF ClientRecord, Enrolls
  <2>3. ~Enrolls(c) => file # None /\ file.grant \in Grant
    BY <1>0, <2>1 DEF ClientFits, StoredSession
  <2>4. (~Enrolls(c) /\ client[c].why = "denied" => Reason(c))'
    BY <1>0, <1>1, <2>2, <2>3 DEF ClientFits
  <2>5. OwnsGrant(c)' /\ ClientFits(c)'
    BY <1>0, <2>1, <2>2, <2>3, <2>4 DEF OwnsGrant, ClientFits, Alike
  <2>6. WireFits(c)'
    BY <2>1, <2>2 DEF WireFits, HelloFits, Closed, NoHandler, Read
  <2> QED BY <2>5, <2>6
\* What only changes the stage, or the connection, keeps the rest.
<1>5. ASSUME client[c].stage # "off", file' = file, NEW stage \in Stage \ {"off", "binding"},
             client' = [client EXCEPT ![c].stage = stage],
             stage \in {"saving", "linking"} => Enrolls(c) /\ client[c].grant # None,
             stage = "listening" => ~Enrolls(c),
             ~Enrolls(c) /\ stage # "ended" => client[c].grant # None
      PROVE  /\ OwnsGrant(c)' /\ ClientFits(c)' /\ client'[c].stage = stage
             /\ client'[c].grant = client[c].grant /\ Enrolls(c)' = Enrolls(c)
             /\ ~Enrolls(c) /\ Reason(c) => Reason(c)'
  <2>1. /\ client'[c].stage = stage /\ Enrolls(c)' = Enrolls(c)
        /\ client'[c].grant = client[c].grant /\ client'[c].transport = client[c].transport
        /\ client'[c].mounted = client[c].mounted /\ client'[c].why = client[c].why
    BY <1>0, <1>5 DEF ClientRecord, Enrolls
  <2>2. ~Enrolls(c) => file # None
    BY <1>0, <1>5 DEF ClientFits
  <2>3. ~Enrolls(c) /\ Reason(c) => Reason(c)'
    BY <1>1, <2>1, <2>2
  <2>4. OwnsGrant(c)'
    BY <1>0, <1>5, <2>1 DEF OwnsGrant
  <2>5. ClientFits(c)'
    BY <1>0, <1>5, <2>1, <2>2, <2>3 DEF ClientFits
  <2> QED BY <2>1, <2>3, <2>4, <2>5
<1>6. CASE Dial(c)
  <2>1. /\ client[c].stage \notin {"off", "binding", "ended"} /\ file' = file
        /\ client' = [client EXCEPT ![c].stage = "handshaking"]
        /\ wire'[c] = (IF client[c].grant = None
                       THEN [type |-> "admit", invite |-> client[c].invite]
                       ELSE [type |-> "resume", grant |-> client[c].grant])
        /\ task'[c] = task[c]
    BY <1>0, <1>6 DEF Dial, Moves, Puts
  <2>2. ~Enrolls(c) => client[c].grant # None
    BY <1>0, <2>1 DEF ClientFits
  <2>3. /\ OwnsGrant(c)' /\ ClientFits(c)' /\ client'[c].stage = "handshaking"
        /\ client'[c].grant = client[c].grant /\ Enrolls(c)' = Enrolls(c)
    <3>1. "handshaking" \in Stage \ {"off", "binding"}
      BY DEF Stage
    <3>2. client[c].stage # "off" /\ "handshaking" \notin {"saving", "linking", "listening", "ended"}
      BY <2>1
    <3> QED BY <1>5, <2>1, <2>2, <3>1, <3>2
  <2>4. WireFits(c)'
    <3>1. HelloFits(c, task[c].hello)'
      BY <1>0, <2>1, <2>3 DEF WireFits, HelloFits
    <3>2. HelloFits(c, wire[c])'
      BY <2>1, <2>2, <2>3 DEF HelloFits, Alike
    <3>3. task[c].at # "none" => task[c].hello.type \in {"admit", "resume"}
      BY <1>0 DEF WireFits
    <3> QED BY <2>1, <2>3, <3>1, <3>2, <3>3 DEF WireFits
  <2> QED BY <2>3, <2>4
<1>7. CASE SendProof(c)
  <2>1. /\ client[c].stage = "handshaking" /\ file' = file /\ client' = client
        /\ wire[c].type = "challenge"
        /\ wire'[c] = [type |-> "proof", signed |-> ProofOf(c, wire[c].session)]
        /\ task'[c] = task[c]
    BY <1>0, <1>7 DEF SendProof, Puts
  <2>2. OwnsGrant(c)' /\ ClientFits(c)'
    BY <1>0, <2>1, ClientKept
  <2>3. WireFits(c)'
    BY <1>0, <2>1 DEF WireFits, HelloFits, Enrolls
  <2> QED BY <2>2, <2>3
<1>8. CASE ReadGrant(c)
  <2>1. /\ client[c].stage = "handshaking" /\ file' = file /\ IsAsked(c, wire[c].grant)
        /\ wire[c].type = "granted" /\ wire'[c] = Read /\ task'[c] = task[c]
    BY <1>0, <1>8 DEF ReadGrant, Puts
  <2>2. /\ client'[c].grant = wire[c].grant /\ client'[c].stage = Onwards(c)
        /\ client'[c].mounted = (client[c].mounted \/ Onwards(c) = "open")
        /\ Enrolls(c)' = Enrolls(c) /\ client'[c].transport = client[c].transport
        /\ client'[c].why = client[c].why
    BY <1>0, <1>8 DEF ReadGrant, ClientRecord, Enrolls
  <2>3. wire[c].grant \in Grant
    BY <1>0, <2>1, MessageParts
  <2>4. ~Enrolls(c) => file # None /\ client[c].grant # None
    BY <1>0, <2>1 DEF ClientFits
  <2>5. client[c].grant # None => Alike(wire[c].grant, client[c].grant)
    BY <2>1 DEF IsAsked, Alike
  <2>6. OwnsGrant(c)'
    <3>1. CASE Enrolls(c)
      BY <1>0, <2>1, <2>2, <3>1 DEF OwnsGrant, IsAsked
    <3>2. CASE ~Enrolls(c)
      BY <1>0, <2>1, <2>2, <2>4, <2>5, <3>2 DEF OwnsGrant, Alike
    <3> QED BY <3>1, <3>2
  <2>7. (~Enrolls(c) /\ client[c].why = "denied" => Reason(c))'
    BY <1>0, <1>1, <2>2, <2>4 DEF ClientFits
  <2>8. Onwards(c) = "open" /\ Enrolls(c) => client[c].mounted
    BY DEF Onwards
  <2>9. ClientFits(c)'
    <3>1. Onwards(c) \in {"open", "saving", "listening"}
      BY DEF Onwards
    <3>2. /\ Onwards(c) = "saving" => Enrolls(c)
          /\ Onwards(c) = "listening" => ~Enrolls(c)
      BY DEF Onwards
    <3>3. (client[c].mounted /\ Enrolls(c) => file # None /\ file.grant.session = c)'
      BY <1>0, <2>1, <2>2, <2>8 DEF ClientFits
    <3>4. client'[c].grant # None
      BY <1>0, <2>2, <2>3
    <3> QED BY <2>1, <2>2, <2>4, <2>7, <3>1, <3>2, <3>3, <3>4 DEF ClientFits
  <2>10. WireFits(c)'
    <3>1. Onwards(c) \notin {"off", "binding"}
      BY DEF Onwards
    <3>2. HelloFits(c, task[c].hello)'
      <4>1. HelloFits(c, task[c].hello) /\ client'[c].grant # None
        BY <1>0, <2>2, <2>3 DEF WireFits
      <4> QED BY <2>1, <2>2, <2>5, <4>1 DEF HelloFits, Alike
    <3>3. task[c].at # "none" => task[c].hello.type \in {"admit", "resume"}
      BY <1>0 DEF WireFits
    <3> QED BY <2>1, <2>2, <3>1, <3>2, <3>3 DEF WireFits, HelloFits, Read
  <2> QED BY <2>6, <2>9, <2>10
<1>9. CASE GiveUp(c)
  <2>1. wire[c].type = "denied" /\ ~wire[c].late /\ ~Enrolls(c) => Reason(c)
    BY <1>0 DEF WireFits
  <2>2. \E why : Fails(c, why) /\ (~Enrolls(c) /\ why = "denied" => Reason(c))
    BY <1>9, <2>1 DEF GiveUp
  <2>3. client[c].stage # "off"
    BY <1>9 DEF GiveUp
  <2> QED BY <2>2, <2>3, FailMatch
<1>10. CASE PortIsBusy(c) \/ CannotSave(c)
  BY <1>10, FailMatch DEF PortIsBusy, CannotSave
<1>11. CASE CheckFile(c)
  <2>1. CASE file # None
    BY <1>11, <2>1, FailMatch DEF CheckFile
  <2>2. CASE file = None
    <3>1. /\ client[c].stage = "saving" /\ UNCHANGED <<wire, task, file>>
          /\ client' = [client EXCEPT ![c].stage = "linking"]
      BY <1>11, <2>2 DEF CheckFile, Moves
    <3>2. Enrolls(c) /\ client[c].grant # None
      BY <1>0, <3>1 DEF ClientFits
    <3>3. /\ OwnsGrant(c)' /\ ClientFits(c)' /\ client'[c].stage = "linking"
          /\ client'[c].grant = client[c].grant /\ Enrolls(c)' = Enrolls(c)
      <4>1. "linking" \in Stage \ {"off", "binding"}
        BY DEF Stage
      <4> QED BY <1>5, <3>1, <3>2, <4>1
    <3> QED BY <1>0, <3>1, <3>2, <3>3 DEF WireFits, HelloFits
  <2> QED BY <2>1, <2>2
<1>12. CASE Link(c)
  <2>1. CASE file # None
    BY <1>12, <2>1, FailMatch DEF Link
  <2>2. CASE file = None
    <3>1. /\ client[c].stage = "linking" /\ UNCHANGED <<wire, task>> /\ file' = Saved(c)
          /\ client' = [client EXCEPT ![c].stage = "open", ![c].mounted = TRUE]
      BY <1>12, <2>2 DEF Link
    <3>2. Enrolls(c) /\ client[c].grant # None
      BY <1>0, <3>1 DEF ClientFits
    <3>3. /\ client'[c].stage = "open" /\ client'[c].mounted = TRUE
          /\ client'[c].grant = client[c].grant /\ Enrolls(c)' = Enrolls(c)
      BY <1>0, <3>1 DEF ClientRecord, Enrolls
    <3>4. file' \in StoredSession /\ file'.grant.session = c
      BY <1>0, <3>1, <3>2 DEF Saved, StoredSession, ClientRecord, OwnsGrant
    <3>5. OwnsGrant(c)' /\ ClientFits(c)'
      BY <1>0, <3>2, <3>3, <3>4 DEF OwnsGrant, ClientFits
    <3> QED BY <1>0, <3>1, <3>2, <3>3, <3>5 DEF WireFits, HelloFits
  <2> QED BY <2>1, <2>2
<1>13. CASE Listen(c)
  <2> DEFINE busy == \E d \in Process \ {c} : HasSavedPort(d)
  <2>1. CASE busy
    <3>1. Fails(c, "busy") /\ client[c].stage # "off"
      BY <1>13, <2>1 DEF Listen
    <3> QED BY <3>1, FailMatch
  <2>2. CASE ~busy
    <3>1. /\ client[c].stage = "listening" /\ UNCHANGED <<wire, task, file>>
          /\ client' = [client EXCEPT ![c].stage = "open", ![c].port = "saved", ![c].mounted = TRUE]
      BY <1>13, <2>2 DEF Listen
    <3>2. /\ client'[c].stage = "open" /\ client'[c].transport = client[c].transport
          /\ client'[c].grant = client[c].grant /\ Enrolls(c)' = Enrolls(c)
          /\ client'[c].why = client[c].why
      BY <1>0, <3>1 DEF ClientRecord, Enrolls
    <3>3. ~Enrolls(c) /\ file # None /\ client[c].grant # None
      BY <1>0, <3>1 DEF ClientFits
    <3>4. Reason(c) => Reason(c)'
      BY <1>1, <3>2, <3>3
    <3>5. OwnsGrant(c)' /\ ClientFits(c)'
      BY <1>0, <3>1, <3>2, <3>3, <3>4 DEF OwnsGrant, ClientFits
    <3> QED BY <1>0, <3>1, <3>2, <3>3, <3>4, <3>5 DEF WireFits, HelloFits
  <2> QED BY <2>1, <2>2
<1>14. CASE Quit(c)
  BY <1>14, FailMatch
<1>15. CASE SavesInVain(c)
  <2>1. /\ client[c].stage = "linking" /\ file' = Saved(c)
        /\ client' = [client EXCEPT ![c].stage = "ended", ![c].port = "none", ![c].why = "unsaved"]
        /\ wire'[c] = Closed /\ task'[c] = NoHandler
    BY <1>15, Fallen DEF SavesInVain
  <2>2. Enrolls(c) /\ client[c].grant # None
    BY <1>0, <2>1 DEF ClientFits
  <2>3. /\ client'[c].stage = "ended" /\ client'[c].grant = client[c].grant
        /\ Enrolls(c)' = Enrolls(c)
    BY <1>0, <2>1 DEF ClientRecord, Enrolls
  <2>4. file' \in StoredSession /\ file'.grant.session = c
    BY <1>0, <2>1, <2>2 DEF Saved, StoredSession, ClientRecord, OwnsGrant
  <2>5. OwnsGrant(c)' /\ ClientFits(c)'
    BY <1>0, <2>2, <2>3, <2>4 DEF OwnsGrant, ClientFits
  <2>6. WireFits(c)'
    BY <2>1, <2>2, <2>3 DEF WireFits, HelloFits, Closed, NoHandler, Read
  <2> QED BY <2>5, <2>6
<1> QED BY <1>2, <1>3, <1>4, <1>6, <1>7, <1>8, <1>9, <1>10, <1>11, <1>12, <1>13, <1>14, <1>15
        DEF ProcessStep, Connect

-----------------------------------------------------------------------------
(* Handlers that were left *)

\* A process leaves at most the handler of its connection behind.
LEMMA ProcessLeaves ==
  ASSUME NEW c \in Process, ProcessStep(c)
  PROVE  left' = left \/ (left' = left \cup Outlives(c))
<1> USE DEF hostVars
<1>1. CASE \/ \E i \in Invite, t \in Transport : StartEnroll(c, i, t)
           \/ \E ownPort \in BOOLEAN : StartResume(c, ownPort)
  BY <1>1 DEF StartEnroll, StartResume
<1>2. CASE Bind(c) \/ Dial(c) \/ SendProof(c) \/ ReadGrant(c)
  BY <1>2 DEF Bind, Dial, SendProof, ReadGrant
<1>3. CASE GiveUp(c) \/ PortIsBusy(c) \/ CannotSave(c) \/ SavesInVain(c) \/ Quit(c)
  BY <1>3 DEF GiveUp, PortIsBusy, CannotSave, SavesInVain, Quit, Fails, Hangs
<1>4. CASE CheckFile(c) \/ Link(c) \/ Listen(c)
  BY <1>4 DEF CheckFile, Link, Listen, Fails, Hangs
<1> QED BY <1>1, <1>2, <1>3, <1>4 DEF ProcessStep, Connect

\* What a process leaves behind has a hello of its own.
LEMMA OutlivesFits ==
  ASSUME NEW c \in Process, WireFits(c), NEW h \in Outlives(c)
  PROVE  h.by = c /\ h.hello = task[c].hello /\ LeftFits(h)
<1>1. h.by = c /\ h.hello = task[c].hello
  BY DEF Outlives
<1>2. task[c].at = "granted" \/ wire[c].type = "proof"
  BY DEF Outlives
<1> QED BY <1>1, <1>2 DEF WireFits, HelloFits, LeftFits

\* Whoever enrolls has started, and has an invitation ever after.
LEMMA EnrollsStays ==
  ASSUME DeviceTypes, Matching, [DeviceNext]_deviceVars, NEW d \in Process, Enrolls(d)
  PROVE  Enrolls(d)'
<1>0. client \in [Process -> ClientRecord] /\ client[d] \in ClientRecord
  BY DEF DeviceTypes, DeviceTypeOK, ClientRecord
<1>1. client[d].stage # "off"
  BY DEF Matching, ClientFits, Unstarted, Enrolls
<1>2. ASSUME client'[d].invite = client[d].invite
      PROVE  Enrolls(d)'
  BY <1>2 DEF Enrolls
<1>3. ASSUME NEW why, Fails(d, why)
      PROVE  client'[d].invite = client[d].invite
  BY <1>0, <1>3 DEF Fails, ClientRecord
<1>4. ASSUME ProcessStep(d)
      PROVE  Enrolls(d)'
  <2>1. CASE \/ \E i \in Invite, t \in Transport : StartEnroll(d, i, t)
             \/ \E ownPort \in BOOLEAN : StartResume(d, ownPort)
    BY <1>1, <2>1 DEF StartEnroll, StartResume
  <2>2. CASE Bind(d) \/ Dial(d) \/ SendProof(d) \/ ReadGrant(d)
    BY <1>0, <1>2, <2>2 DEF Bind, Dial, SendProof, ReadGrant, Moves, ClientRecord
  <2>3. CASE GiveUp(d) \/ PortIsBusy(d) \/ CannotSave(d)
    BY <1>2, <1>3, <2>3 DEF GiveUp, PortIsBusy, CannotSave
  <2>4. CASE SavesInVain(d)
    BY <1>0, <1>2, <2>4 DEF SavesInVain, ClientRecord
  <2>5. CASE Quit(d)
    BY <1>0, <1>2, <2>5 DEF Quit, Unstarted
  <2>6. CASE CheckFile(d)
    BY <1>0, <1>2, <1>3, <2>6 DEF CheckFile, Moves, ClientRecord
  <2>7. CASE Link(d)
    BY <1>0, <1>2, <1>3, <2>7 DEF Link, ClientRecord
  <2>8. CASE Listen(d)
    BY <1>0, <1>2, <1>3, <2>8 DEF Listen, ClientRecord
  <2> QED BY <1>4, <2>1, <2>2, <2>3, <2>4, <2>5, <2>6, <2>7, <2>8 DEF ProcessStep, Connect
<1>5. ASSUME client'[d] = client[d]
      PROVE  Enrolls(d)'
  BY <1>5, <1>2
<1>6. ASSUME NEW c \in Process, ProcessStep(c)
      PROVE  Enrolls(d)'
  BY <1>4, <1>5, <1>6, ProcessLeavesOthers DEF Untouched
<1>7. ASSUME NEW c \in Process, HostStep(c)
      PROVE  Enrolls(d)'
  BY <1>5, <1>7, HostDropsOthers
<1>8. CASE OperatorStep
  BY <1>5, <1>8, OperatorDrops
<1>9. ASSUME NEW h \in left, LateStep(h)
      PROVE  Enrolls(d)'
  BY <1>5, <1>9, LateDrops
<1>10. CASE UNCHANGED deviceVars
  BY <1>5, <1>10 DEF deviceVars
<1> QED BY <1>6, <1>7, <1>8, <1>9, <1>10
        DEF DeviceNext, ProcessStep, HostStep, OperatorStep, LateStep

\* The host's and its operator's steps leave no handler behind.
LEMMA HostLeaves ==
  ASSUME \/ \E c \in Process : HostStep(c)
         \/ OperatorStep
         \/ UNCHANGED deviceVars
  PROVE  left' \subseteq left
<1> USE DEF HostSame
<1>1. CASE \E c \in Process : HostStep(c)
  BY <1>1 DEF HostStep, Serve, HostHello, HostProof, Register, HostRefuses, Kick
<1>2. CASE OperatorStep
  BY <1>2 DEF OperatorStep, Mint, Close, Restart
<1>3. CASE UNCHANGED deviceVars
  BY <1>3 DEF deviceVars, hostVars
<1> QED BY <1>1, <1>2, <1>3

\* Every handler that was left fits the process that left it.
LEMMA LeftoverStep ==
  ASSUME DeviceTypes, Matching, Leftover, [DeviceNext]_deviceVars
  PROVE  Leftover'
<1>1. ASSUME NEW h, LeftFits(h), h.by \in Process
      PROVE  LeftFits(h)'
  BY <1>1, EnrollsStays DEF LeftFits
<1>2. \A h \in left : LeftFits(h) /\ h \in Handler /\ h.by \in Process
  BY DEF Leftover, DeviceTypes, DeviceTypeOK, Handler
<1>3. ASSUME NEW c \in Process, ProcessStep(c)
      PROVE  \A h \in left' : LeftFits(h) /\ h.by \in Process
  <2>1. \A h \in Outlives(c) : LeftFits(h) /\ h.by = c
    BY OutlivesFits DEF Matching
  <2> QED BY <1>2, <1>3, <2>1, ProcessLeaves
<1>4. ASSUME NEW h \in left, LateStep(h)
      PROVE  \A g \in left' : LeftFits(g) /\ g.by \in Process
  <2> DEFINE done == [h EXCEPT !.at = "granted"]
  <2>1. done.by = h.by /\ done.hello = h.hello
    BY <1>2 DEF Handler
  <2>2. LeftFits(done) /\ done.by \in Process
    BY <1>2, <2>1 DEF LeftFits
  <2>3. left' \subseteq left \cup {done}
    BY <1>4 DEF LateStep, LateProof, LateRegister, LateEnds
  <2> QED BY <1>2, <2>2, <2>3
<1>5. \A h \in left' : LeftFits(h) /\ h.by \in Process
  BY <1>2, <1>3, <1>4, HostLeaves
     DEF DeviceNext, ProcessStep, HostStep, OperatorStep, LateStep
<1> QED BY <1>1, <1>5 DEF Leftover

-----------------------------------------------------------------------------
(* The invariant *)

DeviceInvariant == DeviceTypes /\ Matching /\ Leftover /\ KnownGrants

\* At first nobody is connected and there is no grant.
LEMMA InvariantInitially ==
  ASSUME DeviceInit
  PROVE  DeviceInvariant
<1>1. DeviceTypes
  BY TypesInitially
<1>2. \A c \in Process : /\ client[c] = Unstarted /\ wire[c] = Closed /\ task[c] = NoHandler
                         /\ file = None
  BY DEF DeviceInit
<1>3. None \notin Grant
  BY DeviceAssumption
<1>4. Matching
  <2> USE DEF Matching
  <2> TAKE c \in Process
  <2>1. OwnsGrant(c)
    BY <1>2 DEF OwnsGrant, Unstarted
  <2>2. ClientFits(c)
    <3>1. client[c] = Unstarted
      BY <1>2
    <3>2. client[c].stage = "off" /\ client[c].mounted = FALSE /\ client[c].why = "none"
      BY <3>1 DEF Unstarted
    <3> QED BY <3>1, <3>2 DEF ClientFits
  <2>3. WireFits(c)
    BY <1>2 DEF WireFits, HelloFits, Unstarted, Closed, NoHandler, Read
  <2> QED BY <2>1, <2>2, <2>3
<1>5. KnownGrants
  <2>1. \A c \in Process : GrantsOf(c) = {}
    BY <1>2, <1>3 DEF GrantsOf, Unstarted, Closed, NoHandler, Read
  <2>2. file = None
    BY DEF DeviceInit
  <2> QED BY <2>1, <2>2 DEF KnownGrants
<1>6. Leftover
  BY DEF DeviceInit, Leftover
<1> QED BY <1>1, <1>4, <1>5, <1>6 DEF DeviceInvariant

\* Every step of a process, the host or the operator keeps the invariant.
LEMMA InvariantStep ==
  ASSUME DeviceInvariant, [DeviceNext]_deviceVars
  PROVE  DeviceInvariant'
<1> USE DEF DeviceInvariant
<1>1. DeviceTypes' /\ Leftover' /\ Kept
  BY TypesStep, LeftoverStep, Keeps
<1>2. \A d \in Process : OwnsGrant(d) /\ ClientFits(d) /\ WireFits(d)
  BY DEF Matching
<1>3. ASSUME NEW c \in Process, ProcessStep(c)
      PROVE  Matching' /\ KnownGrants'
  <2>1. \A d \in Process \ {c} : Dropped(d)
    BY <1>3, ProcessLeavesOthers DEF Untouched, Dropped
  <2>2. \A d \in Process \ {c} : OwnsGrant(d)' /\ ClientFits(d)' /\ WireFits(d)'
    BY <1>1, <1>2, <2>1, DroppedMatch
  <2>3. OwnsGrant(c)' /\ ClientFits(c)' /\ WireFits(c)'
    BY <1>1, <1>3, ProcessMatch
  <2>4. KnownGrants'
    BY <1>1, <1>3, ProcessGrants
  <2> QED BY <2>2, <2>3, <2>4 DEF Matching
<1>4. ASSUME NEW c \in Process, HostStep(c)
      PROVE  Matching' /\ KnownGrants'
  <2>1. \A d \in Process \ {c} : OwnsGrant(d)' /\ ClientFits(d)' /\ WireFits(d)'
    BY <1>1, <1>2, <1>4, HostDropsOthers, DroppedMatch
  <2>2. OwnsGrant(c)' /\ ClientFits(c)' /\ WireFits(c)'
    BY <1>1, <1>4, HostMatch
  <2>3. KnownGrants'
    BY <1>1, <1>4, HostGrants
  <2> QED BY <2>1, <2>2, <2>3 DEF Matching
<1>5. ASSUME UNCHANGED <<client, file>>, \A d \in Process : Dropped(d)
      PROVE  Matching' /\ KnownGrants'
  <2>1. \A d \in Process : OwnsGrant(d)' /\ ClientFits(d)' /\ WireFits(d)'
    BY <1>1, <1>2, <1>5, DroppedMatch
  <2>2. KnownGrants'
    BY <1>1, <1>5, OperatorGrants
  <2> QED BY <2>1, <2>2 DEF Matching
<1>6. CASE OperatorStep
  BY <1>1, <1>5, <1>6, OperatorDrops
<1>7. CASE UNCHANGED deviceVars
  <2>1. UNCHANGED <<client, file, wire, task>>
    BY <1>7 DEF deviceVars, hostVars
  <2> QED BY <1>1, <1>5, <2>1 DEF Dropped
<1>8. CASE DeviceNext
  <2>1. \/ \E c \in Process : ProcessStep(c) \/ HostStep(c)
        \/ \E h \in left : LateStep(h)
        \/ OperatorStep
    BY <1>8 DEF DeviceNext, ProcessStep, HostStep, OperatorStep, LateStep
  <2>2. ASSUME NEW h \in left, LateStep(h)
        PROVE  Matching' /\ KnownGrants'
    BY <1>5, <2>2, LateDrops
  <2> QED BY <1>1, <1>3, <1>4, <1>6, <2>1, <2>2
<1> QED BY <1>1, <1>7, <1>8

(***************************************************************************)
(* A connection's messages, its handler and its process go together in     *)
(* every reachable state (authorize in native_client.rs against            *)
(* authorize_connection in lib.rs), and no grant is about that the host    *)
(* does not know.                                                          *)
(***************************************************************************)
THEOREM DeviceInvariantHolds == DeviceSpec => []DeviceInvariant
<1>1. DeviceInit => DeviceInvariant
  BY InvariantInitially
<1>2. DeviceInvariant /\ [DeviceNext]_deviceVars => DeviceInvariant'
  BY InvariantStep
<1> QED BY <1>1, <1>2, PTL DEF DeviceSpec

\* State, messages and device.json have their types, and no handler is without
\* a connection (the handlers of authorize_connection end with theirs).
THEOREM DeviceTyped == DeviceSpec => []DeviceTypeOK
<1>1. DeviceInvariant => DeviceTypeOK
  BY DEF DeviceInvariant, DeviceTypes
<1> QED BY <1>1, DeviceInvariantHolds, PTL

\* However many processes enroll under one name at once, those that go on as
\* enrolled are those whose session save_session installed.
THEOREM OneEnrollmentWins == DeviceSpec => []OpenIsSaved
<1>1. DeviceInvariant => OpenIsSaved
  BY DEF DeviceInvariant, Matching, ClientFits, OpenIsSaved
<1> QED BY <1>1, DeviceInvariantHolds, PTL

\* The session in device.json is one the host admitted, through the invitation
\* that the file names, however often the host restarts.
THEOREM SavedIsGranted == DeviceSpec => []FileIsGranted
<1>1. DeviceInvariant => FileIsGranted
  BY DEF DeviceInvariant, KnownGrants, IsGood, FileIsGranted
<1> QED BY <1>1, DeviceInvariantHolds, PTL

\* Only a kick, an invitation without TCP, or another set-up of the host makes
\* it refuse a device that resumes.
THEOREM StaysEnrolled == DeviceSpec => []EnrolledUntilKicked
<1>1. DeviceInvariant => EnrolledUntilKicked
  BY Zenon DEF DeviceInvariant, Matching, ClientFits, EnrolledUntilKicked, Reason
<1> QED BY <1>1, DeviceInvariantHolds, PTL

-----------------------------------------------------------------------------
(* Slots *)

\* A process waits without a connection, and ends with a reason.
Settled(c) ==
  /\ client[c].stage \in {"dialing", "ended"} => wire[c] = Closed
  /\ client[c].stage = "ended" <=> client[c].why # "none"
  /\ client[c].stage = "open" => client[c].mounted

\* Whoever was admitted did all that can fail without a fault before.
Spent(c) ==
  granted[c] # None =>
    /\ Enrolls(c) /\ client[c].stage \notin {"off", "binding", "dialing"}
    /\ client[c].why \notin {"busy", "denied"}
    /\ ~client[c].mounted =>
         /\ wire[c].type \notin {"admit", "resume", "challenge", "proof"}
         /\ wire[c].type = "denied" => wire[c].late

\* Whoever may still be admitted when it has left did, too, and has gone on.
Final(c) ==
  /\ Enrolls(c) /\ client[c].stage \notin {"off", "binding", "dialing"}
  /\ client[c].why \notin {"busy", "denied"}
  /\ client[c].mounted \/ client[c].stage = "ended"

LeftFinal == \A h \in left : h.at = "proved" /\ h.hello.type = "admit" => Final(h.by)

SlotsFit == \A c \in Process : Settled(c) /\ Spent(c)
SlotInvariant == SlotsFit /\ LeftFinal

\* Neither is disturbed by a connection that is dropped.
LEMMA DroppedSlots ==
  ASSUME NEW d \in Process, Settled(d), Spent(d), Dropped(d), granted'[d] = granted[d]
  PROVE  Settled(d)' /\ Spent(d)'
BY DEF Settled, Spent, Dropped, Enrolls, Closed

\* A process that was admitted fails for no other reason.
LEMMA FailSlots ==
  ASSUME DeviceTypes, NEW c \in Process, Settled(c), Spent(c), granted' = granted,
         \/ Quit(c)
         \/ \E why \in {"enrolled", "unsaved", "busy", "lost", "denied"} :
              /\ Fails(c, why) /\ client[c].stage \notin {"off", "ended"}
              /\ granted[c] # None /\ ~client[c].mounted => why \in {"enrolled", "unsaved", "lost"}
  PROVE  Settled(c)' /\ Spent(c)'
<1>0. /\ client \in [Process -> ClientRecord] /\ client[c] \in ClientRecord
      /\ wire'[c] = Closed
  BY Fallen DEF DeviceTypes, DeviceTypeOK, ClientRecord
<1>1. CASE Quit(c)
  <2>1. client'[c] = [Unstarted EXCEPT !.stage = "ended", !.why = "quit", !.invite = client[c].invite]
    BY <1>0, <1>1 DEF Quit
  <2>2. /\ client'[c].stage = "ended" /\ client'[c].why = "quit"
        /\ client'[c].invite = client[c].invite
    BY <2>1 DEF Unstarted
  <2> QED BY <1>0, <2>2 DEF Settled, Spent, Enrolls, Closed
<1>2. ASSUME NEW why \in {"enrolled", "unsaved", "busy", "lost", "denied"},
             Fails(c, why), client[c].stage \notin {"off", "ended"},
             granted[c] # None /\ ~client[c].mounted => why \in {"enrolled", "unsaved", "lost"}
      PROVE  Settled(c)' /\ Spent(c)'
  <2>1. client'[c] = IF client[c].mounted THEN [client[c] EXCEPT !.stage = "open"]
                     ELSE [client[c] EXCEPT !.stage = "ended", !.port = "none", !.why = why]
    BY <1>0, <1>2 DEF Fails
  <2>2. CASE client[c].mounted
    <3>1. /\ client'[c].stage = "open" /\ client'[c].mounted /\ client'[c].why = client[c].why
          /\ Enrolls(c)' = Enrolls(c)
      BY <1>0, <2>1, <2>2 DEF ClientRecord, Enrolls
    <3> QED BY <1>0, <1>2, <2>2, <3>1 DEF Settled, Spent, Closed
  <2>3. CASE ~client[c].mounted
    <3>1. /\ client'[c].stage = "ended" /\ client'[c].why = why /\ Enrolls(c)' = Enrolls(c)
      BY <1>0, <2>1, <2>3 DEF ClientRecord, Enrolls
    <3> QED BY <1>0, <1>2, <2>3, <3>1 DEF Settled, Spent, Closed
  <2> QED BY <2>2, <2>3
<1> QED BY <1>1, <1>2

\* A process's own steps spend no slot in vain.
LEMMA ProcessSlots ==
  ASSUME DeviceTypes, Matching, NEW c \in Process, Settled(c), Spent(c), ProcessStep(c)
  PROVE  granted' = granted /\ Settled(c)' /\ Spent(c)'
<1> USE DEF hostVars, recordVars, ledgerVars
<1>0. /\ client \in [Process -> ClientRecord] /\ client[c] \in ClientRecord
      /\ wire \in [Process -> Message]
      /\ ClientFits(c) /\ WireFits(c)
  BY DEF DeviceTypes, DeviceTypeOK, ClientRecord, Matching
<1>1. CASE \/ \E i \in Invite, t \in Transport : StartEnroll(c, i, t)
           \/ \E ownPort \in BOOLEAN : StartResume(c, ownPort)
  <2>1. client[c].stage = "off" /\ granted' = granted /\ wire' = wire
    BY <1>1 DEF StartEnroll, StartResume
  <2>2. CASE \E i \in Invite, t \in Transport : StartEnroll(c, i, t)
    <3>1. PICK i \in Invite, t \in Transport : StartEnroll(c, i, t)
      BY <2>2
    <3>2. client'[c] = [Unstarted EXCEPT !.stage = "binding", !.transport = t, !.invite = i]
      BY <1>0, <3>1 DEF StartEnroll
    <3>3. client'[c].stage = "binding" /\ client'[c].why = "none"
      BY <3>2 DEF Unstarted
    <3> QED BY <1>0, <2>1, <3>3 DEF Settled, Spent, WireFits
  <2>3. CASE \E ownPort \in BOOLEAN : StartResume(c, ownPort)
    <3>1. PICK ownPort \in BOOLEAN : StartResume(c, ownPort)
      BY <2>3
    <3>2. client'[c] = IF ownPort THEN [Unstarted EXCEPT !.stage = "binding", !.transport = "tcp"]
                       ELSE [Unstarted EXCEPT !.stage = "dialing", !.transport = file.transport,
                                              !.grant = file.grant]
      BY <1>0, <3>1 DEF StartResume
    <3>3. client'[c].stage \in {"binding", "dialing"} /\ client'[c].why = "none"
      BY <3>2 DEF Unstarted
    <3> QED BY <1>0, <2>1, <3>3 DEF Settled, Spent, WireFits
  <2> QED BY <1>1, <2>2, <2>3
<1>2. CASE Bind(c)
  <2>1. /\ client[c].stage = "binding" /\ granted' = granted /\ wire' = wire
        /\ client'[c].stage = "dialing" /\ client'[c].why = client[c].why
    BY <1>0, <1>2 DEF Bind, ClientRecord
  <2> QED BY <1>0, <2>1 DEF Settled, Spent, WireFits
<1>3. CASE Dial(c)
  <2>1. /\ client[c].stage \in {"dialing", "open"} /\ granted' = granted
        /\ client'[c].stage = "handshaking" /\ client'[c].why = client[c].why
        /\ client'[c].mounted = client[c].mounted /\ Enrolls(c)' = Enrolls(c)
    BY <1>0, <1>3 DEF Dial, Moves, Enrolls, ClientRecord
  <2> QED BY <2>1 DEF Settled, Spent
<1>4. CASE SendProof(c)
  <2>1. /\ client[c].stage = "handshaking" /\ granted' = granted /\ client' = client
        /\ wire[c].type = "challenge" /\ wire'[c].type = "proof"
    BY <1>0, <1>4 DEF SendProof, Puts
  <2> QED BY <2>1 DEF Settled, Spent, Enrolls
<1>5. CASE ReadGrant(c)
  <2>1. /\ client[c].stage = "handshaking" /\ granted' = granted /\ wire'[c] = Read
        /\ client'[c].stage = Onwards(c) /\ client'[c].why = client[c].why
        /\ client'[c].mounted = (client[c].mounted \/ Onwards(c) = "open")
        /\ Enrolls(c)' = Enrolls(c)
    BY <1>0, <1>5 DEF ReadGrant, Puts, Enrolls, ClientRecord
  <2>2. Onwards(c) \in {"open", "saving", "listening"}
    BY DEF Onwards
  <2>3. /\ Onwards(c) = "open" => client'[c].mounted
        /\ ~client'[c].mounted => ~client[c].mounted
    BY <2>1
  <2>4. client[c].why = "none"
    BY <2>1 DEF Settled
  <2>5. Settled(c)'
    BY <2>1, <2>2, <2>3, <2>4 DEF Settled
  <2>6. Spent(c)'
    BY <2>1, <2>2, <2>3, <2>4 DEF Spent, Read
  <2> QED BY <2>1, <2>5, <2>6
<1>6. CASE GiveUp(c)
  <2>1. granted' = granted /\ client[c].stage = "handshaking"
    BY <1>6 DEF GiveUp, Fails
  <2>2. \E why \in {"enrolled", "unsaved", "busy", "lost", "denied"} :
          /\ Fails(c, why)
          /\ granted[c] # None /\ ~client[c].mounted => why \in {"enrolled", "unsaved", "lost"}
    BY <1>6 DEF GiveUp, Spent
  <2> QED BY <2>1, <2>2, FailSlots
<1>7. CASE PortIsBusy(c)
  <2>1. granted' = granted /\ client[c].stage \in {"binding", "listening"} /\ Fails(c, "busy")
    BY <1>7 DEF PortIsBusy, Fails
  <2>2. granted[c] = None
    BY <1>0, <2>1 DEF Spent, ClientFits
  <2> QED BY <2>1, <2>2, FailSlots
<1>8. CASE (CheckFile(c) \/ Link(c)) /\ file # None
  <2>1. /\ granted' = granted /\ Fails(c, "enrolled")
        /\ client[c].stage \notin {"off", "ended"}
    BY <1>8 DEF CheckFile, Link, Fails
  <2> QED BY <2>1, FailSlots
<1>9. CASE (CheckFile(c) \/ Link(c)) /\ file = None
  <2>1. /\ client[c].stage \in {"saving", "linking"} /\ granted' = granted /\ wire' = wire
        /\ \/ client'[c].stage = "linking" /\ client'[c].mounted = client[c].mounted
           \/ client'[c].stage = "open" /\ client'[c].mounted = TRUE
        /\ client'[c].why = client[c].why /\ Enrolls(c)' = Enrolls(c)
    BY <1>0, <1>9 DEF CheckFile, Link, Moves, Enrolls, ClientRecord
  <2> QED BY <2>1 DEF Settled, Spent
<1>10. CASE Listen(c)
  <2>0. granted[c] = None /\ client[c].stage = "listening"
    BY <1>0, <1>10 DEF Listen, Spent, ClientFits
  <2> DEFINE busy == \E d \in Process \ {c} : HasSavedPort(d)
  <2>1. CASE busy
    <3>1. granted' = granted /\ Fails(c, "busy")
      BY <1>10, <2>1 DEF Listen, Fails
    <3> QED BY <2>0, <3>1, FailSlots
  <2>2. CASE ~busy
    <3>1. /\ granted' = granted /\ client'[c].stage = "open" /\ client'[c].mounted = TRUE
          /\ client'[c].why = client[c].why
      BY <1>0, <1>10, <2>2 DEF Listen, ClientRecord
    <3> QED BY <2>0, <3>1 DEF Settled, Spent
  <2> QED BY <2>1, <2>2
<1>11. CASE Quit(c)
  <2>1. granted' = granted
    BY <1>11 DEF Quit
  <2> QED BY <1>11, <2>1, FailSlots
<1>12. CASE CannotSave(c)
  <2>1. /\ granted' = granted /\ Fails(c, "unsaved")
        /\ client[c].stage \notin {"off", "ended"}
    BY <1>12 DEF CannotSave, Fails
  <2> QED BY <2>1, FailSlots
<1>13. CASE SavesInVain(c)
  <2>1. /\ client[c].stage = "linking" /\ granted' = granted /\ wire'[c] = Closed
        /\ client' = [client EXCEPT ![c].stage = "ended", ![c].port = "none", ![c].why = "unsaved"]
    BY <1>13, Fallen DEF SavesInVain
  <2>2. /\ client'[c].stage = "ended" /\ client'[c].why = "unsaved"
        /\ Enrolls(c)' = Enrolls(c)
    BY <1>0, <2>1 DEF ClientRecord, Enrolls
  <2> QED BY <2>1, <2>2 DEF Settled, Spent, Closed
<1> QED BY <1>1, <1>2, <1>3, <1>4, <1>5, <1>6, <1>7, <1>8, <1>9, <1>10, <1>11, <1>12, <1>13
        DEF ProcessStep, Connect

\* The host admits whoever proved it enrolls, and answers nobody else so.
LEMMA HostSlots ==
  ASSUME DeviceTypes, Matching, SlotsFit, NEW c \in Process, HostStep(c)
  PROVE  SlotsFit'
<1> USE DEF recordVars, ledgerVars
<1>0. /\ wire \in [Process -> Message] /\ task \in [Process -> TaskRecord]
      /\ granted \in [Process -> Invite \cup {None}] /\ UNCHANGED client
      /\ Settled(c) /\ Spent(c) /\ WireFits(c)
  BY HostDropsOthers DEF DeviceTypes, DeviceTypeOK, TaskRecord, Matching, SlotsFit
<1>1. \A d \in Process \ {c} : Dropped(d)
  BY HostDropsOthers
<1>2. ASSUME granted' = granted,
             \/ Dropped(c) \/ Serves(c)
             \/ /\ wire[c].type \in {"admit", "resume", "proof"}
                /\ \/ wire'[c].type \in {"challenge", "granted", "denied"}
      PROVE  SlotsFit'
  <2>1. \A d \in Process \ {c} : Settled(d)' /\ Spent(d)'
    BY <1>1, <1>2, DroppedSlots DEF SlotsFit
  <2>2. Settled(c)' /\ Spent(c)'
    <3>1. CASE Dropped(c)
      BY <1>0, <1>2, <3>1, DroppedSlots
    <3>2. CASE Serves(c)
      BY <1>0, <1>2, <3>2 DEF Serves, Settled, Spent, Enrolls
    <3>3. CASE wire[c].type \in {"admit", "resume", "proof"}
      <4>1. client[c].stage \notin {"dialing", "ended"}
        BY <1>0, <3>3 DEF Settled, Closed
      <4>2. granted[c] # None => client[c].mounted
        BY <1>0, <3>3 DEF Spent
      <4> QED BY <1>0, <1>2, <4>1, <4>2 DEF Settled, Spent, Enrolls
    <3> QED BY <1>2, <3>1, <3>2, <3>3
  <2> QED BY <2>1, <2>2 DEF SlotsFit
<1>3. CASE HostHello(c)
  <2>1. /\ granted' = granted /\ wire[c].type \in {"admit", "resume"}
        /\ wire'[c].type \in {"challenge", "denied"}
    BY <1>0, <1>3 DEF HostHello, Challenge, Deny, Puts
  <2> QED BY <1>2, <2>1
<1>4. CASE HostRefuses(c)
  <2>1. granted' = granted /\ wire[c].type = "proof" /\ wire'[c].type = "denied"
    BY <1>0, <1>4 DEF HostRefuses, Deny, Puts
  <2> QED BY <1>2, <2>1
<1>5. CASE Register(c)
  <2>1. granted' = granted
    BY <1>5 DEF Register
  <2> QED BY <1>2, <1>5, <2>1, HostRegisters
<1>6. CASE Kick(c)
  <2>1. granted' = granted
    BY <1>6 DEF Kick, Ledger!Withdraw
  <2> QED BY <1>2, <1>6, <2>1, HostRegisters
<1>7. CASE HostProof(c)
  <2> DEFINE hello == task[c].hello
             admitted == hello.type = "admit" /\ Admits(c, hello.invite)
  <2>1. CASE ~admitted
    <3>1. /\ granted' = granted /\ wire[c].type = "proof"
          /\ wire'[c].type \in {"granted", "denied"}
      BY <1>0, <1>7, <2>1 DEF HostProof, AdmitSession, ResumeSession, Grants, Deny, Puts
    <3> QED BY <1>2, <3>1
  <2>2. CASE admitted
    <3>1. Ledger!Grant(c, hello.invite) /\ Grants(c, c, hello.invite) /\ wire[c].type = "proof"
      BY <1>7, <2>2 DEF HostProof, AdmitSession
    <3>2. /\ \A d \in Process \ {c} : granted'[d] = granted[d]
          /\ wire'[c].type = "granted"
      BY <1>0, <3>1 DEF Ledger!Grant, Grants, Puts
    <3>3. \A d \in Process \ {c} : Settled(d)' /\ Spent(d)'
      BY <1>1, <3>2, DroppedSlots DEF SlotsFit
    <3>4. Enrolls(c) /\ client[c].stage \notin {"off", "binding", "dialing", "ended"}
      BY <1>0, <2>2, <3>1 DEF WireFits, HelloFits, Settled, Closed
    <3>5. Settled(c)' /\ Spent(c)'
      BY <1>0, <3>2, <3>4 DEF Settled, Spent, Enrolls
    <3> QED BY <3>3, <3>5 DEF SlotsFit
  <2> QED BY <2>1, <2>2
<1> QED BY <1>3, <1>4, <1>5, <1>6, <1>7 DEF HostStep, Serve

\* A process that is final stays so.
LEMMA FinalStays ==
  ASSUME DeviceTypes, NEW c \in Process, ProcessStep(c), Final(c), ClientFits(c)
  PROVE  Final(c)'
<1>0. client \in [Process -> ClientRecord] /\ client[c] \in ClientRecord
  BY DEF DeviceTypes, DeviceTypeOK, ClientRecord
<1>1. ASSUME NEW why \in {"enrolled", "unsaved", "busy", "lost", "denied"}, Fails(c, why),
             client[c].mounted
      PROVE  Final(c)'
  <2>1. client'[c] = [client[c] EXCEPT !.stage = "open"]
    BY <1>0, <1>1 DEF Fails
  <2>2. /\ client'[c].stage = "open" /\ client'[c].mounted = client[c].mounted
        /\ client'[c].why = client[c].why /\ Enrolls(c)' = Enrolls(c)
    BY <1>0, <2>1 DEF ClientRecord, Enrolls
  <2> QED BY <1>1, <2>2 DEF Final
<1>2. ASSUME client'[c].stage \notin {"off", "binding", "dialing"}, client[c].mounted,
             client'[c].mounted, client'[c].why = client[c].why, client'[c].invite = client[c].invite
      PROVE  Final(c)'
  BY <1>2 DEF Final, Enrolls
<1>3. CASE \/ \E i \in Invite, t \in Transport : StartEnroll(c, i, t)
           \/ \E ownPort \in BOOLEAN : StartResume(c, ownPort)
           \/ Bind(c)
  BY <1>3 DEF StartEnroll, StartResume, Bind, Final
<1>4. CASE Dial(c)
  BY <1>0, <1>2, <1>4 DEF Dial, Moves, Final, ClientRecord
<1>5. CASE SendProof(c)
  BY <1>5 DEF SendProof, Final, Enrolls
<1>6. CASE ReadGrant(c)
  <2>1. client[c].mounted /\ Onwards(c) = "open"
    BY <1>6 DEF ReadGrant, Final, Onwards
  <2>2. /\ client'[c].stage = "open" /\ client'[c].mounted /\ client'[c].why = client[c].why
        /\ client'[c].invite = client[c].invite
    BY <1>0, <1>6, <2>1 DEF ReadGrant, ClientRecord
  <2> QED BY <1>2, <2>1, <2>2
<1>7. CASE GiveUp(c)
  <2>1. client[c].mounted
    BY <1>7 DEF GiveUp, Final
  <2> QED BY <1>1, <1>7, <2>1 DEF GiveUp
<1>8. CASE PortIsBusy(c) \/ Listen(c)
  BY <1>8 DEF PortIsBusy, Listen, Final, ClientFits
<1>9. CASE CannotSave(c)
  <2>1. client[c].mounted
    BY <1>9 DEF CannotSave, Final
  <2> QED BY <1>1, <1>9, <2>1 DEF CannotSave
<1>10. CASE CheckFile(c) \/ Link(c)
  <2>1. client[c].mounted
    BY <1>10 DEF CheckFile, Link, Final
  <2>2. CASE file # None
    BY <1>1, <1>10, <2>1, <2>2 DEF CheckFile, Link
  <2>3. CASE file = None
    <3>1. /\ client'[c].stage \in {"linking", "open"} /\ client'[c].mounted
          /\ client'[c].why = client[c].why /\ client'[c].invite = client[c].invite
      BY <1>0, <1>10, <2>1, <2>3 DEF CheckFile, Link, Moves, ClientRecord
    <3> QED BY <1>2, <2>1, <3>1
  <2> QED BY <2>2, <2>3
<1>11. CASE SavesInVain(c)
  <2>1. /\ client'[c].stage = "ended" /\ client'[c].why = "unsaved"
        /\ client'[c].invite = client[c].invite
    BY <1>0, <1>11 DEF SavesInVain, ClientRecord
  <2> QED BY <2>1 DEF Final, Enrolls
<1>12. CASE Quit(c)
  <2>1. client'[c] = [Unstarted EXCEPT !.stage = "ended", !.why = "quit", !.invite = client[c].invite]
    BY <1>0, <1>12 DEF Quit
  <2>2. /\ client'[c].stage = "ended" /\ client'[c].why = "quit"
        /\ client'[c].invite = client[c].invite
    BY <2>1 DEF Unstarted
  <2> QED BY <2>2 DEF Final, Enrolls
<1> QED BY <1>3, <1>4, <1>5, <1>6, <1>7, <1>8, <1>9, <1>10, <1>11, <1>12
        DEF ProcessStep, Connect

\* A process that leaves a handler that may still admit it is final.
LEMMA LeavesFinal ==
  ASSUME DeviceTypes, Matching, NEW c \in Process, Settled(c), ProcessStep(c), left' # left,
         NEW h \in Outlives(c), h.at = "proved", h.hello.type = "admit"
  PROVE  Final(c)'
<1>0. /\ client \in [Process -> ClientRecord] /\ client[c] \in ClientRecord
      /\ ClientFits(c) /\ WireFits(c)
  BY DEF DeviceTypes, DeviceTypeOK, ClientRecord, Matching
<1>1. wire[c].type = "proof" /\ task[c].hello.type = "admit"
  BY DEF Outlives
<1>2. Enrolls(c) /\ client[c].stage \notin {"off", "binding", "listening"}
  BY <1>0, <1>1 DEF WireFits, HelloFits, ClientFits, Closed
<1>3. ASSUME NEW why \in {"enrolled", "unsaved", "lost"}, Fails(c, why),
             client[c].stage # "ended"
      PROVE  Final(c)'
  <2>1. client'[c] = IF client[c].mounted THEN [client[c] EXCEPT !.stage = "open"]
                     ELSE [client[c] EXCEPT !.stage = "ended", !.port = "none", !.why = why]
    BY <1>0, <1>3 DEF Fails
  <2>2. CASE client[c].mounted
    <3>1. /\ client'[c].stage = "open" /\ client'[c].mounted /\ client'[c].why = client[c].why
          /\ Enrolls(c)' = Enrolls(c)
      BY <1>0, <2>1, <2>2 DEF ClientRecord, Enrolls
    <3>2. client[c].why = "none"
      BY <1>3 DEF Settled
    <3> QED BY <1>2, <3>1, <3>2 DEF Final
  <2>3. CASE ~client[c].mounted
    <3>1. /\ client'[c].stage = "ended" /\ client'[c].why = why /\ Enrolls(c)' = Enrolls(c)
      BY <1>0, <2>1, <2>3 DEF ClientRecord, Enrolls
    <3> QED BY <1>2, <1>3, <3>1 DEF Final
  <2> QED BY <2>2, <2>3
<1>4. CASE \/ \E i \in Invite, t \in Transport : StartEnroll(c, i, t)
           \/ \E ownPort \in BOOLEAN : StartResume(c, ownPort)
           \/ Bind(c) \/ Dial(c) \/ SendProof(c) \/ ReadGrant(c)
  BY <1>4 DEF StartEnroll, StartResume, Bind, Dial, SendProof, ReadGrant, hostVars
<1>5. CASE GiveUp(c)
  BY <1>1, <1>3, <1>5 DEF GiveUp, Closed
<1>6. CASE PortIsBusy(c) \/ Listen(c)
  BY <1>2, <1>6 DEF PortIsBusy, Listen
<1>7. CASE CannotSave(c)
  BY <1>3, <1>7 DEF CannotSave
<1>8. CASE CheckFile(c) \/ Link(c)
  BY <1>3, <1>8 DEF CheckFile, Link, hostVars
<1>9. CASE SavesInVain(c)
  <2>1. /\ client'[c].stage = "ended" /\ client'[c].why = "unsaved"
        /\ client'[c].invite = client[c].invite
    BY <1>0, <1>9 DEF SavesInVain, ClientRecord
  <2> QED BY <1>2, <2>1 DEF Final, Enrolls
<1>10. CASE Quit(c)
  <2>1. client'[c] = [Unstarted EXCEPT !.stage = "ended", !.why = "quit", !.invite = client[c].invite]
    BY <1>0, <1>10 DEF Quit
  <2>2. /\ client'[c].stage = "ended" /\ client'[c].why = "quit"
        /\ client'[c].invite = client[c].invite
    BY <2>1 DEF Unstarted
  <2> QED BY <1>2, <2>2 DEF Final, Enrolls
<1> QED BY <1>4, <1>5, <1>6, <1>7, <1>8, <1>9, <1>10 DEF ProcessStep, Connect

\* While nobody moves, handlers that may admit somebody stay fit to.
LEMMA StillFinal ==
  ASSUME LeftFinal, left' \subseteq left, client' = client
  PROVE  LeftFinal'
BY DEF LeftFinal, Final, Enrolls

\* A handler that was left admits a process whose end it is not to blame for.
LEMMA LateSlots ==
  ASSUME DeviceTypes, Leftover, SlotInvariant, NEW h \in left, LateStep(h)
  PROVE  SlotInvariant'
<1>1. /\ client' = client /\ \A d \in Process : Dropped(d)
      /\ h \in Handler /\ h.by \in Process /\ LeftFits(h)
      /\ granted \in [Process -> Invite \cup {None}]
  BY LateDrops DEF DeviceTypes, DeviceTypeOK, Handler, Leftover
<1>2. LeftFinal'
  <2> DEFINE done == [h EXCEPT !.at = "granted"]
  <2>1. done.at = "granted"
    BY <1>1 DEF Handler
  <2>2. left' \subseteq left \cup {done}
    BY DEF LateStep, LateProof, LateRegister, LateEnds
  <2>3. \A g \in left' : g.at = "proved" => g \in left
    BY <2>1, <2>2
  <2> QED BY <1>1, <2>3 DEF SlotInvariant, LeftFinal, Final, Enrolls
<1> DEFINE admits == h.at = "proved" /\ h.hello.type = "admit"
<1>3. /\ \A d \in Process \ {h.by} : granted'[d] = granted[d]
      /\ ~admits => granted' = granted
  <2>1. CASE LateProof(h)
    BY <1>1, <2>1 DEF LateProof, SessionIn, Ledger!Grant, ledgerVars
  <2>2. CASE LateRegister(h) \/ LateEnds(h)
    BY <2>2 DEF LateRegister, LateEnds, recordVars, ledgerVars
  <2> QED BY <2>1, <2>2 DEF LateStep
<1>4. \A d \in Process : granted'[d] = granted[d] => Settled(d)' /\ Spent(d)'
  BY <1>1, DroppedSlots DEF SlotInvariant, SlotsFit
<1>5. CASE admits
  <2>1. Final(h.by) /\ Settled(h.by)
    BY <1>1, <1>5 DEF SlotInvariant, LeftFinal, SlotsFit
  <2>2. ~client[h.by].mounted => wire[h.by] = Closed
    BY <2>1 DEF Final, Settled
  <2>3. wire'[h.by] \in {wire[h.by], Closed}
    BY <1>1 DEF Dropped
  <2>4. Settled(h.by)' /\ Spent(h.by)'
    BY <1>1, <2>1, <2>2, <2>3 DEF Settled, Spent, Final, Enrolls, Closed
  <2> QED BY <1>2, <1>3, <1>4, <2>4 DEF SlotInvariant, SlotsFit
<1>6. CASE ~admits
  BY <1>2, <1>3, <1>4, <1>6 DEF SlotInvariant, SlotsFit
<1> QED BY <1>5, <1>6

\* No step spends a slot in vain.
LEMMA SlotStep ==
  ASSUME DeviceTypes, Matching, Leftover, SlotInvariant, [DeviceNext]_deviceVars
  PROVE  SlotInvariant'
<1>0. SlotsFit /\ LeftFinal
  BY DEF SlotInvariant
<1>1. ASSUME NEW c \in Process, ProcessStep(c)
      PROVE  SlotInvariant'
  <2>1. granted' = granted /\ Settled(c)' /\ Spent(c)'
    BY <1>0, <1>1, ProcessSlots DEF SlotsFit
  <2>2. \A d \in Process \ {c} : Dropped(d)
    BY <1>1, ProcessLeavesOthers DEF Untouched, Dropped
  <2>3. \A d \in Process \ {c} : Settled(d)' /\ Spent(d)'
    BY <1>0, <2>1, <2>2, DroppedSlots DEF SlotsFit
  <2>4. \A d \in Process : Final(d) => Final(d)'
    <3>1. Final(c) => Final(c)'
      BY <1>1, FinalStays DEF Matching
    <3>2. \A d \in Process \ {c} : client'[d] = client[d]
      BY <2>2 DEF Dropped
    <3> QED BY <3>1, <3>2 DEF Final, Enrolls
  <2>5. ASSUME NEW h \in left', h.at = "proved", h.hello.type = "admit"
        PROVE  Final(h.by)'
    <3>1. CASE h \in left
      <4>1. h.by \in Process /\ Final(h.by)
        BY <1>0, <2>5, <3>1 DEF LeftFinal, DeviceTypes, DeviceTypeOK, Handler
      <4> QED BY <2>4, <4>1
    <3>2. CASE h \notin left
      <4>1. left' # left /\ h \in Outlives(c)
        BY <1>1, <2>5, <3>2, ProcessLeaves
      <4>2. h.by = c
        BY <4>1 DEF Outlives
      <4> QED BY <1>0, <1>1, <2>5, <4>1, <4>2, LeavesFinal DEF SlotsFit
    <3> QED BY <3>1, <3>2
  <2> QED BY <2>1, <2>3, <2>5 DEF SlotInvariant, SlotsFit, LeftFinal
<1>2. ASSUME granted' = granted, \A d \in Process : Dropped(d),
             left' \subseteq left, client' = client
      PROVE  SlotInvariant'
  BY <1>0, <1>2, DroppedSlots, StillFinal DEF SlotInvariant, SlotsFit
<1>3. CASE OperatorStep
  <2>1. granted' = granted
    BY <1>3 DEF OperatorStep, Mint, Close, Restart, Ledger!Issue, Ledger!Withdraw,
                recordVars, ledgerVars
  <2> QED BY <1>2, <1>3, <2>1, OperatorDrops, HostLeaves
<1>4. CASE UNCHANGED deviceVars
  <2>1. UNCHANGED <<granted, client, wire, task, left>>
    BY <1>4 DEF deviceVars, hostVars, recordVars, ledgerVars
  <2> QED BY <1>2, <2>1 DEF Dropped
<1>5. ASSUME NEW c \in Process, HostStep(c)
      PROVE  SlotInvariant'
  <2>1. left' \subseteq left /\ client' = client
    BY <1>5, HostLeaves, HostDropsOthers
  <2> QED BY <1>0, <1>5, <2>1, HostSlots, StillFinal DEF SlotInvariant
<1>6. CASE DeviceNext
  <2>1. \/ \E c \in Process : ProcessStep(c) \/ HostStep(c)
        \/ \E h \in left : LateStep(h)
        \/ OperatorStep
    BY <1>6 DEF DeviceNext, ProcessStep, HostStep, OperatorStep, LateStep
  <2> QED BY <1>1, <1>3, <1>5, <2>1, LateSlots
<1> QED BY <1>4, <1>6

\* A slot is spent on a session that nobody has only by a lost answer, a kill, a
\* file that cannot be written or another enrollment, although the host may
\* admit a process that has given up: connect_site and save_session order what
\* can fail in any other way before the proof.
THEOREM SlotsAreNotWasted == DeviceSpec => []WastedOnlyByLoss
<1>1. DeviceInit => SlotInvariant
  <2>1. ASSUME DeviceInit, NEW c \in Process
        PROVE  Settled(c) /\ Spent(c)
    <3>1. client[c] = Unstarted /\ granted[c] = None
      BY <2>1 DEF DeviceInit, Ledger!Init
    <3>2. client[c].stage = "off" /\ client[c].why = "none"
      BY <3>1 DEF Unstarted
    <3> QED BY <3>1, <3>2 DEF Settled, Spent
  <2>2. DeviceInit => LeftFinal
    BY DEF DeviceInit, LeftFinal
  <2> QED BY <2>1, <2>2 DEF SlotInvariant, SlotsFit
<1>2. DeviceInvariant /\ SlotInvariant /\ [DeviceNext]_deviceVars => SlotInvariant'
  BY SlotStep DEF DeviceInvariant
<1>3. DeviceInvariant /\ SlotInvariant => WastedOnlyByLoss
  <2>1. ASSUME DeviceInvariant, SlotInvariant, NEW c \in Process,
               granted[c] # None, client[c].stage = "ended"
        PROVE  client[c].why \in {"lost", "quit", "unsaved", "enrolled"}
    <3>1. client[c].why \notin {"none", "busy", "denied"}
      BY <2>1 DEF SlotInvariant, SlotsFit, Settled, Spent
    <3>2. client[c] \in ClientRecord
      BY <2>1 DEF DeviceInvariant, DeviceTypes, DeviceTypeOK, ClientRecord
    <3> QED BY <3>1, <3>2 DEF ClientRecord
  <2> QED BY <2>1 DEF WastedOnlyByLoss
<1> QED BY <1>1, <1>2, <1>3, DeviceInvariantHolds, PTL DEF DeviceSpec
=============================================================================
