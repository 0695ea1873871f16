-------------------------- MODULE DeviceEnrollment --------------------------
(***************************************************************************)
(* `urspace connect NAME`: processes that enroll one named device with an  *)
(* invitation, or resume it, and the host they do it with (connect_site in *)
(* crates/urspace-host/src/main.rs, enroll, resume_inner, authorize and    *)
(* save_session in native_client.rs, authorize_connection in lib.rs, the   *)
(* signed grants and proofs of urspace-protocol).                          *)
(*                                                                         *)
(* Every message of the handshake is a step of its own.  Processes may be  *)
(* started at once, be killed and time out anywhere; the host may restart, *)
(* and be set up differently.  The host's registry is the ledger that      *)
(* CapabilityRegistry is shown to implement, so a restart leaves it alone. *)
(*                                                                         *)
(* A process that enrolls makes its key and is given a session id, and     *)
(* every process has a transport endpoint of its own: all three stand for  *)
(* the process here.  A signature is what was signed, and proves nothing   *)
(* else.  Left out: the origin label, what a mount carries, and --listen   *)
(* on a resume, which replaces the saved port by another one.              *)
(***************************************************************************)
EXTENDS Naturals, FiniteSets

CONSTANTS
  Process,
  Invite, Limit,  \* invitations, and how many sessions each admits
  AllowTcp,       \* the invitations that allow TCP
  Issuer, First,  \* identity, route, origin and entry path a host may have,
                  \* and what it has at first
  None,
  MaxFaults       \* bound: timeouts, kills, busy ports and restarts

\* SessionGrantPayload; its signer is the issuer, and it does not expire.
Grant == [session : Process, invite : Invite, issuer : Issuer]

Transport == {"web", "tcp"}

\* What device.json holds
StoredSession == [grant : Grant, transport : Transport]

ASSUME DeviceAssumption ==
  /\ None \notin Process \cup Invite \cup Issuer \cup Grant \cup StoredSession
  /\ First \in Issuer
  /\ Limit \in [Invite -> Nat]
  /\ AllowTcp \subseteq Invite
  /\ MaxFaults \in Nat

VARIABLES
  known, open, granted, denied,  \* the ledger
  endpoint, \* endpoint[s]: the process that proved session s last, or None
  issuer,   \* what the host signs with, and puts into grants
  wire,     \* wire[c]: the message under way between c and the host
  task,     \* task[c]: the host's handler of c's connection
  left,     \* handlers whose connection was left by its process, and which
            \* have the proof, or have granted the session
  file,     \* device.json: None, or what the winner saved
  client,   \* client[c]: where process c is
  faults,   \* counter for the bound
  moved     \* history: the host has been set up differently

Ledger == INSTANCE AuthorizationLedger WITH Session <- Process
ledgerVars == <<known, open, granted, denied>>
recordVars == <<ledgerVars, endpoint>>
hostVars == <<recordVars, issuer, task, left, moved>>
deviceVars == <<hostVars, wire, file, client, faults>>

\* SessionProofPayload
Proof == [purpose : {"admit", "resume"}, session : Process, grant : Grant \cup {None}]

Message ==
  [type : {"closed", "idle"}]
    \cup [type : {"denied"}, late : BOOLEAN]
    \cup [type : {"admit"}, invite : Invite]
    \cup [type : {"resume"}, grant : Grant]
    \cup [type : {"challenge"}, session : Process]
    \cup [type : {"proof"}, signed : Proof]
    \cup [type : {"granted"}, grant : Grant]

(***************************************************************************)
(* binding:     TcpListener::bind, before the handshake                    *)
(* dialing:     bind_endpoint, connect        handshaking: authorize       *)
(* saving, linking: save_session              listening:   binds afterwards*)
(* open:        the gateway or the mount serves                            *)
(***************************************************************************)
Stage == {"off", "binding", "dialing", "handshaking", "saving", "linking",
          "listening", "open", "ended"}

Unstarted == [stage |-> "off", transport |-> "web", invite |-> None, grant |-> None,
              port |-> "none", mounted |-> FALSE, why |-> "none"]
NoHandler == [at |-> "none", hello |-> [type |-> "idle"]]
Handler == [by : Process, at : {"proved", "granted"}, hello : Message]
Closed == [type |-> "closed"]
Read == [type |-> "idle"]

\* port: the one device.json names, or one of its own
DeviceTypeOK ==
  /\ endpoint \in [Process -> Process \cup {None}]
  /\ issuer \in Issuer
  /\ wire \in [Process -> Message]
  /\ task \in [Process -> [at : {"none", "challenged", "granted", "serving"},
                           hello : Message]]
  /\ left \subseteq Handler
  /\ file \in StoredSession \cup {None}
  /\ client \in [Process ->
       [stage : Stage, transport : Transport, invite : Invite \cup {None},
        grant : Grant \cup {None}, port : {"none", "own", "saved"}, mounted : BOOLEAN,
        why : {"none", "enrolled", "unsaved", "busy", "lost", "denied", "quit"}]]
  /\ \A c \in Process : task[c].at # "none" => wire[c] # Closed

DeviceInit ==
  /\ Ledger!Init
  /\ endpoint = [c \in Process |-> None]
  /\ issuer = First
  /\ wire = [c \in Process |-> Closed]
  /\ task = [c \in Process |-> NoHandler]
  /\ left = {}
  /\ file = None
  /\ client = [c \in Process |-> Unstarted]
  /\ faults = 0
  /\ moved = FALSE

Fault == faults < MaxFaults /\ faults' = faults + 1
Enrolls(c) == client[c].invite # None
Puts(c, message) == wire' = [wire EXCEPT ![c] = message]
Moves(c, stage) == client' = [client EXCEPT ![c].stage = stage]

\* The payload the host composes to verify the signature
Expected(c) ==
  LET hello == task[c].hello IN
  IF hello.type = "admit"
  THEN [purpose |-> "admit", session |-> c, grant |-> None]
  ELSE [purpose |-> "resume", session |-> hello.grant.session, grant |-> hello.grant]

\* verify_session_proof
ProofIsValid(c) == wire[c].signed = Expected(c)

(***************************************************************************)
(* The handler of a connection that c leaves goes on until it notices.  It *)
(* still matters when it has the proof, or has granted the session; any    *)
(* other one waits in vain, or serves nobody.  Two that are alike count as *)
(* one.                                                                    *)
(***************************************************************************)
Outlives(c) ==
  {h \in {[by |-> c, at |-> at, hello |-> task[c].hello] : at \in {"proved", "granted"}} :
     IF h.at = "granted" THEN task[c].at = "granted"
     ELSE task[c].at = "challenged" /\ wire[c].type = "proof" /\ ProofIsValid(c)}

\* Mutant of Hangs: the handler is taken for that of the next connection.
HangsUp(c) == Puts(c, Closed) /\ UNCHANGED <<task, left>>

\* c closes its connection, or is gone.
Hangs(c) ==
  /\ Puts(c, Closed)
  /\ task' = [task EXCEPT ![c] = NoHandler]
  /\ left' = left \cup Outlives(c)

\* A mount whose call failed stays; any other process returns the error.
Fails(c, why) ==
  /\ Hangs(c)
  /\ client' = [client EXCEPT ![c] =
       IF @.mounted THEN [@ EXCEPT !.stage = "open"]
                    ELSE [@ EXCEPT !.stage = "ended", !.port = "none", !.why = why]]
  /\ UNCHANGED <<recordVars, issuer, moved, file>>

-----------------------------------------------------------------------------
(* The process: connect_site *)

\* With an invitation, the device must not be enrolled yet.
StartEnroll(c, i, transport) ==
  /\ client[c].stage = "off"
  /\ i \in known
  /\ file = None
  /\ client' = [client EXCEPT ![c] =
       [Unstarted EXCEPT !.stage = "binding", !.transport = transport, !.invite = i]]
  /\ UNCHANGED <<hostVars, wire, file, faults>>

\* Without one it must be; a mount given a port of its own binds it first.
StartResume(c, ownPort) ==
  /\ client[c].stage = "off"
  /\ file # None
  /\ client' = [client EXCEPT ![c] =
       IF ownPort THEN [Unstarted EXCEPT !.stage = "binding", !.transport = "tcp"]
       ELSE [Unstarted EXCEPT !.stage = "dialing", !.transport = file.transport,
                              !.grant = file.grant]]
  /\ UNCHANGED <<hostVars, wire, file, faults>>

Bind(c) ==
  /\ client[c].stage = "binding"
  /\ client' = [client EXCEPT ![c].stage = "dialing", ![c].port = "own",
                             ![c].grant = IF Enrolls(c) THEN None ELSE file.grant]
  /\ UNCHANGED <<hostVars, wire, file, faults>>

PortIsBusy(c) ==
  /\ client[c].stage \in {"binding", "listening"}
  /\ Fault
  /\ Fails(c, "busy")

\* Mutant of Dial: a mount does not connect again.
DialOnce(c) ==
  /\ client[c].stage = "dialing"
  /\ Moves(c, "handshaking")
  /\ Puts(c, IF client[c].grant = None
             THEN [type |-> "admit", invite |-> client[c].invite]
             ELSE [type |-> "resume", grant |-> client[c].grant])
  /\ UNCHANGED <<hostVars, file, faults>>

\* An open mount whose connection is closed does the same on its next call.
Dial(c) ==
  /\ \/ client[c].stage = "dialing"
     \/ client[c].stage = "open" /\ wire[c] = Closed
  /\ Moves(c, "handshaking")
  /\ Puts(c, IF client[c].grant = None
             THEN [type |-> "admit", invite |-> client[c].invite]
             ELSE [type |-> "resume", grant |-> client[c].grant])
  /\ UNCHANGED <<hostVars, file, faults>>

\* What c signs with the key of its session
ProofOf(c, session) ==
  [purpose |-> IF client[c].grant = None THEN "admit" ELSE "resume",
   session |-> session, grant |-> client[c].grant]

\* authorize; a challenge for another session than the saved one is an error.
SendProof(c) ==
  /\ client[c].stage = "handshaking"
  /\ wire[c].type = "challenge"
  /\ client[c].grant # None => wire[c].session = client[c].grant.session
  /\ Puts(c, [type |-> "proof", signed |-> ProofOf(c, wire[c].session)])
  /\ UNCHANGED <<hostVars, file, client, faults>>

\* Mutant of Onwards: the port of a new device is bound when it is admitted.
OnwardsUnbound(c) == IF client[c].mounted THEN "open" ELSE "listening"

\* Where a process goes on when it has its grant.
Onwards(c) ==
  IF client[c].mounted \/ (client[c].port = "own" /\ ~Enrolls(c)) THEN "open"
  ELSE IF Enrolls(c) THEN "saving" ELSE "listening"

\* The grant must name the key, the session and the invitation c asked for.
IsAsked(c, grant) ==
  IF client[c].grant = None
  THEN grant.session = c /\ grant.invite = client[c].invite
  ELSE grant.session = client[c].grant.session /\ grant.invite = client[c].grant.invite

\* A resumed process keeps the new grant in memory, and leaves the file alone.
ReadGrant(c) ==
  /\ client[c].stage = "handshaking"
  /\ wire[c].type = "granted"
  /\ IsAsked(c, wire[c].grant)
  /\ Puts(c, Read)
  /\ client' = [client EXCEPT ![c].grant = wire[c].grant, ![c].stage = Onwards(c),
                             ![c].mounted = @ \/ Onwards(c) = "open"]
  /\ UNCHANGED <<hostVars, file, faults>>

\* A denial, a closed connection, or one of the time limits
GiveUp(c) ==
  /\ client[c].stage = "handshaking"
  /\ \/ /\ wire[c].type = "denied"
        /\ Fails(c, IF wire[c].late THEN "lost" ELSE "denied")
        /\ UNCHANGED faults
     \/ wire[c] = Closed /\ Fails(c, "lost") /\ UNCHANGED faults
     \/ Fault /\ Fails(c, "lost")

\* save_session: the directory, and the check
CheckFile(c) ==
  /\ client[c].stage = "saving"
  /\ IF file # None
     THEN Fails(c, "enrolled")
     ELSE Moves(c, "linking") /\ UNCHANGED <<hostVars, wire, file>>
  /\ UNCHANGED faults

Saved(c) == [grant |-> client[c].grant, transport |-> client[c].transport]

\* Mutant of Link: the temporary file is renamed.
LinkOver(c) ==
  /\ client[c].stage = "linking"
  /\ file' = Saved(c)
  /\ client' = [client EXCEPT ![c].stage = "open", ![c].mounted = TRUE]
  /\ UNCHANGED <<hostVars, wire, faults>>

\* hard_link installs the file unless there is one.
Link(c) ==
  /\ client[c].stage = "linking"
  /\ IF file # None
     THEN Fails(c, "enrolled")
     ELSE /\ file' = Saved(c)
          /\ client' = [client EXCEPT ![c].stage = "open", ![c].mounted = TRUE]
          /\ UNCHANGED <<hostVars, wire>>
  /\ UNCHANGED faults

\* The directory, the temporary file or the link cannot be made ...
CannotSave(c) ==
  /\ client[c].stage \in {"saving", "linking"}
  /\ Fault
  /\ Fails(c, "unsaved")

\* ... or the file is there, and set_permissions fails.
SavesInVain(c) ==
  /\ client[c].stage = "linking" /\ file = None
  /\ Fault
  /\ Hangs(c)
  /\ file' = Saved(c)
  /\ client' = [client EXCEPT ![c].stage = "ended", ![c].port = "none", ![c].why = "unsaved"]
  /\ UNCHANGED <<recordVars, issuer, moved>>

HasSavedPort(d) ==
  \/ client[d].port = "saved"
  \/ client[d].port = "own" /\ Enrolls(d) /\ file.grant.session = d

\* A process resumed without a port of its own binds the saved one.
Listen(c) ==
  /\ client[c].stage = "listening"
  /\ IF \E d \in Process \ {c} : HasSavedPort(d)
     THEN Fails(c, "busy")
     ELSE /\ client' = [client EXCEPT ![c].stage = "open", ![c].port = "saved",
                                      ![c].mounted = TRUE]
          /\ UNCHANGED <<hostVars, wire, file>>
  /\ UNCHANGED faults

\* Ctrl+C, or the process is killed; it leaves device.json, or none.
Quit(c) ==
  /\ client[c].stage \notin {"off", "ended"}
  /\ \/ client[c].stage = "open" /\ UNCHANGED faults
     \/ Fault
  /\ Hangs(c)
  /\ client' = [client EXCEPT ![c] = [Unstarted EXCEPT !.stage = "ended", !.why = "quit",
                                       !.invite = client[c].invite]]
  /\ UNCHANGED <<recordVars, issuer, moved, file>>

-----------------------------------------------------------------------------
(* The host: authorize_connection, and what its operator does *)

Tunnel(c) == client[c].transport = "tcp"

\* can_admit and can_admit_tcp
Admits(c, i) ==
  /\ i \in open
  /\ Cardinality(Ledger!Through(i)) < Limit[i]
  /\ Tunnel(c) => i \in AllowTcp

\* validate_grant_record
InGoodStanding(grant) ==
  granted[grant.session] = grant.invite /\ grant.session \notin denied

Challenge(c, session) ==
  /\ Puts(c, [type |-> "challenge", session |-> session])
  /\ task' = [task EXCEPT ![c] = [at |-> "challenged", hello |-> wire[c]]]

Deny(c, late) ==
  /\ Puts(c, [type |-> "denied", late |-> late])
  /\ task' = [task EXCEPT ![c] = NoHandler]

HostSame == UNCHANGED <<issuer, left, moved, file, client>>

\* The grant must be of this very issuer.
IsOfHost(grant) == grant.issuer = issuer

\* Mutant of CanResume: an invitation that is closed resumes nobody.
CanResumeOpen(c, grant) ==
  IsOfHost(grant) /\ InGoodStanding(grant) /\ grant.invite \in open

\* prepare_authorization; can_resume, can_resume_tcp
CanResume(c, grant) ==
  /\ IsOfHost(grant)
  /\ InGoodStanding(grant)
  /\ Tunnel(c) => grant.invite \in AllowTcp

HostHello(c) ==
  /\ \/ /\ wire[c].type = "admit"
        /\ IF Admits(c, wire[c].invite) THEN Challenge(c, c) ELSE Deny(c, FALSE)
     \/ /\ wire[c].type = "resume"
        /\ IF CanResume(c, wire[c].grant)
           THEN Challenge(c, wire[c].grant.session) ELSE Deny(c, FALSE)
  /\ UNCHANGED <<recordVars, faults>>
  /\ HostSame

\* issue_grant, sign_session_grant
SignedGrant(session, invite) == [session |-> session, invite |-> invite, issuer |-> issuer]

\* The record names the endpoint of c from now on.
Grants(c, session, invite) ==
  /\ endpoint' = [endpoint EXCEPT ![session] = c]
  /\ Puts(c, [type |-> "granted", grant |-> SignedGrant(session, invite)])
  /\ task' = [task EXCEPT ![c].at = "granted"]

\* Mutant of AdmitSession: the answer does not wait for the registry.
AdmitSessionAnyway(c, i) ==
  /\ Grants(c, c, i)
  /\ Ledger!Grant(c, i) \/ UNCHANGED ledgerVars

\* admit and admit_tcp check again, now that the proof is there.
AdmitSession(c, i) ==
  IF Admits(c, i)
  THEN Ledger!Grant(c, i) /\ Grants(c, c, i)
  ELSE Deny(c, FALSE) /\ UNCHANGED recordVars

ResumeSession(c, grant) ==
  /\ IF InGoodStanding(grant)
     THEN Grants(c, grant.session, grant.invite)
     ELSE Deny(c, FALSE) /\ UNCHANGED endpoint
  /\ UNCHANGED ledgerVars

HostProof(c) ==
  LET hello == task[c].hello IN
  /\ wire[c].type = "proof"
  /\ ProofIsValid(c)
  /\ IF hello.type = "admit" THEN AdmitSession(c, hello.invite)
     ELSE ResumeSession(c, hello.grant)
  /\ UNCHANGED faults
  /\ HostSame

\* The challenge has expired, or the journal cannot be written.
HostRefuses(c) ==
  /\ wire[c].type = "proof"
  /\ Fault
  /\ Deny(c, TRUE)
  /\ UNCHANGED recordVars
  /\ HostSame

\* The session that c asks for with a hello
SessionIn(c, hello) == IF hello.type = "admit" THEN c ELSE hello.grant.session
SessionOf(c) == SessionIn(c, task[c].hello)

\* The handlers of a set of connections end, and so do these.
Drops(connections) ==
  /\ wire' = [d \in Process |-> IF d \in connections THEN Closed ELSE wire[d]]
  /\ task' = [d \in Process |-> IF d \in connections THEN NoHandler ELSE task[d]]

Registered(session) ==
  {d \in Process : task[d].at = "serving" /\ SessionOf(d) = session}

\* The session may be served at the endpoint of c (session_is_active).
MayServe(c, session) == session \notin denied /\ endpoint[session] = c
IsActive(c) == MayServe(c, SessionOf(c))

\* session_connected: the earlier connection of the session is closed.
Register(c) ==
  /\ task[c].at = "granted"
  /\ IF ~IsActive(c)
     THEN Drops({c})
     ELSE LET replaced == Registered(SessionOf(c)) IN
          /\ wire' = [d \in Process |-> IF d \in replaced THEN Closed ELSE wire[d]]
          /\ task' = [d \in Process |-> IF d \in replaced THEN NoHandler
                       ELSE IF d = c THEN [task[c] EXCEPT !.at = "serving"] ELSE task[d]]
  /\ UNCHANGED <<recordVars, faults>>
  /\ HostSame

(***************************************************************************)
(* What a handler does that has not noticed the end of its connection: it  *)
(* finalizes, and session_connected closes the connection the session has, *)
(* also one the same process has made since.  Its answer is lost.          *)
(***************************************************************************)
LateProof(h) ==
  LET session == SessionIn(h.by, h.hello) IN
  /\ h.at = "proved"
  /\ IF h.hello.type = "admit"
     THEN Admits(h.by, h.hello.invite) /\ Ledger!Grant(session, h.hello.invite)
     ELSE InGoodStanding(h.hello.grant) /\ UNCHANGED ledgerVars
  /\ endpoint' = [endpoint EXCEPT ![session] = h.by]
  /\ left' = (left \ {h}) \cup {[h EXCEPT !.at = "granted"]}
  /\ UNCHANGED <<issuer, task, moved, wire, file, client, faults>>

LateRegister(h) ==
  LET session == SessionIn(h.by, h.hello) IN
  /\ h.at = "granted" /\ MayServe(h.by, session)
  /\ Drops(Registered(session))
  /\ left' = left \ {h}
  /\ UNCHANGED <<recordVars, issuer, moved, file, client, faults>>

\* It is refused, or notices.
LateEnds(h) ==
  /\ left' = left \ {h}
  /\ UNCHANGED <<recordVars, issuer, task, moved, wire, file, client, faults>>

Mint(i) ==
  /\ Ledger!Issue(i)
  /\ UNCHANGED <<endpoint, issuer, task, left, moved, wire, file, client, faults>>

Close(i) ==
  /\ i \in open
  /\ Ledger!Withdraw({i}, {})
  /\ UNCHANGED <<endpoint, issuer, task, left, moved, wire, file, client, faults>>

Kick(session) ==
  /\ granted[session] # None
  /\ session \notin denied
  /\ Ledger!Withdraw({}, {session})
  /\ Drops(Registered(session))
  /\ UNCHANGED <<endpoint, issuer, left, moved, file, client, faults>>

Restart(other) ==
  /\ Fault
  /\ issuer' = other
  /\ moved' = (moved \/ other # issuer)
  /\ Drops(Process)
  /\ left' = {}
  /\ UNCHANGED <<recordVars, file, client>>

-----------------------------------------------------------------------------

Connect(c) ==
  \/ Bind(c) \/ Dial(c) \/ SendProof(c) \/ ReadGrant(c) \/ GiveUp(c)
  \/ CheckFile(c) \/ Link(c) \/ Listen(c)

Serve(c) == HostHello(c) \/ HostProof(c) \/ Register(c)

DeviceNext ==
  \/ \E c \in Process :
       \/ \E i \in Invite, transport \in Transport : StartEnroll(c, i, transport)
       \/ \E ownPort \in BOOLEAN : StartResume(c, ownPort)
       \/ Connect(c) \/ PortIsBusy(c) \/ CannotSave(c) \/ SavesInVain(c) \/ Quit(c)
       \/ Serve(c) \/ HostRefuses(c) \/ Kick(c)
  \/ \E h \in left : LateProof(h) \/ LateRegister(h) \/ LateEnds(h)
  \/ \E i \in Invite : Mint(i) \/ Close(i)
  \/ \E other \in Issuer : Restart(other)

(***************************************************************************)
(* Every wait of a process has a time limit, the host answers, and calls   *)
(* keep coming to an open mount.                                           *)
(***************************************************************************)
DeviceFairness ==
  \A c \in Process : WF_deviceVars(Connect(c)) /\ WF_deviceVars(Serve(c))

DeviceSpec == DeviceInit /\ [][DeviceNext]_deviceVars /\ DeviceFairness

-----------------------------------------------------------------------------
(* Properties *)

(***************************************************************************)
(* Of several enrollments under one name one wins: its file is not         *)
(* replaced, and no other process goes on as if the device were its own    *)
(* (save_session checks for the file, writes a temporary one, and links).  *)
(***************************************************************************)
OpenIsSaved ==
  \A c \in Process :
    client[c].mounted /\ Enrolls(c) => file # None /\ file.grant.session = c

(***************************************************************************)
(* What is saved is known to the host, for ever: an enrollment that is     *)
(* reported, or only half reported, is one the host can resume.            *)
(***************************************************************************)
FileIsGranted ==
  file # None => granted[file.grant.session] = file.grant.invite

(***************************************************************************)
(* A slot of an invitation is spent on a session that nobody has saved     *)
(* only when the answer is lost, the process is killed, its file cannot be *)
(* written, or another process has enrolled: a busy port, a closed or a    *)
(* full invitation are noticed before the host admits anybody              *)
(* (connect_site binds before it enrolls).                                 *)
(***************************************************************************)
WastedOnlyByLoss ==
  \A c \in Process :
    granted[c] # None /\ client[c].stage = "ended" /\ ~(file # None /\ file.grant.session = c)
      => client[c].why \in {"lost", "quit", "unsaved", "enrolled"}

(***************************************************************************)
(* "The native device stays enrolled across client restarts until the host *)
(* kicks its session" (README.md:244), whatever happens to the invitation: *)
(* a process that resumes is refused only when the session was kicked, TCP *)
(* was not allowed, or the host was set up differently.                    *)
(***************************************************************************)
EnrolledUntilKicked ==
  \A c \in Process :
    client[c].why = "denied" /\ ~Enrolls(c)
      => \/ moved
         \/ file.grant.session \in denied
         \/ Tunnel(c) /\ file.grant.invite \notin AllowTcp

\* The host may not resume c.
Refused(c) == moved \/ (client[c].grant # None /\ client[c].grant.session \in denied)

\* Another process of the same device is at it.
Contended(c) ==
  \E d \in Process \ {c} :
    client[d].stage = "handshaking" /\ client[d].grant # None
      /\ client[d].grant = client[c].grant

(***************************************************************************)
(* A mount whose connection was closed, by a restart of the host or in any *)
(* other way, is connected again, unless it may not be.  Two processes of  *)
(* one device are an exception: session_connected closes the other's       *)
(* connection, and while they take turns at it neither need get through    *)
(* its handshake.                                                          *)
(***************************************************************************)
MountsReturn ==
  \A c \in Process :
    (client[c].stage = "open" /\ wire[c] = Closed)
      ~> \/ client[c].stage = "open" /\ wire[c] = Read
         \/ client[c].stage = "ended"
         \/ Refused(c) \/ Contended(c)

(***************************************************************************)
(* "After receiving the proof, it rechecks the record atomically and       *)
(* replaces any older live connection for that session"                    *)
(* (docs/session-grants.md:127): a connection of a session that has moved  *)
(* to another endpoint is closed, and does not live on with every request  *)
(* refused.  The record is changed by resume, and the connection closed by *)
(* session_connected, after the answer was sent.                           *)
(***************************************************************************)
MovedIsReplaced ==
  \A c \in Process :
    (task[c].at = "serving" /\ ~IsActive(c)) ~> task[c].at # "serving"
=============================================================================
