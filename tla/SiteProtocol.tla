---------------------------- MODULE SiteProtocol ----------------------------
(***************************************************************************)
(* One task per accepted connection, all sharing one CapabilityRegistry:   *)
(* the authorization handshake (authorize_connection), registration of the *)
(* connection (session_connected), serving its streams (serve_request,     *)
(* serve_tcp_tunnel, serve_loopback_socket) and deregistration.            *)
(* SiteProtocol serves the site ALPN; TunnelProtocol is the same handler   *)
(* over the same registry with the TCP conditions added.                   *)
(*                                                                         *)
(* Every await in the handler is a boundary between two actions: the host  *)
(* can kick, revoke, close or crash at each of them.                       *)
(*                                                                         *)
(* A connection is used once.  Its remote endpoint and its ALPN are fixed, *)
(* hence constants.  Signatures, nonces and the fields the proof binds are *)
(* not modelled: an invalid or late proof is ProofRejected.                *)
(***************************************************************************)
EXTENDS CapabilityRegistry

CONSTANTS
  EndpointOf,       \* EndpointOf[c]: connection.remote_id()
  TunnelConnection  \* the connections that use TUNNEL_ALPN

ASSUME ConnectionAssumption ==
  /\ EndpointOf \in [Connection -> Endpoint]
  /\ TunnelConnection \subseteq Connection

VARIABLES
  conn,   \* where the task of each connection is
  shut,   \* connections the transport has closed, from either side
  work,   \* the stream in progress on each connection
  queued, \* connections whose accept loop holds a stream and waits for a permit
  held    \* sessions whose grant has been written to a browser

protocolVars == <<conn, shut, work, queued, held>>
siteVars == <<vars, protocolVars>>

(***************************************************************************)
(* A connection has one permit here: it stands for the last of the         *)
(* MAX_CONCURRENT_REQUESTS_PER_CONNECTION, the others being in use.        *)
(*                                                                         *)
(* checked: authorized, the request is being read                          *)
(* http:    the application has been asked, and answers when it likes      *)
(* stalled: of a tunnel or a WebSocket, waiting for the application: to be *)
(*          connected to it, to have it read, or, of a tunnel whose client *)
(*          sends no more, to have it end                                  *)
(* tunnel, socket: bytes or messages are copied both ways                  *)
(* parting: a revoked WebSocket, waiting for the application to read the   *)
(*          message that closes it                                         *)
(***************************************************************************)
Work == {"none", "checked", "http", "stalled", "tunnel", "socket", "parting"}

\* What only the application can end.  None of these has a time limit, and
\* none looks at the connection or asks the registry meanwhile.
Waits == {"http", "stalled", "parting"}

(***************************************************************************)
(* fresh:      not accepted yet                                            *)
(* challenged: the hello was acceptable; waiting for the proof             *)
(* finalized:  the registry has admitted or resumed the session            *)
(* granted:    the reply has been written; session_connected comes next    *)
(* serving:    in the accept_bi loop                                       *)
(* ended:      the handler has returned                                    *)
(***************************************************************************)
Phase == {"fresh", "challenged", "finalized", "granted", "serving", "ended"}

\* invite is None for PendingAuthorization::Resume.
Task == [phase : Phase, invite : Invite \cup {None}, session : Session \cup {None}]

SiteTypeOK ==
  /\ TypeOK
  /\ conn \in [Connection -> Task]
  /\ shut \in SUBSET Connection
  /\ work \in [Connection -> Work]
  /\ queued \in SUBSET Connection
  /\ held \in SUBSET Session

NoTask == [phase |-> "fresh", invite |-> None, session |-> None]

SiteInit ==
  /\ Init
  /\ conn = [c \in Connection |-> NoTask]
  /\ shut = {}
  /\ work = [c \in Connection |-> "none"]
  /\ queued = {}
  /\ held = {}

MoveTo(c, phase) == conn' = [conn EXCEPT ![c].phase = phase]

\* The handler returns; dropping the last handle closes the connection.
Return(c) ==
  /\ MoveTo(c, "ended")
  /\ shut' = shut \cup {c}

-----------------------------------------------------------------------------
(* Handshake *)

\* Uuid::new_v4() for the session a browser asks to open.
UnusedSession(s) ==
  /\ s \in NewSessions
  /\ \A c \in Connection : conn[c].session # s

(***************************************************************************)
(* prepare_authorization for an Admit hello.  can_admit, the allow_tcp     *)
(* check and require_subject take the mutex one after the other; the last  *)
(* two read attributes that never change, so one step stands for them.     *)
(***************************************************************************)
HelloAdmit(c, i, s) ==
  /\ up
  /\ conn[c].phase = "fresh" /\ c \notin shut
  /\ InviteAdmits(i)
  /\ c \in TunnelConnection => i \in AllowTcp
  /\ UnusedSession(s)
  /\ <<i, s>> \in SubjectMatches
  /\ conn' = [conn EXCEPT ![c] = [phase |-> "challenged", invite |-> i, session |-> s]]
  /\ UNCHANGED <<vars, shut, work, queued, held>>

\* prepare_authorization for a Resume hello with the grant of session s
HelloResume(c, s) ==
  /\ up
  /\ conn[c].phase = "fresh" /\ c \notin shut
  /\ s \in held
  /\ CanResume(s)
  /\ c \in TunnelConnection => live.home[s] \in AllowTcp
  /\ conn' = [conn EXCEPT ![c] = [phase |-> "challenged", invite |-> None, session |-> s]]
  /\ UNCHANGED <<vars, shut, work, queued, held>>

\* A denied or malformed hello: the handler answers and returns.
HelloDenied(c) ==
  /\ up
  /\ conn[c].phase = "fresh"
  /\ Return(c)
  /\ UNCHANGED <<vars, work, queued, held>>

\* finalize: the registry checks everything again, for the current time.
ProveAdmit(c) ==
  LET i == conn[c].invite
      s == conn[c].session IN
  /\ conn[c].phase = "challenged" /\ i # None
  /\ IF c \in TunnelConnection
     THEN AdmitTcp(i, s, EndpointOf[c])
     ELSE Admit(i, s, EndpointOf[c])
  /\ MoveTo(c, "finalized")
  /\ UNCHANGED <<shut, work, queued, held>>

ProveResume(c) ==
  /\ conn[c].phase = "challenged" /\ conn[c].invite = None
  /\ Resume(conn[c].session, EndpointOf[c])
  /\ MoveTo(c, "finalized")
  /\ UNCHANGED <<shut, work, queued, held>>

(***************************************************************************)
(* The proof does not verify, the challenge has expired, the connection    *)
(* broke, or the registry denies: nothing is granted.                      *)
(***************************************************************************)
ProofRejected(c) ==
  /\ up
  /\ conn[c].phase = "challenged"
  /\ Return(c)
  /\ UNCHANGED <<vars, work, queued, held>>

\* sign_session_grant fails: the session just admitted or resumed is kicked.
IssueFails(c) ==
  /\ conn[c].phase = "finalized"
  /\ IF conn[c].session \in Unkicked(live) THEN Kick(conn[c].session) ELSE UNCHANGED vars
  /\ Return(c)
  /\ UNCHANGED <<work, queued, held>>

\* Mutant of WriteReply: the reply is written before the registry has decided.
WriteReplyEarly(c) ==
  /\ up
  /\ conn[c].phase \in {"challenged", "finalized"} /\ c \notin shut
  /\ MoveTo(c, "granted")
  /\ held' \in {held, held \cup {conn[c].session}}
  /\ UNCHANGED <<vars, shut, work, queued>>

(***************************************************************************)
(* write_frame(Granted): the reply is handed to the transport, and the     *)
(* browser may or may not come to read it.                                 *)
(***************************************************************************)
WriteReply(c) ==
  /\ up
  /\ conn[c].phase = "finalized" /\ c \notin shut
  /\ MoveTo(c, "granted")
  /\ held' \in {held, held \cup {conn[c].session}}
  /\ UNCHANGED <<vars, shut, work, queued>>

\* The reply cannot be written: `?' leaves before session_connected.
ReplyFails(c) ==
  /\ up
  /\ conn[c].phase = "finalized" /\ c \in shut
  /\ Return(c)
  /\ UNCHANGED <<vars, work, queued, held>>

-----------------------------------------------------------------------------
(* Serving *)

Connected(c) ==
  /\ conn[c].phase = "granted"
  /\ SessionConnected(conn[c].session, EndpointOf[c], c)
  /\ MoveTo(c, "serving")
  /\ UNCHANGED <<shut, work, queued, held>>

\* The loop is in accept_bi, not waiting for a permit, and accept_bi fails.
Disconnected(c) ==
  /\ conn[c].phase = "serving" /\ c \in shut \ queued
  /\ SessionDisconnected(conn[c].session, c)
  /\ Return(c)
  /\ UNCHANGED <<work, queued, held>>

Authorized(c) == SessionIsActive(conn[c].session, EndpointOf[c])

\* A stream is accepted and the registry consulted, before anything is read.
StreamChecked(c) ==
  /\ up
  /\ conn[c].phase = "serving" /\ c \notin shut \cup queued
  /\ work[c] = "none"
  /\ Authorized(c)
  /\ work' = [work EXCEPT ![c] = "checked"]
  /\ UNCHANGED <<vars, conn, shut, queued, held>>

\* A stream is accepted, and every permit is in use.
StreamWaits(c) ==
  /\ up
  /\ conn[c].phase = "serving" /\ c \notin shut \cup queued
  /\ work[c] # "none"
  /\ queued' = queued \cup {c}
  /\ UNCHANGED <<vars, conn, shut, work, held>>

\* Mutant of QueuedStreamRuns: a permit that is free again wakes nobody.
QueuedStreamForgotten(c) == FALSE /\ UNCHANGED siteVars

\* A permit is free again; an unauthorized stream is answered and done.
QueuedStreamRuns(c) ==
  /\ up
  /\ c \in queued /\ work[c] = "none"
  /\ queued' = queued \ {c}
  /\ work' = IF Authorized(c) THEN [work EXCEPT ![c] = "checked"] ELSE work
  /\ UNCHANGED <<vars, conn, shut, held>>

\* The request has been read in full: the application is asked, or connected
\* to for a tunnel or a WebSocket; the registry is not asked again.
StreamStarts(c, kind) ==
  /\ up
  /\ work[c] = "checked" /\ c \notin shut
  /\ kind \in IF c \in TunnelConnection THEN {"stalled"} ELSE {"http", "stalled"}
  /\ work' = [work EXCEPT ![c] = kind]
  /\ UNCHANGED <<vars, conn, shut, queued, held>>

\* The application accepts the connection, or reads on.
StreamFlows(c) ==
  /\ up
  /\ work[c] = "stalled"
  /\ work' = [work EXCEPT ![c] = IF c \in TunnelConnection THEN "tunnel" ELSE "socket"]
  /\ UNCHANGED <<vars, conn, shut, queued, held>>

\* The application does not read what the client sends; or the client has
\* closed its half of a tunnel, which then lasts until the application ends it.
StreamStalls(c) ==
  /\ up
  /\ work[c] \in {"tunnel", "socket"} /\ c \notin shut
  /\ work' = [work EXCEPT ![c] = "stalled"]
  /\ UNCHANGED <<vars, conn, shut, queued, held>>

\* A peer or the application ends the stream, or the request is refused.
StreamEnds(c) ==
  /\ up
  /\ work[c] # "none"
  /\ work' = [work EXCEPT ![c] = "none"]
  /\ UNCHANGED <<vars, conn, shut, queued, held>>

\* Reads and writes on a closed connection fail, which ends every stream but
\* one that waits for the application.
StreamBreaks(c) ==
  /\ c \in shut /\ work[c] \notin Waits
  /\ StreamEnds(c)

\* The once-per-second check of a bridged WebSocket, made while it waits for
\* neither side: the message with 1008 goes to the client and the application.
SocketRevoked(c) ==
  /\ up
  /\ work[c] = "socket"
  /\ ~Authorized(c)
  /\ work' \in {[work EXCEPT ![c] = "none"], [work EXCEPT ![c] = "parting"]}
  /\ UNCHANGED <<vars, conn, shut, queued, held>>

-----------------------------------------------------------------------------
(* Transport, operator, process *)

\* The browser or the network closes a connection.
ConnectionLost(c) ==
  /\ conn[c].phase # "fresh" /\ c \notin shut
  /\ shut' = shut \cup {c}
  /\ UNCHANGED <<vars, conn, work, queued, held>>

HostCloses(c) ==
  /\ CloseConnection(c)
  /\ shut' = shut \cup {c}
  /\ UNCHANGED <<conn, work, queued, held>>

Operator ==
  /\ \/ \E i \in NewInvites : Insert(i)
     \/ Withdrawal
     \/ \E i \in Invite : Expire(i)
  /\ UNCHANGED protocolVars

(***************************************************************************)
(* The process dies with every task and connection it had.  Dying inside   *)
(* an append is one of the two states around it, or leaves a fragment that *)
(* Open removes; CapabilityRegistry covers it.                             *)
(***************************************************************************)
HostCrash ==
  /\ Crash
  /\ conn' = [c \in Connection |->
                IF conn[c].phase = "fresh" THEN conn[c]
                ELSE [conn[c] EXCEPT !.phase = "ended"]]
  /\ shut' = shut \cup {c \in Connection : conn[c].phase # "fresh"}
  /\ work' = [c \in Connection |-> "none"]
  /\ queued' = {}
  /\ UNCHANGED held

HostStart == Open /\ UNCHANGED protocolVars

Handshake(c) ==
  \/ \E i \in Invite, s \in Session : HelloAdmit(c, i, s)
  \/ \E s \in Session : HelloResume(c, s)
  \/ HelloDenied(c)
  \/ ProveAdmit(c) \/ ProveResume(c) \/ ProofRejected(c)
  \/ IssueFails(c) \/ WriteReply(c) \/ ReplyFails(c)

Serving(c) ==
  \/ Connected(c) \/ Disconnected(c)
  \/ StreamChecked(c) \/ StreamWaits(c) \/ QueuedStreamRuns(c)
  \/ StreamFlows(c) \/ StreamStalls(c) \/ StreamEnds(c) \/ SocketRevoked(c)
  \/ \E kind \in {"http", "stalled"} : StreamStarts(c, kind)

SiteNext ==
  \/ \E c \in Connection : Handshake(c) \/ Serving(c)
  \/ \E c \in Connection : ConnectionLost(c) \/ HostCloses(c)
  \/ Operator
  \/ HostCrash \/ HostStart

(***************************************************************************)
(* The runtime runs every task that can run: connection.close() follows    *)
(* the critical section that scheduled it, a free permit is taken, accept  *)
(* loops, and streams that read or write it, notice that their connection  *)
(* is gone, and session_connected follows the reply with no await in       *)
(* between.  Browsers, the operator, the network and the application       *)
(* behind the host owe nothing, and neither does SocketRevoked: a socket   *)
(* is not looked at while one side of it does not read.                    *)
(***************************************************************************)
Fairness ==
  \A c \in Connection :
    /\ WF_siteVars(HostCloses(c))
    /\ WF_siteVars(Connected(c))
    /\ WF_siteVars(Disconnected(c))
    /\ WF_siteVars(QueuedStreamRuns(c))
    /\ WF_siteVars(StreamBreaks(c))

SiteSpec == SiteInit /\ [][SiteNext]_siteVars

FairSiteSpec == SiteSpec /\ Fairness

-----------------------------------------------------------------------------
(* Properties *)

(***************************************************************************)
(* Every open connection that is being served is the one registered for    *)
(* its session, or is about to be closed.  kick and revoke only close what *)
(* they find in `active', so this is what makes them reach every request,  *)
(* WebSocket and tunnel in progress, whatever reconnects, replacements and *)
(* late disconnects came before.                                           *)
(***************************************************************************)
NoOrphanServing ==
  \A c \in Connection :
    conn[c].phase = "serving" /\ c \notin shut \cup closing
      => active[conn[c].session] = c

(***************************************************************************)
(* A browser never holds a grant for a session that a restarted host would *)
(* not know: the admission is in the journal before the reply is written.  *)
(***************************************************************************)
GrantsAreDurable == held \subseteq Admitted(durable)

(***************************************************************************)
(* The checks made for the hello are stale when the proof arrives.  A      *)
(* session is admitted only through an invitation that is open, unexpired  *)
(* and has a slot at that moment (finalize checks everything again).       *)
(***************************************************************************)
AdmissionsAreCurrent ==
  [][up /\ up' =>
       \A s \in Admitted(live') \ Admitted(live) : InviteAdmits(live'.home[s])]_siteVars

(***************************************************************************)
(* A connection that is served without being registered, because its       *)
(* session was kicked, revoked or taken over by another connection, is     *)
(* closed eventually.                                                      *)
(***************************************************************************)
UnregisteredIsClosed ==
  \A c \in Connection :
    (conn[c].phase = "serving" /\ active[conn[c].session] # c) ~> (c \in shut)

\* The application ends or takes whatever waits for it.
ApplicationAnswers == \A c \in Connection : []<>(work[c] \notin Waits)

(***************************************************************************)
(* Requests, tunnels and WebSockets are authorized when they start and can *)
(* last for ever.  Those of a session that was kicked or revoked stop      *)
(* eventually, if the application answers; the host alone ends only those  *)
(* that do not wait for it.                                                *)
(***************************************************************************)
RemovedWorkStops ==
  ApplicationAnswers =>
    \A c \in Connection :
      (work[c] # "none" /\ ~InGoodStanding(live, conn[c].session)) ~> (work[c] = "none")

(***************************************************************************)
(* "list admitted identities and whether each is connected"                *)
(* (docs/cli.md:72): a connection that is gone stops counting as one, if   *)
(* the application answers.  Otherwise the accept loop may wait for a      *)
(* permit for ever, and then it does not notice.                           *)
(***************************************************************************)
GoneIsDisconnected ==
  ApplicationAnswers => \A s \in Session : (active[s] \in shut) ~> (active[s] \notin shut)
=============================================================================
