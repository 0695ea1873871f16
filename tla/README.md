# Urspace: TLA+ models, checks and proofs

Urspace lets a person share a local web application, TCP service or directory
with browsers and devices over iroh, without an account or a public server.
The host decides who may connect. This directory models that decision: who is
admitted, who has been removed, what survives a crash, and which connections
are being served; and around it how a service starts, is controlled and comes
back, and how a device enrolls. It is written from the source under `src/`. Paths below are
relative to `src/`; `lib.rs`, `main.rs` and `service.rs` are those of
`crates/urspace-host/src/`.

- [The system](#the-system)
- [Modules and how they correspond to the code](#modules-and-how-they-correspond-to-the-code)
- [Abstractions](#abstractions)
- [Runs](#runs)
- [Fairness](#fairness)
- [Findings](#findings)
- [Proofs](#proofs)
- [What is only model-checked](#what-is-only-model-checked)
- [What is not modelled](#what-is-not-modelled)
- [Plan](#plan)

## The system

| component | code | state it keeps | operations | status |
|---|---|---|---|---|
| capability registry | `lib.rs` `CapabilityRegistry` | invitations, sessions, served connections, behind one mutex; an append-only journal | insert, admit, resume, close, kick, revoke, connect, disconnect, open | modelled but for handles and labels |
| site and tunnel protocol | `lib.rs` `SiteProtocol`, `TunnelProtocol` | one task per connection and per stream | hello, challenge, proof, grant, serve HTTP, WebSockets, TCP | modelled |
| named service | `main.rs` `run_service`, `ServiceRuntime` | the current invitation | start, invite, kick, kick all, stop | modelled |
| foreground sharing | `main.rs` `serve_protocol`, `operator_console` | the current invitation | invite, kick, kick all | modelled |
| service control | `service.rs` | a control file with address and token per name; one request at a time | claim a name, clear a stale claim, take and answer requests, release | modelled |
| native client | `native_client.rs` | connection, session grant, saved device file | enroll, resume, open a stream, reconnect | modelled |
| browser client | `crates/urspace-browser` | connection, authorization, closed flag | connect, resume, open a stream, close | modelled |
| service worker and pages | `apps/bootstrap/public` | a client, a resume payload, a recovery in flight | arm, hand off, recover, fetch, open a socket | modelled, but for sockets once open |
| service installation | `native_service.rs`, `main.rs` | `service.json`, the identity, `relay.txt`, a launchd or systemd definition | install, start, restart, stop, uninstall | modelled |
| device gateway | `main.rs` `connect_site` | the device file, a local port, mounts | enroll or resume, bind, open, connect again | modelled but for the bytes it forwards |
| short links | `short_link.rs`, `deploy/cloudflare-worker` | one record and one alarm per link | put, get, alarm | not modelled |
| embedded host | `embed.rs` | a registry | mint, kick, shut down | not modelled |
| wire protocol | `crates/urspace-protocol` | none | frame, sign, verify | the session handshake modelled, encodings not |
| bootstrap server, JavaScript package, web site | `crates/urspace-bootstrap`, `packages/client`, `apps/www` | none of their own | | not modelled |

**How they interact.** A browser opens a connection and sends a hello: an
invitation with a new session key, or the grant of a session it was admitted as
before. The protocol handler asks the registry (`can_admit`, `can_resume`),
sends a challenge, waits for a proof, and asks the registry again (`admit`,
`resume`), which now writes the journal. It then signs and sends a grant,
registers the connection (`session_connected`), and accepts streams until the
connection ends (`session_disconnected`). Each stream asks the registry once
more. The operator, through the console or the control listener, changes the
registry from another task at any moment. Several processes of one service meet
only in the file system: the control file that claims the name, and the journal.
The control file also tells `urspace service` where to send its commands.

A service that is installed is started by the supervisor of the operating
system, at login and after failures, and by hand as well. It must come back
with the same identity, relay and settings, because every grant it gave names
them. They are in files that the first start, or the installation, creates.

On the other side, a client keeps one connection for all its calls and replaces
it when it is gone. In a browser the client lives in a service worker, which
the browser may end whenever it is idle. The worker therefore puts what is
needed to resume into every page it serves, and asks the pages for it, or is
handed it by them as they leave, when it has lost its own. A native client keeps
its grant in a device file, which its enrollment writes once and every later
process of the device reads.

**What is hard.**

- Everything a handler learned from the registry is stale after its next
  `await`: the invitation may fill up, close, expire or be revoked, the session
  may be kicked, and another connection of the same session may replace this one.
- Connections are closed after the mutex is released.
- A line may reach the disk in part, or entirely with an error, or entirely
  right before the process dies.
- Rotation is two registry calls with an `await` behind them, and the journal
  does not say which invitation is current.
- Two starts of one service interleave at every file system call.
- Requests, WebSockets and tunnels outlive the check that let them start.
- Calls of a client find the connection broken at the same time, while it is
  being closed, or are dropped in the middle of replacing it.
- A caller gives up while its command waits, is read, or is carried out, and the
  service does not notice.
- The commands of an operator, the supervisor and runs started by hand change
  the same files and processes, and each command is several calls of a tool.
- An enrollment is three records, the host's, the process's and the file's, and
  a process, a message or the host may be lost between any two of them.
- Three asynchronous functions of the service worker write the same globals, and
  each awaits pages, the browser or the host between reading and writing them.

**What makes the components correct.**

- Registry: an invitation never admits more sessions than it was minted for;
  what it withdraws stays withdrawn, across any crash; what is being served can
  be reached by a kick.
- Protocol: a session is admitted only if the invitation allows it at that
  moment; a grant in a browser's hands is known to the host; work of a removed
  session ends.
- Service and console: only the invitation handed out last is open; nobody is
  admitted through what was handed out before a kick.
- Control: one process per name; journal lines survive every start; a dead
  process does not lock its name.
  Commands take effect in the order in which they were given; a Stop stops.
- Installation: whatever is installed, killed or started by hand, browsers keep
  their access; the service comes back after failures, and stays down when it
  was stopped.
- Devices: one enrollment per name, saved once and known to the host; a slot is
  not wasted without a fault; the device works until it is kicked.
- Clients: one connection at a time, replaced only when it is gone; none left
  behind; calls end, however the host behaves.
- Worker: one client at a time; a request fails only when nothing could have
  brought the session back, and it does not wait for ever.

The hazards of the code, each at its line, with the properties that cover them,
are in `PROJECT.json`.

## Modules and how they correspond to the code

```
RegistryEvents               what a journal event means
  CapabilityRegistry         the registry, its journal, crashes      implements AuthorizationLedger
    CapabilityRegistryProofs
    SiteProtocol             connections and their streams
      SiteProtocolProofs
    InviteRotation           what service and console share
      ServiceRuntime
      OperatorConsole
        InviteRotationProofs   of both
AuthorizationLedger          what the registry promises
  DeviceEnrollment           one named device, its file, and the host of that ledger
    DeviceEnrollmentProofs
ServiceControl               the claim on a service name, the shared journal
  ControlRequests            the commands sent to whoever has the name   implements ServiceControl
    ControlRequestsProofs    of both
ManagedService               files, supervisor and commands of an installed service
  ManagedServiceProofs
ReconnectingClient           calls of one site client              implements SessionLink
  ReconnectingClientProofs
SessionLink                  what a client promises
BrowserWorker                the service worker and the pages it controls
  BrowserWorkerProofs
```

**RegistryEvents** is `apply_registry_event` (`lib.rs:900`) as two operators:
`Applicable`, the conditions under which it accepts an event, and `Apply`, the
state it leaves. `RegistryState` keeps the persistent fields of
`InviteRecord` and `SessionRecord` as sets and functions over identifiers.

**CapabilityRegistry** is the type of that name. `live` is what the mutex
guards; `durable` is the state the complete lines of the journal replay to,
which is the journal as far as anyone can tell; `file` says what follows those
lines. Every operation is one action, because it holds the mutex from its first
check to its last assignment: `Commit(ev)` is `append_event` followed by
`apply_registry_event`. The exception is closing connections, which happens
after the mutex is released: operations move connections from `active` to
`closing`, and `CloseConnection` is a step of its own. `CrashDuringAppend`
leaves a line complete, torn or not written; `Open` replays and repairs;
`FailAppend` is an append that returns an error to a process that goes on.
`Appendable` lists the events the operations could be writing in a state; the
proofs show that each of them is applicable.

**AuthorizationLedger** is the abstract specification: invitations are known
and open, sessions are granted through one, and denied for good. It has no
journal, no lock and no restart, on purpose.

**SiteProtocol** has one task per connection, whose phases are the `await`s of
`authorize_connection` and `serve_connection` (`lib.rs:1349`, `1374`, `1553`).
`HelloAdmit` and `HelloResume` are `prepare_authorization`, `ProveAdmit` and
`ProveResume` are `finalize`, `WriteReply` sends the grant, `Connected` and
`Disconnected` are the two ends of the accept loop. `work` is the stream on a
connection: checked, then an HTTP exchange, a WebSocket or a tunnel; A stream that
waits for the application is `http` (its response), `stalled` (the application has
not accepted the connection yet or does not read, or the client has closed its half
of a tunnel) or `parting` (the last message of a revoked WebSocket); a closed
connection ends none of these. `queued` says that the accept loop holds another
stream and waits for a permit. Connections in `TunnelConnection` use the tunnel
ALPN, whose handler is the same with TCP conditions added.

**InviteRotation** holds what both kinds of host do: `Mint` (`mint_invite`),
`Publish` (`publish_share_url` and the assignment of `current_invite_id`),
`CloseCurrent`, and browsers reduced to the registry operation their handshake
ends in. **ServiceRuntime** adds `run_service` and `ServiceRuntime::handle`: a
start that closes every earlier invitation, commands handled one at a time,
journal failures, stop and crash. **OperatorConsole** adds the console, where a
kick and the rotation that follows are separate registry calls.

**ServiceControl** has one process per run of the program. Each step is one
file system call of `clear_stale_control`, `CapabilityRegistry::open`,
`write_private_new` or `Drop for ControlServer`. Nothing keeps a process from
starting while another one starts; `overlapped` remembers that it happened.
`PortChanges` is the rest of the machine: once the listener a control file names
is gone, any program may be given its port (`taken`), and then the file is taken
for a live one, because `endpoint_is_listening` only looks for somebody who
accepts a connection (`service.rs:244`).

**ControlRequests** adds to it what the name is claimed for. A call is
`request_at_path` (`service.rs:347`) cut where its five seconds may run out:
`ReadEndpoint`, `Connect`, `Send`, and `GiveUp` at every one of them. The service
takes the connections in their order (`backlog`), and `task[p]` is the one
iteration of the loop of `run_service` (`main.rs:892`) it is in: `Accept`,
`ReadRequest` or `ReadFails`, `Handle`, `Respond`. A caller that reads the file
of a process that then dies may reach another process at the same port, which
refuses its token. `Leave` is a signal or an error of `accept`, `Hush` what the
end of a process does to its connections.

**ManagedService** has the three files of a service (`file`) and its control file
(`control`), the supervisor (`job`, `definition`, `enabled`), the runs of
`run_service` with every file they create, and the commands of `urspace service`
(`main.rs:449` to `583`) as lists of steps (`Steps`) of which each is one tool, one
file or one request: an install under systemd saves the settings, writes the unit,
reloads, enables and restarts (`native_service.rs:77`), and may be killed or fail
between any two. A login starts what is enabled, not what is defined. `Exit` is
what the definition asks of the supervisor when a run ends: launchd's
`SuccessfulExit = false`, systemd's `Restart=on-failure`. Runs, by hand and of the
supervisor, may start at once; `overlapped` remembers it here, too.

**DeviceEnrollment** is `connect_site` (`main.rs:1414`) with `enroll`,
`resume_inner`, `authorize` and `save_session` of `native_client.rs` on one side,
and `authorize_connection` on the other, with every message between them. `wire`
is the message under way, `task` the host's handler, `file` the device file. A
process that gives up closes its connection, and the host's handler may not notice
before it has granted the session and registered it: `left` holds the handlers that
outlive their connection in this way, and `LateProof`, `LateRegister` and `LateEnds`
are what they do, while the process is already at its next handshake. What
is signed is in the messages, field by field, and the checks compare it. The
host's registry is AuthorizationLedger itself, by INSTANCE, since
CapabilityRegistry implements it, plus the endpoint a session was proved from
last.

**ReconnectingClient** is `open_stream` of both clients
(`crates/urspace-browser/src/lib.rs:491`, `native_client.rs:432`), one step per
`await`. `at[t]` says where call `t` waits and `using[t]` is its copy of the
connection, or the connection it is making; `lock` and `queue` are the tokio
mutex around `current`. `Recheck` is the comparison of `stable_id`s. `browser`
says which of the two clients this is: `Close`
(browser only) and `Cancel` (native only: the local gateway drops a handler when
its browser hangs up) strike at every await. The host is reduced to whether it
grants a resume; `Lose` is every way a connection ends, also the host closing
it because the session has a newer one. **SessionLink** is the abstract
specification: one link, which works or not, and which is replaced only when it
does not work and the client has not been closed.

**BrowserWorker** is `sw.js`, with `arm`, `recoverClient`, `meshFetch`,
`openSocket` and `acceptResumeHandoff` cut at their awaits, and the script
`session.js` puts into pages. `recovery` is the one recovery all waiting
requests share; `page[p]` is what the script of window `p` keeps; `mail` holds
payloads sent to the worker and not yet received. `Evict` clears all globals.

`MC*.tla` give the constants their values for TLC and define nothing else.
Operators whose comment begins "Mutant of" are plausible mistakes in the
definition they follow. No specification uses them; each replaces its original
once, to confirm that the property listed for it in `PROJECT.json` notices.

## Abstractions

- Invitation and session identifiers are fresh (`Uuid::new_v4`), and the
  attributes an invitation is minted with never change, so the session limit,
  TCP permission and subject are constants of the identifier.
- Whoever presents an invitation has its capability, and whoever resumes has
  the session key: signatures and hashes are conditions of the caller. An
  invalid or late proof is `ProofRejected`.
- Time is the set of invitations that have expired. It only grows, and it grows
  at any moment.
- Operator handles and access labels are left out. `assign_missing_operator_handles`
  only completes journals of older versions.
- `authorization_epoch` is 0 in every record and every grant the code makes, so
  the comparison that uses it is always true.
- The permits of a connection are reduced to the last one: the others are taken
  to be in use, so one stream runs and one more may be waiting.
- The browser of a session holds a grant (`held`) as a fact, not as a text.
- Grants do not expire (`SESSION_GRANT_EXPIRY_UNIX`, `lib.rs:41`) and the host
  accepts every grant of a session it knows. So which grant a client presents
  does not matter in ReconnectingClient, and a resume payload is its session in
  BrowserWorker. The native client's second mutex, around its grant, is taken
  only while the first is held and is left out.
- The handshakes of the protocol versions are one step that ends in a grant or
  not. A connection that grants no stream (`full`) is one whose stream limit is
  used up; `open_bi` waits on it and fails only when the connection ends.
- A page that keeps a payload answers the worker within the eight seconds it is
  given, and the browser ends a worker only when no event it serves is pending.
  `SurvivorsRecover` rests on both.
- A SiteClient in BrowserWorker is open or closed; that it reconnects by itself
  is ReconnectingClient.
- In ControlRequests the commands that only read, and those that change the
  registry without rotating, are one kind of command; a rotation is a line of
  the journal. What a response says is left out.
- In ManagedService the claim on the name takes fewer steps than in ServiceControl:
  a run that ends removes its control file in one, it serves as soon as the file is
  written, and the check and the removal with which an install begins are one. The
  journal is left out, the settings are one value, and `inputs` and `faults` count
  what the bounds limit.
- In DeviceEnrollment a process stands for its endpoint, for the key it would
  enroll with and for the session it would be given, all of which are fresh. A
  signature is what was signed. The origin label, what is forwarded, and
  `--listen` on a resume (another port instead of the saved one) are left out. Of
  the handlers in `left`, those that wait for a proof in vain or would serve nobody
  are dropped at once, and two that are alike count as one.
- In ServiceRuntime and OperatorConsole connections are left out
  (`Connection = {}`); in ServiceControl a journal is a sequence of numbered lines.

## Runs

| run | specification | what it asks | instance |
|---|---|---|---|
| `registry` | `Spec` | `TypeOK`, `SlotsBalanced`, `LiveIsDurable`, `ActiveInGoodStanding`, refinement of the ledger | 2 invitations (one for 1 session and bound to a subject, one for 2 sessions with TCP), 3 sessions, 2 endpoints, 2 connections |
| `registry_readable` | `FaultySpec` | `JournalStaysReadable` (violated) | as `registry` with 2 sessions, 1 failing append |
| `site` | `FairSiteSpec` | `NoOrphanServing`, `GrantsAreDurable`, `AdmissionsAreCurrent`, `UnregisteredIsClosed`, `RemovedWorkStops`, `GoneIsDisconnected` | 1 invitation for 1 session, 2 sessions, 2 connections: a tunnel and one for the site, each from an endpoint of its own |
| `service` | `ServiceSpec` | `OnlyCurrentIsOpen`, `RemovedStayOut`, `HandedOutIsOpen`, `AcknowledgedDenialsAreDurable` | 3 invitations for 2 sessions each, 2 sessions, 1 failing append |
| `console` | `ConsoleSpec` | `RemovedStayOut` (violated) | 3 invitations, 2 sessions |
| `control_requests` | `RequestSpec` | `RequestTypeOK`, `CommandsInOrder`, `CommandsAreReached`, and of ServiceControl `OneOwnerUnlessOverlapped`, `LinesSurviveUnlessOverlapped`, `RefusedOnlyByAnother` | 2 runs of the program, which may start at once, 2 operators, 2 calls, 1 line |
| `control_overlap` | `RequestSpec` | `AcknowledgedLinesSurvive` (violated) | as `control_requests` |
| `managed` | `ManagedSpec` | `ResumableUnlessOverlapped`, `IdentityStays`, `DefinedIsConfigured`, `StaysDown`, `SiteReturns` | systemd; 2 runs at a time, which may start at once; 2 operators; 2 commands or runs by hand; 2 settings, identities and relays; 2 faults |
| `device` | `DeviceSpec` | `DeviceTypeOK`, `OpenIsSaved`, `FileIsGranted`, `WastedOnlyByLoss`, `EnrolledUntilKicked`, `MountsReturn` | 2 processes of one device; an invitation for 2 sessions with TCP, one for 1 session without; 2 issuers; 1 fault |
| `device_moved` | `DeviceSpec` | `MovedIsReplaced` (violated) | as `device` |
| `client` | `FairClientSpec` | `NoStrayConnection`, `ImplementsLink`, `CallsEnd` | 3 calls, 3 connections; a browser client that may be closed, or a native one whose calls may be dropped |
| `worker` | `FairWorkerSpec` | `WorkerTypeOK`, `OneClientOpen`, `SurvivorsRecover`, `RequestsEnd` | 2 sessions, 2 windows, 2 requests, 1 failed load or failed attempt to connect |

**Why these bounds are enough for what they show.** Identifiers are never
reused, so the sets bound the number of things that happen, not the
length of a behaviour: crashes, restarts, reconnects, resumes and kicks of what
is left repeat without limit. The registry instance has one invitation that fills up
and one that does not, a session the first one refuses, two endpoints so that a
resume can move a session while a connection of the old endpoint is still on
its way, and two connections so that one replaces the other. In `site` one slot and two sessions let two
handshakes compete for the last slot, and two connections let one replace the
other, which may still be told late that it is gone; the proofs cover any number
of both. No run uses symmetry. Three invitations are one current, one earlier and one next; two
slots in each let a second browser follow a removed one.
Two runs of the program are one that died or serves and one that starts, or two
that start at once. Two operators with two calls are two commands that compete, or one that
is repeated; a caller that connects and says nothing is a call as well.
In `managed` a run by hand meets one of the supervisor, or a second command
follows or overtakes the first, and each of the two faults is a kill, a failing tool
or a reboot at any step: two are needed for an install that is cut short and a
service that must come back after it. A run is free again when it has ended, so
the supervisor starts any number of them. The instance with `Platform = "launchd"`
passes with the same properties and bounds; it is not a run of its own because the
question is the same. Two processes of a device are two enrollments, an
enrollment and a resume, or two resumes; the fault is a lost message, a time limit,
a kill, a busy port, a file that cannot be written, or a restart of the host with the same settings or others.
Three calls of a client are one that reconnects, one that finds
its result and one that comes with a third copy; three connections allow two
reconnects, so that a replacement can itself be lost while another call still
has the first. Two sessions are the fewest that can be confused in one worker;
two windows let one go while another answers, two requests share a recovery.
`Client` has one object more than can be referred to at once.
`MaxFaults`, `MaxLines`, `MaxCalls`, `MaxInputs`, `MaxConnections` and `MaxFailures`
bound failing appends and other faults, journal lines, calls, commands and runs by
hand, connections of a client and failures around a worker.
The proofs below remove these bounds for every module, as far as safety is
concerned.

**Deadlock** is checked for `registry`, `client` and `worker`. In the other
runs the system may really
stop: a connection is used once and a run of the program happens once, so the
bounded instances run out of them (`site`, `control_*`, `device*`);
commands, runs by hand and faults are counted (`managed`);
foreground sharing runs out of fresh invitations in the model; a host whose
journal has become unreadable stays down (`registry_readable`, `service`).

## Fairness

Safety needs none. `FairSiteSpec` assumes weak fairness, per connection, of
what the tokio runtime does on its own: `connection.close()` after the critical
section that took the connection out of the map (`HostCloses`),
`session_connected` after the reply with no `await` in between (`Connected`),
the accept loop noticing a closed connection (`Disconnected`) or a free permit
(`QueuedStreamRuns`), and reads and writes failing on a closed connection
(`StreamBreaks`), for a stream that reads or writes it.

Nothing is assumed of browsers, the operator, the network or the application
behind the host. The application may never answer a request (the client
`LoopbackSite::open` builds has no timeout), never accept a WebSocket
(`lib.rs:1907`), or never read: then `socket_send.send` (`lib.rs:1933`) does not
return, and the `select!` it is in looks neither at its one-second interval nor at
the connection, and a tunnel whose client has closed its half waits for the
application alone (`lib.rs:1623`). So `SocketRevoked` is not fair, a stream that
waits for the application (`Waits`) is not ended by the end of its connection, and
`RemovedWorkStops` and `GoneIsDisconnected` say what follows if the application
answers (`ApplicationAnswers`). Every fair action stays enabled until it is taken or
its purpose has gone, so weak fairness is enough.

`FairClientSpec` assumes, per call, that it goes on when it can: an enabled
future is polled, and connecting and the handshake end within their 20 and 10
seconds (`DialFails` and `AuthorizeFails` are always enabled there). Nothing is
assumed of the host or the network. One await has no time limit: `open_bi` while
the host grants no stream. So `CallsEnd` says that calls end if, in the end,
no connection is `full`.

`FairWorkerSpec` assumes that a recovery goes on: pages answer or the eight
seconds elapse, `init()` settles, and `resume()`, whose steps have the limits
above, returns. Nothing is assumed of pages leaving, of evictions or of sites
answering requests.

`RequestFairness` assumes that the task of a service goes on: the five seconds it
waits for a request elapse (`ReadFails` is always enabled there), and a command
comes to an end, since publishing a short link has a limit of its own. Nothing is
assumed of callers, signals, starts or kills. `CommandsAreReached` needs strong
assumptions of nobody, because there are finitely many connections before any one
of them and each is read for five seconds at most.

`ManagedFairness` assumes that a run that starts comes to an end of its start,
that the supervisor starts what is due, and that commands go on. Faults are
bounded, which is the assumption that `SiteReturns` rests on: they cease.

`DeviceFairness` assumes that a process goes on, as all of its waits have limits,
that the host answers a connection that is open, and that calls keep coming to an
open mount (a mount connects again only for a call). Nothing is assumed of handlers
that outlive their connection; each of them ends at most one connection of a mount. Handshakes may still fail any number of times
when two processes of a device compete; `MountsReturn` names that case.

## Findings

Four runs show the code doing something its documentation excludes.

1. **A failed append can make the journal unreadable** (`registry_readable`).
   `append_event` leaves a fragment in the file when `write_all` fails part way,
   and the process goes on. The next append succeeds behind the fragment; from
   then on `open` fails. Until it restarts the host behaves correctly.
2. **A session that has moved keeps its old connection** (`device_moved`).
   `finalize` makes a session the new connection's endpoint's (`lib.rs:1420`);
   the earlier connection is closed by `session_connected` (`lib.rs:1354`), after
   the answer was written (`lib.rs:1452`). If the new connection is lost in
   between, the earlier one stays open and registered, and every request on it is
   refused. Its client sees no reason to connect again, because its streams open.
   `docs/session-grants.md:127` says the record is rechecked "atomically" and "any
   older live connection for that session" replaced.
3. **The console kicks and rotates in two steps** (`console`, `main.rs:1269`). In
   between, a browser can still be admitted through the old URL, which
   `docs/cli.md:78` and `SECURITY.md:52` exclude. It is a fresh session that
   the operator sees and can remove. The service does both in one event, and
   `RemovedStayOut` holds of it (`service`). What is left of it at the console,
   that the gap closes with the rotation, is `OutOnceRotated`, which is proved.
4. **The journal is opened before the name is claimed** (`control_overlap`,
   `main.rs:821`, `824`). A start that overlaps another one sets the journal to the
   length it replayed (`lib.rs:886`), and lines acknowledged since are lost, against
   `docs/cli.md:113`.

The same overlap has three more consequences, which TLC finds when the property is
stated without `overlapped`:

- A control file is visible before it is written (`service.rs:239`). A start that
  reads the file empty removes it, and both processes serve: `OneOwner` and
  `LiveClaimIsKept` fail. The comment at `service.rs:235`, and the test
  `a_starting_listener_is_not_removed_as_stale` (`service.rs:578`), are about a
  listener that has not answered yet, whose file is already written.
- Two first starts may serve with different relays (`main.rs:962`), or one with
  settings the other has not looked at (`main.rs:799`), against `docs/cli.md:122`.
  Their identity is the same even then (`IdentityStays`).
- A command may be handled by one process after a later one was by another.

`OneOwnerUnlessOverlapped`, `LinesSurviveUnlessOverlapped`,
`ResumableUnlessOverlapped` and the last clause of `CommandsInOrder` say that none
of this ever happens before two starts have overlapped, whoever serves, stops, is
killed, hangs or is slow to answer; the behaviours the runs check go on past that
point, and the other properties hold there as well.

Some properties hold only with a condition that the code makes necessary, and
TLC finds them violated without it:

- `GoneIsDisconnected` and `RemovedWorkStops` need an application that answers.
  The accept loop waits for a permit (`lib.rs:1360`) and does not look at the
  connection meanwhile; if the permits are held by requests, tunnels or WebSockets
  that wait for the application, `session_disconnected` does not run and the
  session stays listed as connected until it reconnects. And the recheck of a
  WebSocket "once per second" (`SECURITY.md:174`) is not made while either side of
  it does not read.
- `RefusedOnlyByAnother` and `SiteReturns` name a port that is in use again: a
  control file left behind by a kill locks its name for as long as a stranger
  listens on the port in it.
- `SurvivorsRecover` lists three exceptions. The worker keeps whatever payload
  a page handed off last (`sw.js:80`) and asks the pages only if it has none,
  so the payload of a removed session stands in the way of another one. It
  keeps a promise of loading the client code that was rejected (`sw.js:37`), so
  everything fails until the browser ends the worker. And a request whose
  recovery fails does not look whether an invitation was opened meanwhile
  (`sw.js:161`).
- `SiteReturns` names a torn file as well: a kill between the creation of the identity or
  relay file and the writing of it (`main.rs:2048`) leaves one that no later start
  reads, and the supervisor tries for ever. `save_managed_config_at` has the same
  gap, but writes no definition after it, so `DefinedIsConfigured` holds.
- `StaysDown` is about the supervisor. `uninstall` on Linux ignores a failing
  `disable --now` (`native_service.rs:181`): the run of the job then goes on,
  though nothing starts it again. A unit that `service restart` has started, and
  that an install that was cut short has not enabled, serves only until the next
  login; `SiteReturns` asks for no more.
- `WastedOnlyByLoss` names a device file that cannot be written
  (`native_client.rs:668` to `697`): the host has admitted the session by then, and
  the slot is spent.
- `MountsReturn` names the case that two processes of one device take turns at
  closing each other's connection (`lib.rs:772`). A mount alone comes back although
  the handlers of its own earlier handshakes may close its connection.
- `CallsEnd` needs a host that grants streams in the end: `open_bi` has no limit.

## Proofs

Every invariant and every action property of a passing run, and all three
refinements, are proved for every value of the constants, from the `ASSUME`s of the
modules. TLC evaluates these on every run, and checked each inductive invariant
on the instances above before it was proved. Nothing else is assumed: what is lost
once starts have overlapped is in the properties, as a history variable of the
model, and not a hypothesis of the theorems.

| proofs | prove that |
|---|---|
| `CapabilityRegistryProofs` | the registry accounts for slots, keeps denials through crashes and failed appends, and implements the ledger |
| `SiteProtocolProofs` | the handlers only use the registry as it allows; what is served is registered and in good standing; grants survive |
| `InviteRotationProofs` | in a named service only the current invitation is open, and who was kicked stays out; the same of foreground sharing, with the gap it has |
| `ControlRequestsProofs` | until starts overlap a service name has one owner and its journal keeps its lines; with requests it is still that service, and commands keep their order |
| `ManagedServiceProofs` | the definition has settings, a stopped service stays down, its identity never changes, and until starts overlap later runs can resume earlier grants |
| `DeviceEnrollmentProofs` | one enrollment wins, what it saved is granted, and it stays enrolled |
| `ReconnectingClientProofs` | a client leaves no connection behind and implements a link |
| `BrowserWorkerProofs` | one client is open, and a request is refused only when no page could help, or with a named excuse |

### The registry

`CapabilityRegistryProofs` proves, for every set of invitations, sessions,
endpoints and connections and every number of failed appends:

| theorem | statement |
|---|---|
| `RegistryInvariant` | `FaultySpec => []RegistryInv` |
| `TypeCorrect` | `FaultySpec => []TypeOK` |
| `SlotAccounting` | `FaultySpec => []SlotsBalanced` |
| `RegisteredAreInGoodStanding` | `FaultySpec => []ActiveInGoodStanding` |
| `DenialsAreDurable` | `FaultySpec => []AcknowledgedDenialsAreDurable` |
| `JournalIsExact` | `Spec => []LiveIsDurable` |
| `RegistryImplementsLedger` | `Spec => ImplementsLedger` |

**Assumptions.** Limits are natural numbers; `None` is none of the identifiers;
there are finitely many session identifiers (they are 128-bit numbers), without
which counting them means nothing; the attributes of invitations have their
types. All are `ASSUME`s of the modules and TLC evaluates them on every run.

**The inductive invariant.** `RegistryInv` is type correctness, `Sound(live)`
and `Sound(durable)`, no registered connection while the host is down,
`ActiveInGoodStanding` and `AcknowledgedDenialsAreDurable`. None of the
properties is inductive alone. A slot count is preserved by an admission only
if the session was at no invitation before and the counter is above zero, for
the state the event is applied to, which may be the journal's and not the one
that was checked. So `Sound` also says that a registry state is well formed:
only issued invitations are closed, revoked or homes, and only admitted
sessions are kicked. `AcknowledgedDenialsAreDurable` carries the relation of
the two states through failed appends, where the journal may run ahead.

**The argument.** The proof is about events first: `ApplyType`,
`ApplyWellFormed` and `ApplyBalanced` (together `ApplySound`) say that an applicable event leaves
a sound state; `ApplyStricter` that it withdraws nothing that was withdrawn
before and restores nothing; `ApplyMonotone` that it keeps the journal at least
as strict as memory; `ApplyKeepsStanding` which sessions it removes. Then
`AppendableApplies` shows that whatever an operation may be writing is
applicable to memory, `AdmissionIsOperation` and `WithdrawalIsOperation` reduce
the eleven operations to "commit an applicable event and drop what it removes",
and the invariant is preserved once for all of them (`OperationInv`), once for
connections, crash, restart and failed append. `JournalIsExact` follows with
`Spec` alone, where memory and journal are equal whenever the host is up.
For the refinement, `StepJournalled` shows that a step either changes what the
host enforces by one applicable event or leaves it, whether the process
survived the append or not, and `ApplyIsLedgerStep` that such an event is
`Issue`, `Grant`, `Withdraw` or a stutter of the ledger; `LedgerCardinality`
turns the slot counter into the ledger's count.

### Connections

| theorem | statement |
|---|---|
| `SiteInvariantHolds` | `SiteSpec => []SiteInvariant` |
| `SiteUsesRegistry` | `SiteSpec => Spec` |
| `SiteImplementsLedger` | `SiteSpec => ImplementsLedger` |
| `NothingServedUnseen` | `SiteSpec => []NoOrphanServing` |
| `OnlyGoodStandingIsServed` | `SiteSpec => []ServedInGoodStanding` |
| `GrantsSurvive` | `SiteSpec => []GrantsAreDurable` |
| `AdmittedWhileOpen` | `SiteSpec => AdmissionsAreCurrent` |

`SiteUsesRegistry` comes first in importance: the handlers of both ALPNs, whatever
happens between their awaits, do to the registry what its specification allows
and nothing else, so everything proved of the registry holds of the host.
`ServedInGoodStanding` is what `NoOrphanServing` is for: a session that was kicked,
or whose invitation was revoked, is served on no connection but those that were
told to close.

**The inductive invariant.** `NoOrphanServing` says that an open connection that is
served is registered. Registering another connection of that session breaks it
unless the old one is closed in the same step, and so does a late
`session_disconnected` of an old connection, unless it finds another one
registered and leaves it alone. So `SiteInvariant` adds the converse: what is
registered is served, and for the session it is registered for
(`RegisteredAreServed`); a connection that is not served yet is neither
registered nor about to be closed (`UnservedAreKept`); and past the hello a
handler has a session (`SessionsNamed`), which is in the journal once the
registry has admitted or resumed it (`KnownAreDurable`). The last is also what
`GrantsAreDurable` needs.

**The argument.** One lemma per handler shows that its step is one of the
registry, or none, and what it does to its own connection; the registry's lemmas
say what becomes of `active` and `closing`. Admissions are lines in
the journal, so `JournalGrows` keeps the grants through crashes, and
`AdmitsOnlyThroughOpen` and `WithdrawalAdmitsNobody` give `AdmittedWhileOpen`: the
checks made for the hello play no part in it.

### Rotation: service and console

| theorem | statement |
|---|---|
| `ServiceInvariantHolds` | `ServiceSpec => []ServiceInvariant` |
| `ServiceUsesRegistry` | `ServiceSpec => FaultySpec` |
| `OnlyCurrentAdmits` | `ServiceSpec => []OnlyCurrentIsOpen` |
| `ServiceDenialsAreDurable` | `ServiceSpec => []AcknowledgedDenialsAreDurable` |
| `KickedStayOut` | `ServiceSpec => RemovedStayOut` |
| `HandedOutAdmits` | `ServiceSpec => HandedOutIsOpen` |
| `OnlyLastIsOpen` | `ConsoleSpec => []OnlyCurrentIsOpen` |
| `OutAfterRotation` | `ConsoleSpec => OutOnceRotated` |

**The inductive invariant.** `Handing` says which invitation can be open at each
point of a rotation: none while one is to be minted, the one minted while it is
being published, the current one otherwise. That is not enough for
`RemovedStayOut`, since an invitation that was handed out and then forgotten
could be minted again under the same name, open. So `RotationInv` also says that
everything ever handed out is known, to memory while the host is up and to the
journal while it is down, and that nothing barred is open there (`Remembered`).
An unreadable journal is excepted, because it is never opened again.

**The argument.** The first part of `InviteRotationProofs` reduces every registry call to what it
does to the open invitations and to the admitted sessions (`CloseCurrentEffect`,
`InsertEffect`, `KickAndCloseEffect`, `BrowserEffect`, ...), each from one lemma
about events (`ApplyOpens`) and one about admissions (`ApplyAdmits`), and shows
on the way that the step is one of the registry, so that `NextInv` preserves the
registry's invariant. The crash (`LeaveStep`) is where the two invariants meet:
whatever was being written, a journal that is still readable is at least as
strict as memory was. The console needs no journal, and `phase # "rotate"` in
front of the clause about what is barred; that condition is the gap of finding 3.

### Control of a service

| theorem | statement |
|---|---|
| `ControlInvariantHolds` | `ControlSpec => []ControlInvariant` |
| `RequestsImplementControl` | `RequestSpec => ControlSpec` |
| `OneOwnerHolds`, `OneOwnerServes` | `[]OneOwnerUnlessOverlapped`, of `ControlSpec` and of `RequestSpec` |
| `LinesSurvive`, `RequestedLinesSurvive` | `[]LinesSurviveUnlessOverlapped`, of both |
| `NameIsNeverLocked`, `NameStaysFree` | `RefusedOnlyByAnother`, of both |
| `ClaimIsKept` | `ControlSpec => LiveClaimIsKept` |
| `RequestInvariantHolds` | `RequestSpec => []RequestInvariant` |
| `OrderIsKept` | `RequestSpec => []CommandsInOrder` |
| `RequestTyped` | `RequestSpec => []RequestTypeOK` |

**The inductive invariants.** `ControlInvariant` has a part that always holds, the
types and that only a process with a claim listens (`ListenersHoldOn`), and one that
holds until starts have overlapped (`Orderly`): whoever serves, or is completing its
start, owns the control file and listens (`ClaimsAreOwn`), and what a start has found
out still holds when it acts on it (`StartsAreAlone`): there is no other start,
nobody serves behind a start that has passed its first check, and the journal has
not grown since it was replayed. That a run may start at any moment, and that
others serve, stop or are killed meanwhile, is not excluded; `Orderly` is given up in
the one step in which a start overlaps another one, and `overlapped` never returns
(`OverlapStays`).
`RequestInvariant` says where the requests of an operator are. `CommandsInOrder`
speaks of the one that is handled; for the next step one has to know that it is
earlier than those waiting behind it (`Ordered`), and these earlier than the one
whose caller is about to connect (`Newest`). All of this is said of each process by
itself, and of all together (`Unhandled`) until starts overlap: that a command is
in one backlog only follows from the processes that do not listen having none
(`OneIsCalled`).

**The argument.** `RequestStepIsControlStep` shows that the steps of callers leave
the service alone and those of its loop are steps of ServiceControl, so its
theorems carry over. Most steps only keep or drop what is in order (`Keeping`,
`KeepingStep`); the five that do not (`ReadEndpointStep`, `ConnectStep`,
`AcceptStep`, `ReadRequestStep`, `HandleStep`) have a lemma each.

### Installed services

| theorem | statement |
|---|---|
| `ManagedInvariantHolds` | `ManagedSpec => []ManagedInv` |
| `ManagedTypeCorrect` | `ManagedSpec => []ManagedTypeOK` |
| `DefinitionHasSettings` | `ManagedSpec => []DefinedIsConfigured` |
| `StoppedStaysDown` | `ManagedSpec => StaysDown` |
| `OneIdentity` | `ManagedSpec => []IdentityStays` |
| `ResumeInvariantHolds` | `ManagedSpec => [](overlapped \/ ResumeInv)` |
| `LaterRunsResume` | `ManagedSpec => []ResumableUnlessOverlapped` |

**The assumptions.** A file that is empty is not one that holds settings, a key or
a relay, none of these is `None`, and a control file that is left behind is none of
a run. They are `ASSUME`s of the module. Nothing is assumed of the order of starts;
`overlapped` is needed for the relay and the settings only, and TLC finds them
violated without it (see above).

**The inductive invariants.** `ManagedInv` has three parts. In the types, the job of
the supervisor runs exactly when it has a run, and that run has not ended.
`CommandInv` says that the steps an operator has left are in order (`InOrder`:
settings are saved and written first, and the definition right after), that only
an install has such steps, that one install at most is between the creation of
the settings and the writing of them, and that whoever comes to the definition
found or wrote them. `DownInv` says that after a stop no operator is starting the
service and the supervisor has nothing due, and after an uninstall it does not
know the service, so that neither an exit nor a kill can bring it back.
`ResumeInv` relates the runs to the files: each run that is past the identity,
the relay or the settings agrees with the file (`Agrees`), and so does every grant;
one run starts at a time, the one that serves has the control file, and a start past
its look at that file has found no service. Its last clause is the subtle one: a run
that started by hand before anything was installed looks at no settings, and
must not come to serve after one that did; it cannot, because settings never go
away, and the first to have looked at them has served since.
`IdentityInv` is the part of this about the identity, and holds whatever overlaps:
`create_new` lets one run write it.

**The argument.** `ExitEffect` and `EndJobEffect` say what a step does to the runs and
the job (`Untouched`, `RunsEnd`), and `StepTyped`, `GoesTyped` and `ExitTyped` what
follows for the types. That every step of a start is one of "goes on" and "ends" leaves
one lemma for each (`GoingOnKeepsResuming`, `EndsKeepResuming`): a start may write a
file only while it is empty or not there, and then nobody serves and there is no
grant. Commands are reduced to "goes on" and "ends", too (`AdvanceKeeps`,
`EndKeeps`), over lemmas about the sequences of their steps (`StepsInOrder`,
`AdvanceInOrder`, `WritingInOrder`).

### Devices

| theorem | statement |
|---|---|
| `DeviceInvariantHolds` | `DeviceSpec => []DeviceInvariant` |
| `DeviceTyped` | `DeviceSpec => []DeviceTypeOK` |
| `OneEnrollmentWins` | `DeviceSpec => []OpenIsSaved` |
| `SavedIsGranted` | `DeviceSpec => []FileIsGranted` |
| `StaysEnrolled` | `DeviceSpec => []EnrolledUntilKicked` |
| `SlotsAreNotWasted` | `DeviceSpec => []WastedOnlyByLoss` |

**The inductive invariant.** `Matching` says that the stage of a process, the
message on its connection and the stage of the host's handler fit together, and
that the handler has the hello its process sent; without it a proof could be
accepted for another hello. `Leftover` says the same of the handlers that outlive
their connection: each has a hello its process may have sent, with a grant that is
good, so that what it grants or registers late is what that process asked for once. `KnownGrants` says that every grant anywhere (with a
process, in a message, in the file) is one the host gave and still knows. Only
for `WastedOnlyByLoss` is more needed: which processes may have an admitted
session at all, by the reason they ended with (`Settled`, `Spent`), and which may
still come to one after they have gone (`Final`, `LeftFinal`).

**The argument.** `Keeps` shows that sessions, denials and the file only grow, so
that a grant once good stays good; then one lemma per kind of step shows which
process it touches, and that the others keep their part of the invariant
(`ProcessLeavesOthers`, `HostDropsOthers`), or which handlers it leaves
(`OutlivesFits`, `ProcessLeaves`).

### Reconnecting clients

| theorem | statement |
|---|---|
| `ClientInvariantHolds` | `ClientSpec => []ClientInvariant` |
| `NothingStrays` | `ClientSpec => []NoStrayConnection` |
| `ClientImplementsLink` | `ClientSpec => ImplementsLink` |

**The inductive invariant.** Only the holder of the mutex is between its recheck
and the end of its handshake (`Exclusive`); every copy of a connection is of one
that was made (`Made`); who waits for the mutex again has seen its copy gone, and
who dials has seen the current one gone (`Needed`). Nothing about the order in
which the mutex is handed on is needed: fairness of the queue matters for
`CallsEnd` only.

### Service worker

| theorem | statement |
|---|---|
| `WorkerInvariantHolds` | `WorkerSpec => []WorkerInv` |
| `WorkerTypeCorrect` | `WorkerSpec => []WorkerTypeOK` |
| `ReplacedAreClosed` | `WorkerSpec => []OneClientOpen` |
| `SurvivorsAreAsked` | `WorkerSpec => SurvivorsRecover` |

**The assumptions.** Finitely many requests are under way, and there are at least
two more client objects than requests; `None` and `NoWindow` are no session,
client or page. The second one makes room for a client that nothing refers to
(`FreshIsClient`, by counting), as objects are allocated in the code.

**The inductive invariant.** A request that waits is told so only by a recovery. To
know that no page could have answered, `WorkerInv` says that every page with a
payload is among those that were asked, as long as there is no client; for that,
that without a client no request is being served, since serving one is how a
page comes by a payload (`RespondStep`), and that the question to a page that is
shown anew is withdrawn with the page. A recovery past the pages has the payload
it tries, so that a client is never there without one.

## What is only model-checked

- Liveness under fairness (`UnregisteredIsClosed`, `RemovedWorkStops`,
  `GoneIsDisconnected`, `CallsEnd`, `RequestsEnd`, `CommandsAreReached`,
  `SiteReturns`, `MountsReturn`) is out of the prover's reach, as is anything with
  `ENABLED`.
- `JournalStaysReadable`, `MovedIsReplaced`, `RemovedStayOut` of the console and
  `AcknowledgedLinesSurvive` of starts that overlap do not hold; TLC shows it.
- The type invariants of `SiteProtocol`, `ServiceRuntime`, `ManagedService` and
  `ReconnectingClient` are checked by no run of their own, and are part of the
  proved invariants, as is `OnlyCurrentIsOpen` of the console.
- Replay as a fold over lines is built into `durable`; that folding one event at
  a time and folding the whole file agree is not stated, as it is the same
  left fold.

## What is not modelled

- Signing, verification and framing (pure functions over bytes), HTTP and
  WebSocket contents and limits, confinement of static paths, the text of URLs,
  and printing. Disk contents are assumed to be what was written and synced.
- Short links: a record has one writer, its name is fresh, and put, get and alarm
  run inside the storage transactions of a Durable Object, so no step of anybody
  else comes between them. Publication never fails a command; that it takes time
  is in InviteRotation and ControlRequests.
- The embedded host: each of its methods is one operation of the registry, which
  CapabilityRegistry interleaves with everything else already, and it rotates
  nothing.
- The bootstrap server, the JavaScript package and the web site keep no state of
  their own.

Known and not covered by a property: a request is authorized before its body is
read, so a session that is removed in between has this one request answered
(`lib.rs:1754`); `close()` of the browser client uses `try_lock`, and leaves a
working connection to its user if a call holds the mutex
(`crates/urspace-browser/src/lib.rs:265`); the promise of a rejected load of the
client code is kept (`sw.js:37`), which `SurvivorsRecover` names as an exception;
an invitation of the embedded host stays issued when signing it fails
(`embed.rs:205`). Three more are in the models, contradict no document, and are
what a property excuses: two processes of one device that take turns (`lib.rs:772`),
a run that survives an uninstall whose `disable --now` failed
(`native_service.rs:181`), and `open_bi` without a limit while the mutex is held
(`native_client.rs:442`).

## Plan

1. ReconnectingClient composed with SiteProtocol. A handshake that the client gave
   up on and that the host grants and registers after the next one, so that it
   closes the connection in use, is in DeviceEnrollment (`left`), for the processes
   of one device that connect again; a browser's calls would meet it with the mutex
   of ReconnectingClient between them.
2. An abstract specification of an installed service (installed, up, down) that
   ManagedService implements, with `StaysDown` as one of its consequences.
3. `ShortLinkStore`, if it ever gets a second writer.
