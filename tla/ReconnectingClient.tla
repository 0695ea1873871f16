------------------------- MODULE ReconnectingClient -------------------------
(***************************************************************************)
(* One site client whose calls (fetch, openSocket, openTunnel) each need a *)
(* stream: open_stream of SiteClient (crates/urspace-browser/src/lib.rs)   *)
(* and of NativeSiteClient (crates/urspace-host/src/native_client.rs).     *)
(* The calls share one connection behind an asynchronous mutex.  A call    *)
(* whose stream cannot be opened takes the mutex and reconnects; the       *)
(* others wait for it and then use what it found.                          *)
(*                                                                         *)
(* The two clients run the same code but for this: only the browser's can  *)
(* be closed, and only the native one's calls are dropped half way (the    *)
(* local gateway drops a handler when its browser hangs up).  The native   *)
(* client also holds the mutex of its grant while it reconnects; it is     *)
(* taken nowhere else, so it orders nothing that the first one does not.   *)
(* Grants do not expire (SESSION_GRANT_EXPIRY_UNIX), and the host accepts  *)
(* every grant of a session it knows: which of them a client presents,     *)
(* the first or the one issued last, makes no difference here.             *)
(*                                                                         *)
(* The host is reduced to what a client can tell: it grants a resume while *)
(* it knows the session.  That it then ends the connection it served the   *)
(* session on before is one of the ways in which a connection is lost.     *)
(***************************************************************************)
EXTENDS Naturals, Sequences, SequencesExt

CONSTANTS
  Call,            \* calls of one client that may be under way together
  None,
  MaxConnections   \* bound: connections in one behaviour

ASSUME ClientAssumption ==
  /\ MaxConnections \in Nat \ {0}
  /\ None \notin Call

VARIABLES
  connection,   \* connection[n]: unused, open, lost or closed, to the client
  full,         \* connections on which the host grants no stream at the moment
  current,      \* the connection the mutex guards
  lock,         \* who holds the mutex, or has been handed it
  queue,        \* who waits for it, in order of arrival
  at,           \* at[t]: where call t is
  using,        \* using[t]: its copy of `current', or the connection it makes
  browser,      \* the browser's client (TRUE) or the native one (FALSE)
  closed,       \* close() has been called
  admitted,     \* the host knows the session and has not removed it
  granted       \* connections whose handshake the host has answered with a grant

clientVars == <<connection, full, current, lock, queue, at, using, browser,
                closed, admitted, granted>>

net == <<connection, full>>
mutex == <<lock, queue>>
calls == <<at, using>>
object == <<browser, closed>>
host == <<admitted, granted>>

Number == 1..MaxConnections

(***************************************************************************)
(* copying:      waiting for the mutex to copy the connection              *)
(* opening:      open_bi on the copy, without the mutex                    *)
(* relocking:    that failed; waiting for the mutex to reconnect           *)
(* retrying:     open_bi on what another call put there, with the mutex    *)
(* dialing:      endpoint.connect, with the mutex                          *)
(* authorizing:  the handshake on the new connection, with the mutex       *)
(* reopening:    open_bi on the new connection, with the mutex             *)
(***************************************************************************)
Holding == {"retrying", "dialing", "authorizing", "reopening"}
Waiting == {"copying", "relocking"}
Stage == {"idle", "opening"} \cup Waiting \cup Holding

ClientTypeOK ==
  /\ connection \in [Number -> {"unused", "open", "lost", "closed"}]
  /\ full \in SUBSET Number
  /\ current \in Number
  /\ lock \in Call \cup {None}
  /\ queue \in Seq(Call)
  /\ at \in [Call -> Stage]
  /\ using \in [Call -> Number \cup {None}]
  /\ \A t \in Call : using[t] = None <=> at[t] \in {"idle", "copying"}
  /\ browser \in BOOLEAN
  /\ closed \in BOOLEAN
  /\ admitted \in BOOLEAN
  /\ granted \in SUBSET Number

\* The client has been established: connected, authorized and granted.
ClientInit ==
  /\ connection = [n \in Number |-> IF n = 1 THEN "open" ELSE "unused"]
  /\ full = {}
  /\ current = 1
  /\ lock = None
  /\ queue = <<>>
  /\ at = [t \in Call |-> "idle"]
  /\ using = [t \in Call |-> None]
  /\ browser \in BOOLEAN
  /\ closed = FALSE
  /\ admitted = TRUE
  /\ granted = {1}

IsOpen(n) == connection[n] = "open"
Accepts(n) == IsOpen(n) /\ n \notin full
Goto(t, stage) == at' = [at EXCEPT ![t] = stage]
Use(t, n) == using' = [using EXCEPT ![t] = n]
Shut(n) == connection' = [connection EXCEPT ![n] = "closed"]

\* tokio's mutex is fair: it is handed to who has waited longest.
Acquire(t) ==
  IF lock = None
  THEN lock' = t /\ UNCHANGED queue
  ELSE queue' = Append(queue, t) /\ UNCHANGED lock

Release ==
  IF queue = <<>>
  THEN lock' = None /\ UNCHANGED queue
  ELSE lock' = Head(queue) /\ queue' = Tail(queue)

\* The call returns, with a stream or with an error.
Finish(t) == Goto(t, "idle") /\ Use(t, None)

-----------------------------------------------------------------------------
(* A call opens its stream *)

\* A call to a closed browser client fails at once, which changes nothing.
\* A free mutex is taken, read and released without a pause.
Begin(t) ==
  /\ at[t] = "idle" /\ ~closed
  /\ IF lock = None
     THEN Goto(t, "opening") /\ Use(t, current) /\ UNCHANGED mutex
     ELSE Goto(t, "copying") /\ Acquire(t) /\ UNCHANGED using
  /\ UNCHANGED <<net, current, object, host>>

Copy(t) ==
  /\ at[t] = "copying" /\ lock = t
  /\ Use(t, current)
  /\ Release
  /\ Goto(t, "opening")
  /\ UNCHANGED <<net, current, object, host>>

Open(t) ==
  /\ at[t] = "opening" /\ Accepts(using[t])
  /\ Finish(t)
  /\ UNCHANGED <<net, current, mutex, object, host>>

OpenFails(t) ==
  /\ at[t] = "opening" /\ ~IsOpen(using[t])
  /\ Acquire(t)
  /\ Goto(t, "relocking")
  /\ UNCHANGED <<net, current, using, object, host>>

\* Mutant of Recheck: whoever gets the mutex reconnects.
RecheckSkipped(t) ==
  /\ at[t] = "relocking" /\ lock = t
  /\ Goto(t, "dialing")
  /\ UNCHANGED <<net, current, mutex, using, object, host>>

\* Another call may have reconnected in the meantime: stable_id tells.
Recheck(t) ==
  /\ at[t] = "relocking" /\ lock = t
  /\ Goto(t, IF current # using[t] THEN "retrying" ELSE "dialing")
  /\ UNCHANGED <<net, current, mutex, using, object, host>>

RetryOpens(t) ==
  /\ at[t] = "retrying" /\ Accepts(current)
  /\ Finish(t)
  /\ Release
  /\ UNCHANGED <<net, current, object, host>>

RetryFails(t) ==
  /\ at[t] = "retrying" /\ ~IsOpen(current)
  /\ Goto(t, "dialing")
  /\ UNCHANGED <<net, current, mutex, using, object, host>>

-----------------------------------------------------------------------------
(* Reconnecting, with the mutex held throughout *)

Dial(t) ==
  /\ at[t] = "dialing"
  /\ \E n \in Number :
       /\ connection[n] = "unused"
       /\ \A m \in 1..(n - 1) : connection[m] # "unused"
       /\ connection' = [connection EXCEPT ![n] = "open"]
       /\ Use(t, n)
  /\ Goto(t, "authorizing")
  /\ UNCHANGED <<full, current, mutex, object, host>>

\* unreachable, or not reached within the time limit of a connection
DialFails(t) ==
  /\ at[t] = "dialing"
  /\ Finish(t)
  /\ Release
  /\ UNCHANGED <<net, current, object, host>>

\* Mutant of Authorized: the result for a closed client is forgotten, not closed.
AuthorizedForgotten(t) ==
  /\ at[t] = "authorizing" /\ using[t] \in granted
  /\ IF closed
     THEN Finish(t) /\ Release /\ UNCHANGED <<connection, current>>
     ELSE /\ current' = using[t]
          /\ Goto(t, "reopening")
          /\ UNCHANGED <<connection, mutex, using>>
  /\ UNCHANGED <<full, object, host>>

\* The rotated grant is read; the connection may be lost again by then.  The
\* browser looks whether close() came first.
Authorized(t) ==
  /\ at[t] = "authorizing" /\ using[t] \in granted
  /\ IF closed
     THEN Shut(using[t]) /\ Finish(t) /\ Release /\ UNCHANGED current
     ELSE /\ current' = using[t]
          /\ Goto(t, "reopening")
          /\ UNCHANGED <<connection, mutex, using>>
  /\ UNCHANGED <<full, object, host>>

\* Mutant of AuthorizeFails: no time limit, only a denial or a lost connection.
AuthorizeFailsUntimed(t) ==
  /\ at[t] = "authorizing" /\ (~admitted \/ ~IsOpen(using[t]))
  /\ Shut(using[t])
  /\ Finish(t)
  /\ Release
  /\ UNCHANGED <<full, current, object, host>>

\* Denied, the connection lost, or no end within the time limit, which can
\* strike after the host has granted the resume.
AuthorizeFails(t) ==
  /\ at[t] = "authorizing"
  /\ Shut(using[t])
  /\ Finish(t)
  /\ Release
  /\ UNCHANGED <<full, current, object, host>>

Reopen(t) ==
  /\ at[t] = "reopening" /\ (Accepts(current) \/ ~IsOpen(current))
  /\ Finish(t)
  /\ Release
  /\ UNCHANGED <<net, current, object, host>>

-----------------------------------------------------------------------------
(* What happens around the calls *)

\* A native call is dropped: its guards and its new connection go with it.
Cancel(t) ==
  /\ ~browser /\ at[t] # "idle"
  /\ IF at[t] = "authorizing" THEN Shut(using[t]) ELSE UNCHANGED connection
  /\ IF lock = t THEN Release ELSE queue' = Remove(queue, t) /\ UNCHANGED lock
  /\ Finish(t)
  /\ UNCHANGED <<full, current, object, host>>

\* close(): try_lock, so a connection in use by a call is left to that call.
Close ==
  /\ browser
  /\ closed' = TRUE
  /\ IF lock = None /\ IsOpen(current)
     THEN Shut(current)
     ELSE UNCHANGED connection
  /\ UNCHANGED <<full, current, mutex, calls, browser, host>>

\* The network fails, the host stops or it closes the connection.
Lose(n) ==
  /\ IsOpen(n)
  /\ connection' = [connection EXCEPT ![n] = "lost"]
  /\ UNCHANGED <<full, current, mutex, calls, object, host>>

\* The streams the host allows on a connection are used up, or end.
Fill(n) ==
  /\ IsOpen(n)
  /\ full' = full \cup {n}
  /\ UNCHANGED <<connection, current, mutex, calls, object, host>>

Drain(n) ==
  /\ n \in full
  /\ full' = full \ {n}
  /\ UNCHANGED <<connection, current, mutex, calls, object, host>>

\* The host accepts the proof.
HostGrants(t) ==
  /\ at[t] = "authorizing" /\ IsOpen(using[t]) /\ admitted
  /\ granted' = granted \cup {using[t]}
  /\ UNCHANGED <<net, current, mutex, calls, object, admitted>>

\* A kick, a revocation, or a host that forgets its sessions when it stops.
HostRemoves ==
  /\ admitted' = FALSE
  /\ UNCHANGED <<net, current, mutex, calls, object, granted>>

Progress(t) ==
  \/ Copy(t) \/ Open(t) \/ OpenFails(t)
  \/ Recheck(t) \/ RetryOpens(t) \/ RetryFails(t)
  \/ Dial(t) \/ DialFails(t)
  \/ Authorized(t) \/ AuthorizeFails(t) \/ Reopen(t)

Surroundings ==
  \/ Close \/ HostRemoves
  \/ \E n \in Number : Lose(n) \/ Fill(n) \/ Drain(n)

ClientNext ==
  \/ \E t \in Call : Begin(t) \/ Progress(t) \/ Cancel(t) \/ HostGrants(t)
  \/ Surroundings

ClientSpec == ClientInit /\ [][ClientNext]_clientVars

\* Futures are polled once they can go on, and the time limits of connecting
\* and authorizing elapse.  Nothing is assumed of the network and the host.
FairClientSpec ==
  ClientSpec /\ \A t \in Call : WF_clientVars(Progress(t))

-----------------------------------------------------------------------------
(* Properties *)

\* The client keeps what SessionLink promises: calls that fail together
\* reconnect once, a working connection is never replaced, and a client closed
\* in the middle of a reconnect does not come back.
Promise == INSTANCE SessionLink WITH
  Link <- Number, link <- current, up <- IsOpen(current), ended <- closed
ImplementsLink == Promise!Spec

\* Every connection that is open is the one in use, or in the hands of the call
\* that is making it: no outcome of a handshake leaves one behind.
NoStrayConnection ==
  \A n \in Number : IsOpen(n) =>
    \/ n = current
    \/ \E t \in Call : at[t] = "authorizing" /\ using[t] = n

\* Unless the host keeps refusing streams, every call ends, whatever becomes of
\* the connection and however long the host takes to answer a handshake.
CallsEnd ==
  (<>[](full = {})) =>
    \A t \in Call : at[t] # "idle" ~> at[t] = "idle"
=============================================================================
