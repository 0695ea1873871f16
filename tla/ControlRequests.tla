--------------------------- MODULE ControlRequests --------------------------
(***************************************************************************)
(* The requests operators send to a named service while its processes come *)
(* and go: ControlServer::accept and request_at_path (crates/urspace-host/ *)
(* src/service.rs), and the loop of run_service (main.rs) that handles one *)
(* command at a time.                                                      *)
(*                                                                         *)
(* A caller reads the control file, connects, sends, and waits, five       *)
(* seconds in all.  The service takes connections in the order in which    *)
(* they were made, waits five seconds for a request, and handles it        *)
(* however long that takes: a rotation may publish a short link.  So a     *)
(* caller can give up at every step, and what it sent is handled all the   *)
(* same: "The authenticated action remains authoritative even if the local *)
(* caller disconnects before reading its response" (main.rs:905).          *)
(*                                                                         *)
(* Left out: what a response says, and Sessions, Kick and KickAll, which   *)
(* are Status and Invite as far as this module is concerned.               *)
(***************************************************************************)
EXTENDS ServiceControl

CONSTANTS
  Operator,   \* each makes one call after the other
  Action,     \* the commands they use, of "status", "rotate" and "stop"
  MaxCalls    \* bound: calls of all operators

ASSUME RequestAssumption ==
  /\ None \notin Process
  /\ Action \subseteq {"status", "rotate", "stop"}
  /\ MaxCalls \in Nat

VARIABLES
  calls,    \* how many calls have been made
  caller,   \* caller[o]: where the call of operator o is
  backlog,  \* backlog[p]: connections made to p and not accepted yet
  sent,     \* requests that were sent completely and not read yet
  task,     \* task[p]: the connection p is busy with, and how far it is
  done      \* done[p][o]: the latest call of operator o that p has handled

requestVars == <<calls, caller, backlog, sent, task, done>>
serviceVars == <<controlVars, requestVars>>

\* token: the process whose control file was read, whose token the request has
Request == [by : Operator, nth : 1..MaxCalls, action : Action, token : Process]

(***************************************************************************)
(* away:       not calling                                                 *)
(* connecting: has read the control file                                   *)
(* sending:    connected; the request is not complete yet                  *)
(* waiting:    sent; the response is awaited                               *)
(***************************************************************************)
CallStage == {"away", "connecting", "sending", "waiting"}

(***************************************************************************)
(* idle: in select!    reading: read_request    handling: handle           *)
(* answering: send_response                                                *)
(***************************************************************************)
TaskStep == {"idle", "reading", "handling", "answering"}

Away == [stage |-> "away", request |-> None]
Resting == [step |-> "idle", request |-> None]

RequestTypeOK ==
  /\ ControlTypeOK
  /\ calls \in 0..MaxCalls
  /\ caller \in [Operator -> [stage : CallStage, request : Request \cup {None}]]
  /\ backlog \in [Process -> Seq(Request)]
  /\ sent \in SUBSET Request
  /\ task \in [Process -> [step : TaskStep, request : Request \cup {None}]]
  /\ done \in [Process -> [Operator -> 0..MaxCalls]]
  /\ \A p \in Process :
       /\ task[p] # Resting => at[p] = "serving"
       /\ backlog[p] # <<>> => p \in listening

RequestInit ==
  /\ ControlInit
  /\ calls = 0
  /\ caller = [o \in Operator |-> Away]
  /\ backlog = [p \in Process |-> <<>>]
  /\ sent = {}
  /\ task = [p \in Process |-> Resting]
  /\ done = [p \in Process |-> [o \in Operator |-> 0]]

MoveCall(o, stage) == caller' = [caller EXCEPT ![o].stage = stage]

EndCall(o) == caller' = [caller EXCEPT ![o] = Away]

-----------------------------------------------------------------------------
(* Callers: request_at_path *)

\* A control file that is not there, or not written yet, is an error.
ReadEndpoint(o, action) ==
  /\ caller[o].stage = "away"
  /\ calls < MaxCalls
  /\ control # None /\ control.written
  /\ calls' = calls + 1
  /\ caller' = [caller EXCEPT ![o] =
       [stage |-> "connecting",
        request |-> [by |-> o, nth |-> calls + 1, action |-> action,
                     token |-> control.by]]]
  /\ UNCHANGED <<controlVars, backlog, sent, task, done>>

\* The port of a process that is gone may have become another one's.  If it is
\* a stranger's, nothing the service does comes of the call: GiveUp.
Connect(o, p) ==
  LET r == caller[o].request IN
  /\ caller[o].stage = "connecting"
  /\ p \in listening
  /\ p = r.token \/ r.token \notin listening
  /\ backlog' = [backlog EXCEPT ![p] = Append(@, r)]
  /\ MoveCall(o, "sending")
  /\ UNCHANGED <<controlVars, calls, sent, task, done>>

Send(o) ==
  /\ caller[o].stage = "sending"
  /\ sent' = sent \cup {caller[o].request}
  /\ MoveCall(o, "waiting")
  /\ UNCHANGED <<controlVars, calls, backlog, task, done>>

\* Five seconds have passed, the connection is refused or reset, or Ctrl+C.
GiveUp(o) ==
  /\ caller[o].stage # "away"
  /\ EndCall(o)
  /\ UNCHANGED <<controlVars, calls, backlog, sent, task, done>>

\* A response reaches the caller that still waits for it.
Hear(r) == IF caller[r.by].request = r THEN EndCall(r.by) ELSE UNCHANGED caller

-----------------------------------------------------------------------------
(* The service: ControlServer::accept, the loop of run_service *)

\* Mutant of Accept: the connections are handled in any order.
AcceptAny(p) ==
  /\ at[p] = "serving"
  /\ task[p].step = "idle"
  /\ \E n \in DOMAIN backlog[p] :
       /\ task' = [task EXCEPT ![p] = [step |-> "reading", request |-> backlog[p][n]]]
       /\ backlog' = [backlog EXCEPT ![p] =
                        SubSeq(@, 1, n - 1) \o SubSeq(@, n + 1, Len(@))]
  /\ UNCHANGED <<controlVars, calls, caller, sent, done>>

Accept(p) ==
  /\ at[p] = "serving"
  /\ task[p].step = "idle"
  /\ backlog[p] # <<>>
  /\ task' = [task EXCEPT ![p] = [step |-> "reading", request |-> Head(backlog[p])]]
  /\ backlog' = [backlog EXCEPT ![p] = Tail(@)]
  /\ UNCHANGED <<controlVars, calls, caller, sent, done>>

\* A request with another token is answered with a failure.
ReadRequest(p) ==
  LET r == task[p].request IN
  /\ at[p] = "serving"
  /\ task[p].step = "reading"
  /\ r \in sent
  /\ sent' = sent \ {r}
  /\ IF r.token = p
     THEN /\ task' = [task EXCEPT ![p].step = "handling"]
          /\ UNCHANGED caller
     ELSE /\ task' = [task EXCEPT ![p] = Resting]
          /\ Hear(r)
  /\ UNCHANGED <<controlVars, calls, backlog, done>>

\* Mutant of ReadFails: only a caller that hangs up ends the wait for a request.
ReadFailsAtEnd(p) ==
  LET r == task[p].request IN
  /\ at[p] = "serving"
  /\ task[p].step = "reading"
  /\ r \notin sent
  /\ caller[r.by].request # r
  /\ task' = [task EXCEPT ![p] = Resting]
  /\ Hear(r)
  /\ UNCHANGED <<controlVars, calls, backlog, sent, done>>

\* CONTROL_TIMEOUT, or the caller went away in the middle of its request
ReadFails(p) ==
  LET r == task[p].request IN
  /\ at[p] = "serving"
  /\ task[p].step = "reading"
  /\ r \notin sent
  /\ task' = [task EXCEPT ![p] = Resting]
  /\ Hear(r)
  /\ UNCHANGED <<controlVars, calls, backlog, sent, done>>

\* ServiceRuntime::handle: a rotation appends to the journal, or fails.
Handle(p) ==
  LET r == task[p].request IN
  /\ at[p] = "serving"
  /\ task[p].step = "handling"
  /\ \/ r.action = "rotate" /\ AppendLine(p)
     \/ UNCHANGED controlVars
  /\ task' = [task EXCEPT ![p].step = "answering"]
  /\ done' = [done EXCEPT ![p][r.by] = r.nth]
  /\ UNCHANGED <<calls, caller, backlog, sent>>

\* Mutant of Hush: the connections outlive the listener.
HushNothing(p) == UNCHANGED <<task, backlog, sent>>

\* What p was doing ends; its connections end when its listener closes.
Hush(p) ==
  /\ task' = [task EXCEPT ![p] = Resting]
  /\ IF p \in listening'
     THEN UNCHANGED <<backlog, sent>>
     ELSE /\ backlog' = [backlog EXCEPT ![p] = <<>>]
          /\ sent' = {r \in sent : /\ r # task[p].request
                                   /\ \A n \in DOMAIN backlog[p] : r # backlog[p][n]}

\* An error of send_response is ignored.  A Stop ends the loop.
Respond(p) ==
  LET r == task[p].request IN
  /\ at[p] = "serving"
  /\ task[p].step = "answering"
  /\ Hear(r)
  /\ IF r.action = "stop"
     THEN Stop(p) /\ Hush(p)
     ELSE /\ task' = [task EXCEPT ![p] = Resting]
          /\ UNCHANGED <<controlVars, backlog, sent>>
  /\ UNCHANGED <<calls, done>>

\* A signal, or an error of accept: select! drops a request it is reading.
Leave(p) ==
  /\ task[p].step \in {"idle", "reading"}
  /\ Stop(p)
  /\ Hush(p)
  /\ UNCHANGED <<calls, caller, done>>

Killed(p) ==
  /\ Kill(p)
  /\ Hush(p)
  /\ UNCHANGED <<calls, caller, done>>

Claim(p) ==
  /\ \/ Start(p) \/ CheckControl(p) \/ RemoveStale(p) \/ Replay(p)
     \/ OpenJournal(p) \/ CreateControl(p) \/ WriteControl(p)
  /\ UNCHANGED requestVars

\* Drop: the control file first, then the listener
Withdraw(p) ==
  /\ RemoveOwn(p)
  /\ Hush(p)
  /\ UNCHANGED <<calls, caller, done>>

Serve(p) ==
  Accept(p) \/ ReadRequest(p) \/ ReadFails(p) \/ Handle(p) \/ Respond(p)

RequestNext ==
  \/ \E o \in Operator :
       \/ \E action \in Action : ReadEndpoint(o, action)
       \/ \E p \in Process : Connect(o, p)
       \/ Send(o)
       \/ GiveUp(o)
  \/ \E p \in Process : Claim(p) \/ Serve(p) \/ Leave(p) \/ Withdraw(p) \/ Killed(p)
  \/ PortChanges /\ UNCHANGED requestVars

(***************************************************************************)
(* The task of a service makes progress: its timers fire, and a command    *)
(* comes to an end, because publishing a short link has a time limit of    *)
(* its own.  Nothing is assumed of callers, signals or starts.             *)
(***************************************************************************)
RequestFairness ==
  \A p \in Process :
    /\ WF_serviceVars(Serve(p))
    /\ WF_serviceVars(Withdraw(p))

RequestSpec == RequestInit /\ [][RequestNext]_serviceVars /\ RequestFairness

-----------------------------------------------------------------------------
(* Properties *)

(***************************************************************************)
(* An operator who repeats a command that seemed to fail is not overtaken  *)
(* by the first one: a process handles the commands of one operator once   *)
(* each, in the order of its calls, given up or not; and unless starts     *)
(* have overlapped, no process handles one after a process before it has   *)
(* handled a later one.  So the URL an operator is shown last has not been *)
(* closed by its own earlier command (request_at_path gives up after five  *)
(* seconds, accept does not).                                              *)
(***************************************************************************)
CommandsInOrder ==
  \A p, q \in Process :
    LET r == task[p].request IN
    task[p].step = "handling" /\ (p = q \/ ~overlapped) => done[q][r.by] < r.nth

(***************************************************************************)
(* Callers that connect and then say nothing, or go away, delay the others *)
(* and do not stop them: a command that was sent to the service that       *)
(* listens is handled as long as that service goes on serving              *)
(* (ControlServer::accept reads one connection at a time).                 *)
(***************************************************************************)
CommandsAreReached ==
  \A o \in Operator, n \in 1..MaxCalls, p \in Process :
    (/\ caller[o].stage = "waiting"
     /\ caller[o].request.nth = n
     /\ caller[o].request.token = p
     /\ at[p] = "serving")
      ~> (at[p] # "serving" \/ done[p][o] >= n)
=============================================================================
