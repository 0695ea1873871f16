---------------------- MODULE ReconnectingClientProofs ----------------------
(***************************************************************************)
(* Proofs about ReconnectingClient, for any number of calls and            *)
(* connections: no handshake leaves a connection behind, and the client    *)
(* keeps what SessionLink promises.                                        *)
(*                                                                         *)
(* The argument needs the mutex to exclude, and nothing of the order in    *)
(* which it is handed on: queue and lock have no type here.                *)
(***************************************************************************)
EXTENDS ReconnectingClient, TLAPS

\* The types the argument needs
Typed ==
  /\ connection \in [Number -> {"unused", "open", "lost", "closed"}]
  /\ current \in Number
  /\ at \in [Call -> Stage]
  /\ using \in [Call -> Number \cup {None}]
  /\ \A t \in Call : at[t] \notin {"idle", "copying"} => using[t] \in Number

Gone(n) == connection[n] \in {"lost", "closed"}

\* Whoever is past its recheck has the mutex.
Exclusive == \A t \in Call : at[t] \in Holding => lock = t

\* What was copied was made before.
Made ==
  /\ connection[current] # "unused"
  /\ \A t \in Call : at[t] \notin {"idle", "copying"} => connection[using[t]] # "unused"

\* A call reconnects because the connection in use is gone.
Needed ==
  \A t \in Call :
    /\ at[t] = "relocking" => Gone(using[t])
    /\ at[t] \in {"dialing", "authorizing"} => Gone(current)
    /\ at[t] = "authorizing" => using[t] # current

ClientInvariant == Typed /\ Exclusive /\ Made /\ Needed /\ NoStrayConnection

\* Initially the one connection is the one in use.
LEMMA ClientInitially ==
  ASSUME ClientInit
  PROVE  ClientInvariant
<1>1. /\ \A t \in Call : at[t] = "idle" /\ using[t] = None
      /\ current = 1 /\ 1 \in Number
      /\ \A n \in Number : connection[n] = IF n = 1 THEN "open" ELSE "unused"
  BY ClientAssumption DEF ClientInit, Number
<1>2. Typed
  BY <1>1 DEF ClientInit, Typed, Stage, Holding, Waiting
<1>3. Exclusive /\ Made /\ Needed
  BY <1>1 DEF Exclusive, Made, Needed, Holding, Gone
<1>4. NoStrayConnection
  BY <1>1 DEF NoStrayConnection, IsOpen
<1> QED BY <1>2, <1>3, <1>4 DEF ClientInvariant

-----------------------------------------------------------------------------
(* The mutex *)

\* A call moves; the others stay where they are, with what they use.
Moved(t) ==
  \A u \in Call \ {t} : at'[u] = at[u] /\ using'[u] = using[u]

\* Releasing the mutex leaves nobody in it, and taking it disturbs nobody.
LEMMA ReleaseExcludes ==
  ASSUME Exclusive, NEW t \in Call, lock = t, Moved(t), at'[t] \notin Holding
  PROVE  Exclusive'
BY DEF Exclusive, Moved

\* Whoever takes the mutex finds nobody else in it.
LEMMA AcquireExcludes ==
  ASSUME Exclusive, NEW t \in Call, Acquire(t) \/ UNCHANGED lock, Moved(t), at'[t] \notin Holding
  PROVE  Exclusive'
<1>1. lock = None => \A u \in Call : at[u] \notin Holding
  BY ClientAssumption DEF Exclusive
<1> QED BY <1>1 DEF Exclusive, Moved, Acquire

-----------------------------------------------------------------------------
(* Steps *)

\* What a call does that makes and ends no connection.
Quietly(t) ==
  \/ Begin(t) \/ Copy(t) \/ Open(t) \/ OpenFails(t) \/ Recheck(t)
  \/ RetryOpens(t) \/ RetryFails(t) \/ DialFails(t) \/ Reopen(t)

\* Most steps of a call leave the connections as they were.
LEMMA QuietStep ==
  ASSUME ClientInvariant, NEW t \in Call, Quietly(t)
  PROVE  ClientInvariant' /\ UNCHANGED <<connection, current, closed>>
<1> USE DEF net, mutex, object, Goto, Use, Finish, ClientInvariant
<1>0. /\ at \in [Call -> Stage] /\ using \in [Call -> Number \cup {None}]
      /\ current \in Number
  BY DEF Typed
<1>1. UNCHANGED <<connection, current, closed>>
  BY DEF Quietly, Begin, Copy, Open, OpenFails, Recheck, RetryOpens, RetryFails, DialFails, Reopen
<1>2. /\ Moved(t) /\ at' \in [Call -> Stage] /\ using' \in [Call -> Number \cup {None}]
      /\ at[t] # "authorizing" /\ at'[t] # "authorizing"
  BY <1>0 DEF Quietly, Begin, Copy, Open, OpenFails, Recheck, RetryOpens, RetryFails, DialFails,
              Reopen, Moved, Stage, Holding, Waiting
<1>3. at'[t] \notin {"idle", "copying"} => using'[t] \in Number /\ connection[using'[t]] # "unused"
  BY <1>0 DEF Quietly, Begin, Copy, Open, OpenFails, Recheck, RetryOpens, RetryFails, DialFails,
              Reopen, Typed, Made
<1>4. /\ at'[t] = "relocking" => Gone(using'[t])
      /\ at'[t] = "dialing" => Gone(current)
  BY <1>0 DEF Quietly, Begin, Copy, Open, OpenFails, Recheck, RetryOpens, RetryFails, DialFails,
              Reopen, Typed, Made, Needed, Gone, IsOpen
<1>5. Typed'
  BY <1>0, <1>1, <1>2, <1>3 DEF Typed, Moved
<1>6. Made'
  BY <1>1, <1>2, <1>3 DEF Made, Moved
<1>7. Needed'
  BY <1>1, <1>2, <1>4 DEF Needed, Moved, Gone
<1>8. Exclusive'
  <2>1. CASE Begin(t) \/ Open(t) \/ OpenFails(t)
    <3>1. (Acquire(t) \/ UNCHANGED lock) /\ at'[t] \notin Holding
      BY <1>0, <2>1 DEF Begin, Open, OpenFails, Holding
    <3> QED BY <1>2, <3>1, AcquireExcludes
  <2>2. CASE Copy(t) \/ RetryOpens(t) \/ DialFails(t) \/ Reopen(t)
    <3>1. lock = t /\ at'[t] \notin Holding
      BY <1>0, <2>2 DEF Copy, RetryOpens, DialFails, Reopen, Exclusive, Holding
    <3> QED BY <1>2, <3>1, ReleaseExcludes
  <2>3. CASE Recheck(t) \/ RetryFails(t)
    <3>1. lock = t /\ lock' = lock
      BY <2>3 DEF Recheck, RetryFails, Exclusive, Holding
    <3> QED BY <1>2, <3>1 DEF Exclusive, Moved
  <2> QED BY <2>1, <2>2, <2>3 DEF Quietly
<1>9. NoStrayConnection'
  BY <1>1, <1>2 DEF NoStrayConnection, Moved, IsOpen
<1> QED BY <1>1, <1>5, <1>6, <1>7, <1>8, <1>9

\* A new connection is open, and not the one in use.
LEMMA DialStep ==
  ASSUME ClientInvariant, NEW t \in Call, Dial(t)
  PROVE  ClientInvariant' /\ UNCHANGED <<current, closed, IsOpen(current)>>
<1> USE DEF mutex, object, ClientInvariant
<1>0. /\ at \in [Call -> Stage] /\ using \in [Call -> Number \cup {None}]
      /\ current \in Number /\ connection \in [Number -> {"unused", "open", "lost", "closed"}]
      /\ lock = t /\ lock' = lock /\ current' = current /\ closed' = closed
  BY DEF Typed, Dial, Exclusive, Holding
<1>1. PICK n \in Number : /\ connection[n] = "unused"
                          /\ connection' = [connection EXCEPT ![n] = "open"]
                          /\ using' = [using EXCEPT ![t] = n]
  BY DEF Dial, Use
<1>2. /\ at[t] = "dialing" /\ at' = [at EXCEPT ![t] = "authorizing"] /\ Moved(t)
  BY <1>0, <1>1 DEF Dial, Goto, Moved
<1>3. n # current /\ connection'[current] = connection[current]
      /\ \A m \in Number \ {n} : connection'[m] = connection[m]
  BY <1>0, <1>1 DEF Made
<1>4. Typed'
  BY <1>0, <1>1, <1>2 DEF Typed, Stage, Holding
<1>5. Exclusive'
  BY <1>0, <1>2 DEF Exclusive, Moved
<1>6. \A u \in Call \ {t} : at[u] \notin {"idle", "copying"} => using[u] \in Number \ {n}
  BY <1>1 DEF Made, Typed
<1>7. Made'
  BY <1>0, <1>1, <1>2, <1>3, <1>6 DEF Made, Moved
<1>8. Needed'
  <2>1. at'[t] = "authorizing" /\ using'[t] = n /\ Gone(current)
    BY <1>0, <1>1, <1>2 DEF Needed
  <2>2. \A u \in Call \ {t} : at[u] \notin {"dialing", "authorizing"}
    BY <1>0 DEF Exclusive, Holding
  <2> QED BY <1>0, <1>2, <1>3, <1>6, <2>1, <2>2 DEF Needed, Moved, Gone
<1>9. NoStrayConnection'
  BY <1>0, <1>1, <1>2, <1>3 DEF NoStrayConnection, IsOpen, Moved
<1> QED BY <1>0, <1>3, <1>4, <1>5, <1>7, <1>8, <1>9 DEF IsOpen

\* The connection of a handshake is shut when the call ends without it.
LEMMA AbandonStep ==
  ASSUME ClientInvariant, NEW t \in Call, at[t] = "authorizing", Shut(using[t]), Finish(t), Release,
         UNCHANGED <<current, closed>>
  PROVE  ClientInvariant' /\ UNCHANGED <<current, closed, IsOpen(current)>>
<1> USE DEF ClientInvariant
<1>0. /\ at \in [Call -> Stage] /\ using \in [Call -> Number \cup {None}]
      /\ current \in Number /\ connection \in [Number -> {"unused", "open", "lost", "closed"}]
      /\ lock = t /\ using[t] \in Number /\ using[t] # current
  BY DEF Typed, Exclusive, Holding, Needed
<1>1. /\ connection' = [connection EXCEPT ![using[t]] = "closed"]
      /\ at' = [at EXCEPT ![t] = "idle"] /\ using' = [using EXCEPT ![t] = None]
      /\ Moved(t)
  BY <1>0 DEF Shut, Finish, Goto, Use, Moved
<1>2. /\ connection'[using[t]] = "closed" /\ connection'[current] = connection[current]
      /\ \A m \in Number \ {using[t]} : connection'[m] = connection[m]
  BY <1>0, <1>1
<1>3. \A u \in Call \ {t} : at[u] \notin Holding
  BY <1>0 DEF Exclusive
<1>4. Typed'
  BY <1>0, <1>1 DEF Typed, Stage
<1>5. Exclusive'
  BY <1>0, <1>1, ReleaseExcludes DEF Holding
<1>6. Made'
  BY <1>0, <1>1, <1>2 DEF Made, Moved, Typed
<1>7. Needed'
  <2>1. \A m \in Number : Gone(m) => Gone(m)'
    BY <1>0, <1>2 DEF Gone
  <2> QED BY <1>0, <1>1, <1>3, <2>1 DEF Needed, Moved, Holding, Typed, Gone
<1>8. NoStrayConnection'
  BY <1>0, <1>1, <1>2 DEF NoStrayConnection, IsOpen, Moved
<1> QED BY <1>0, <1>2, <1>4, <1>5, <1>6, <1>7, <1>8 DEF IsOpen

\* A new connection is put in the place of one that is gone.
LEMMA ReplaceStep ==
  ASSUME ClientInvariant, NEW t \in Call, Authorized(t), ~closed
  PROVE  /\ ClientInvariant'
         /\ ~IsOpen(current) /\ closed' = closed /\ current' \in Number \ {current}
<1> USE DEF object, ClientInvariant
<1>0. /\ at \in [Call -> Stage] /\ using \in [Call -> Number \cup {None}]
      /\ current \in Number /\ lock = t /\ lock' = lock
      /\ using[t] \in Number /\ using[t] # current /\ Gone(current)
  BY DEF Typed, Exclusive, Holding, Needed, Authorized, mutex
<1>1. /\ connection' = connection /\ using' = using /\ current' = using[t] /\ closed' = closed
      /\ at' = [at EXCEPT ![t] = "reopening"] /\ Moved(t)
  BY <1>0 DEF Authorized, Goto, Moved
<1>2. \A u \in Call \ {t} : at[u] \notin Holding
  BY <1>0 DEF Exclusive
<1>3. Typed'
  BY <1>0, <1>1 DEF Typed, Stage, Holding
<1>4. Exclusive'
  BY <1>0, <1>1 DEF Exclusive, Moved
<1>5. Made'
  BY <1>0, <1>1 DEF Made, Moved, Authorized
<1>6. Needed'
  BY <1>0, <1>1, <1>2 DEF Needed, Moved, Holding, Gone
<1>7. NoStrayConnection'
  <2>1. \A n \in Number : IsOpen(n) => n = using[t]
    BY <1>0, <1>2 DEF NoStrayConnection, Gone, IsOpen, Holding
  <2> QED BY <1>1, <2>1 DEF NoStrayConnection, IsOpen
<1> QED BY <1>0, <1>1, <1>3, <1>4, <1>5, <1>6, <1>7 DEF IsOpen, Gone

\* A connection that ends by itself, or by close()
LEMMA EndsStep ==
  ASSUME ClientInvariant, NEW n \in Number, IsOpen(n), NEW how \in {"lost", "closed"},
         connection' = [connection EXCEPT ![n] = how], UNCHANGED <<current, calls, lock>>
  PROVE  ClientInvariant'
<1> USE DEF ClientInvariant, calls
<1>0. connection \in [Number -> {"unused", "open", "lost", "closed"}] /\ current \in Number
  BY DEF Typed
<1>1. connection'[n] = how /\ \A m \in Number \ {n} : connection'[m] = connection[m]
  BY <1>0
<1>2. Typed' /\ Exclusive'
  BY <1>0 DEF Typed, Exclusive
<1>3. \A m \in Number : /\ Gone(m) => Gone(m)'
                        /\ connection[m] # "unused" => connection'[m] # "unused"
                        /\ IsOpen(m)' => IsOpen(m)
  BY <1>1 DEF Gone, IsOpen
<1>4. Made'
  BY <1>0, <1>3 DEF Made, Typed
<1>5. Needed'
  BY <1>0, <1>3 DEF Needed, Typed, Gone
<1>6. NoStrayConnection'
  BY <1>3 DEF NoStrayConnection
<1> QED BY <1>2, <1>4, <1>5, <1>6

\* Nothing of what the invariant is about changes.
LEMMA ClientStutters ==
  ASSUME ClientInvariant, UNCHANGED <<connection, current, calls, lock>>
  PROVE  ClientInvariant'
BY DEF ClientInvariant, Typed, Exclusive, Made, Needed, NoStrayConnection, IsOpen, Gone, calls

\* A call that is dropped before its handshake, or after it, leaves the mutex.
LEMMA CancelStep ==
  ASSUME ClientInvariant, NEW t \in Call, Cancel(t), at[t] # "authorizing"
  PROVE  ClientInvariant' /\ UNCHANGED <<connection, current, closed>>
<1> USE DEF object, ClientInvariant
<1>0. at \in [Call -> Stage] /\ using \in [Call -> Number \cup {None}]
  BY DEF Typed
<1>1. /\ UNCHANGED <<connection, current, closed>>
      /\ at' = [at EXCEPT ![t] = "idle"] /\ using' = [using EXCEPT ![t] = None]
      /\ Moved(t) /\ at'[t] = "idle"
  BY <1>0 DEF Cancel, Finish, Goto, Use, Moved
<1>2. Typed'
  BY <1>0, <1>1 DEF Typed, Stage
<1>3. Exclusive'
  <2>1. CASE lock = t
    BY <1>1, <2>1, ReleaseExcludes DEF Holding
  <2>2. CASE lock # t
    BY <1>1, <2>2, AcquireExcludes DEF Cancel, Holding
  <2> QED BY <2>1, <2>2
<1>4. Made' /\ Needed'
  BY <1>1 DEF Made, Needed, Moved, Gone
<1>5. NoStrayConnection'
  BY <1>1 DEF NoStrayConnection, Moved, IsOpen
<1> QED BY <1>1, <1>2, <1>3, <1>4, <1>5

\* What SessionLink lets a step do
PromisedStep == [Promise!Drop \/ Promise!Restore \/ Promise!End]_(Promise!vars)

\* Every step keeps the invariant, and is a step of SessionLink, or none.
LEMMA ClientStep ==
  ASSUME ClientInvariant, [ClientNext]_clientVars
  PROVE  ClientInvariant' /\ PromisedStep
<1>1. ASSUME UNCHANGED <<current, closed, IsOpen(current)>>
      PROVE  PromisedStep
  BY <1>1 DEF PromisedStep, Promise!vars
<1>2. ASSUME UNCHANGED <<connection, current, closed>>
      PROVE  PromisedStep
  BY <1>1, <1>2 DEF IsOpen
<1>3. ASSUME NEW t \in Call, Begin(t) \/ Progress(t) \/ Cancel(t) \/ HostGrants(t)
      PROVE  ClientInvariant' /\ PromisedStep
  <2>1. CASE Quietly(t)
    BY <1>2, <2>1, QuietStep
  <2>2. CASE Dial(t)
    BY <1>1, <2>2, DialStep
  <2>3. CASE \/ Authorized(t) /\ closed
             \/ AuthorizeFails(t)
             \/ Cancel(t) /\ at[t] = "authorizing"
    <3>1. /\ at[t] = "authorizing" /\ Shut(using[t]) /\ Finish(t)
          /\ UNCHANGED <<current, closed>>
      BY <2>3 DEF Authorized, AuthorizeFails, Cancel, object
    <3>2. Release
      BY <2>3 DEF Authorized, AuthorizeFails, Cancel, ClientInvariant, Exclusive, Holding
    <3> QED BY <1>1, <3>1, <3>2, AbandonStep
  <2>4. CASE Authorized(t) /\ ~closed
    <3>1. /\ ClientInvariant'
          /\ ~IsOpen(current) /\ ~closed /\ closed' = closed /\ current' \in Number \ {current}
      BY <2>4, ReplaceStep
    <3>2. IsOpen(current)' \in BOOLEAN
      BY DEF IsOpen
    <3>3. Promise!Restore
      BY <3>1, <3>2 DEF Promise!Restore
    <3> QED BY <3>1, <3>3 DEF PromisedStep
  <2>5. CASE Cancel(t) /\ at[t] # "authorizing"
    BY <1>2, <2>5, CancelStep
  <2>6. CASE HostGrants(t)
    BY <1>2, <2>6, ClientStutters DEF HostGrants, net, mutex, calls, object
  <2> QED BY <1>3, <2>1, <2>2, <2>3, <2>4, <2>5, <2>6 DEF Progress, Quietly
<1>4. CASE Close
  <2>1. current \in Number /\ connection \in [Number -> {"unused", "open", "lost", "closed"}]
    BY DEF ClientInvariant, Typed
  <2>2. CASE lock = None /\ IsOpen(current)
    <3>1. ClientInvariant'
      BY <1>4, <2>1, <2>2, EndsStep DEF Close, Shut, mutex
    <3>2. closed' = TRUE /\ current' = current /\ IsOpen(current)' = FALSE
      BY <1>4, <2>1, <2>2 DEF Close, Shut, IsOpen
    <3>3. Promise!End
      BY <3>2 DEF Promise!End
    <3> QED BY <3>1, <3>3 DEF PromisedStep
  <2>3. CASE ~(lock = None /\ IsOpen(current))
    <3>1. ClientInvariant'
      BY <1>4, <2>3, ClientStutters DEF Close, mutex
    <3>2. closed' = TRUE /\ current' = current /\ IsOpen(current)' = IsOpen(current)
      BY <1>4, <2>3 DEF Close, IsOpen
    <3>3. Promise!End
      BY <3>2 DEF Promise!End
    <3> QED BY <3>1, <3>3 DEF PromisedStep
  <2> QED BY <2>2, <2>3
<1>5. ASSUME NEW n \in Number, Lose(n)
      PROVE  ClientInvariant' /\ PromisedStep
  <2>1. current \in Number /\ connection \in [Number -> {"unused", "open", "lost", "closed"}]
    BY DEF ClientInvariant, Typed
  <2>2. ClientInvariant'
    BY <1>5, EndsStep DEF Lose, mutex
  <2>3. closed' = closed /\ current' = current
    BY <1>5 DEF Lose, object
  <2>4. CASE n = current
    <3>1. IsOpen(current)' = FALSE
      BY <1>5, <2>1, <2>3, <2>4 DEF Lose, IsOpen
    <3>2. Promise!Drop
      BY <2>3, <3>1 DEF Promise!Drop
    <3> QED BY <2>2, <3>2 DEF PromisedStep
  <2>5. CASE n # current
    <3>1. IsOpen(current)' = IsOpen(current)
      BY <1>5, <2>1, <2>3, <2>5 DEF Lose, IsOpen
    <3> QED BY <1>1, <2>2, <2>3, <3>1
  <2> QED BY <2>4, <2>5
<1>6. ASSUME HostRemoves \/ \E n \in Number : Fill(n) \/ Drain(n)
      PROVE  ClientInvariant' /\ PromisedStep
  BY <1>2, <1>6, ClientStutters DEF HostRemoves, Fill, Drain, net, mutex, object
<1>7. CASE UNCHANGED clientVars
  BY <1>2, <1>7, ClientStutters DEF clientVars, calls
<1> QED BY <1>3, <1>4, <1>5, <1>6, <1>7 DEF ClientNext, Surroundings

\* Whatever the calls of a client do together, the mutex of open_stream keeps
\* them from reconnecting but one at a time, and only when they must.
THEOREM ClientInvariantHolds == ClientSpec => []ClientInvariant
<1>1. ClientInit => ClientInvariant
  BY ClientInitially
<1>2. ClientInvariant /\ [ClientNext]_clientVars => ClientInvariant'
  BY ClientStep
<1> QED BY <1>1, <1>2, PTL DEF ClientSpec

\* A handshake that is denied, times out, is dropped or finds the client closed
\* leaves no connection open behind (open_stream, authorize).
THEOREM NothingStrays == ClientSpec => []NoStrayConnection
<1>1. ClientInvariant => NoStrayConnection
  BY DEF ClientInvariant
<1> QED BY <1>1, ClientInvariantHolds, PTL

\* SiteClient and NativeSiteClient implement SessionLink: one connection at a
\* time, replaced only when it is gone, and never after close().
THEOREM ClientImplementsLink == ClientSpec => ImplementsLink
<1>1. ClientInit => Promise!Init
  <2>1. ASSUME ClientInit
        PROVE  /\ current \in Number /\ IsOpen(current) = TRUE /\ closed = FALSE
    <3>1. current = 1 /\ 1 \in Number
      BY <2>1, ClientAssumption DEF ClientInit, Number
    <3> QED BY <2>1, <3>1 DEF ClientInit, IsOpen
  <2> QED BY <2>1 DEF Promise!Init
<1>2. ClientInvariant /\ [ClientNext]_clientVars =>
        [Promise!Drop \/ Promise!Restore \/ Promise!End]_(Promise!vars)
  BY ClientStep DEF PromisedStep
<1> QED BY <1>1, <1>2, ClientInvariantHolds, PTL DEF ClientSpec, ImplementsLink, Promise!Spec
=============================================================================
