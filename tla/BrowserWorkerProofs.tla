------------------------- MODULE BrowserWorkerProofs ------------------------
(***************************************************************************)
(* Proofs about BrowserWorker, for any number of pages, requests, opened   *)
(* invitations and evictions of the worker: no client is left open that is *)
(* not in use, and a request is told that no page could resume the session *)
(* only when that is so, or when something else went wrong.                *)
(***************************************************************************)
EXTENDS BrowserWorker, FiniteSetTheorems, TLAPS

RequestRecord ==
  [stage : {"idle", "waiting", "serving"}, by : Client \cup {None},
   window : Page \cup {None}]

RecoveryRecord ==
  [stage : {"off", "matching", "asking", "loading", "resuming"},
   asked : SUBSET Page, session : Session \cup {None}]

(***************************************************************************)
(* A recovery has the payload it tries; requests are only served while     *)
(* there is a client; and without one every page that keeps a payload is   *)
(* among those that were asked for it.                                     *)
(***************************************************************************)
WorkerInv ==
  /\ WorkerTypeOK
  /\ OneClientOpen
  /\ recovery.stage \in {"loading", "resuming"} => recovery.session \in Session
  /\ client = None => \A r \in Request : request[r].stage # "serving"
  /\ client = None /\ recovery.stage = "asking" =>
       \A p \in Page : page[p] \in Session => p \in recovery.asked

\* What may be told to a request that waits
Excused ==
  Disconnected =>
    \/ CanResume = {}
    \/ recovery.session \in kicked
    \/ wasm = "failed" \/ failures' # failures
    \/ client # None

\* No request, and no recovery
LEMMA IdleRecords == Idle \in RequestRecord /\ NoRecovery \in RecoveryRecord
                     /\ Idle.stage = "idle" /\ NoRecovery.stage = "off"
BY DEF Idle, NoRecovery, RequestRecord, RecoveryRecord

(***************************************************************************)
(* There is a client object to take: the open one, the current one and the *)
(* ones of the requests are fewer than there are.                          *)
(***************************************************************************)
LEMMA FreshIsClient ==
  ASSUME WorkerInv
  PROVE  Fresh \in Client
<1> DEFINE f == [r \in Request |-> request[r].by]
           by == {request[r].by : r \in Request}
           used == by \cup {client}
<1>1. IsFiniteSet(by) /\ Cardinality(by) <= Cardinality(Request)
  <2>1. f \in Surjection(Request, by)
    BY DEF Surjection
  <2> HIDE DEF f, by
  <2> QED BY <2>1, FS_Surjection, WorkerAssumption
<1>2. /\ Cardinality(by) \in Nat /\ Cardinality(Request) \in Nat
      /\ IsFiniteSet(used) /\ Cardinality(used) \in Nat /\ Cardinality(used) <= Cardinality(by) + 1
  <2> HIDE DEF by
  <2>1. Cardinality(by) \in Nat /\ Cardinality(Request) \in Nat
    BY <1>1, FS_CardinalityType, WorkerAssumption
  <2>2. /\ IsFiniteSet(used)
        /\ Cardinality(used) = IF client \in by THEN Cardinality(by) ELSE Cardinality(by) + 1
    BY <1>1, FS_AddElement
  <2> HIDE DEF used
  <2> QED BY <2>1, <2>2
<1>3. ~(Client \subseteq used)
  <2> HIDE DEF used, by
  <2> SUFFICES ASSUME Client \subseteq used PROVE FALSE
    OBVIOUS
  <2>1. Cardinality(Client) <= Cardinality(used) /\ Cardinality(Client) \in Nat
    BY <1>2, FS_Subset, FS_CardinalityType
  <2> QED BY <1>1, <1>2, <2>1, WorkerAssumption
<1>4. open \cup {client} \cup by = used
  BY DEF WorkerInv, OneClientOpen
<1>5. \E k \in Client : k \notin open \cup {client} \cup by
  <2> HIDE DEF used, by
  <2> QED BY <1>3, <1>4
<1> QED BY <1>5 DEF Fresh

-----------------------------------------------------------------------------
(* What the steps have in common *)

\* The requests that wait are told, and nothing else changes for a request.
LEMMA DisconnectEffect ==
  ASSUME WorkerInv, Disconnect
  PROVE  /\ request' \in [Request -> RequestRecord] /\ page' \in [Page -> Session \cup {None, NoWindow}]
         /\ recovery' = NoRecovery
         /\ \A r \in Request : request'[r].stage = "serving" => request[r].stage = "serving"
<1>1. request \in [Request -> RequestRecord] /\ page \in [Page -> Session \cup {None, NoWindow}]
  BY DEF WorkerInv, WorkerTypeOK, RequestRecord
<1>2. /\ recovery' = NoRecovery
      /\ request' = [r \in Request |-> IF r \in Under("waiting") THEN Idle ELSE request[r]]
      /\ page' = [p \in Page |-> IF p \in {request[r].window : r \in Under("waiting")}
                                 THEN None ELSE page[p]]
  BY DEF Disconnect, ShowError
<1> QED BY <1>1, <1>2, IdleRecords

\* A step that leaves the clients, their payload and the invitations alone
LEMMA QuietStep ==
  ASSUME WorkerInv, client' = client, payload' = payload, open' = open,
         wasm' \in {"unset", "loading", "ready", "failed"}, recovery' \in RecoveryRecord,
         arm' \in [Session -> {"new", "loading", "connecting", "armed", "failed"}],
         request' \in [Request -> RequestRecord],
         page' \in [Page -> Session \cup {None, NoWindow}],
         mail' \subseteq Session, kicked' \subseteq Session, failures' \in 0..MaxFailures,
         recovery'.stage \in {"loading", "resuming"} => recovery'.session \in Session,
         client = None => \A r \in Request : request'[r].stage # "serving",
         client = None /\ recovery'.stage = "asking" =>
           \A p \in Page : page'[p] \in Session => p \in recovery'.asked
  PROVE  WorkerInv'
<1>1. WorkerTypeOK'
  BY DEF WorkerInv, WorkerTypeOK, RecoveryRecord, RequestRecord
<1> QED BY <1>1 DEF WorkerInv, OneClientOpen

\* A client is put in place.
LEMMA InstallEffect ==
  ASSUME WorkerInv, NEW s \in Session, Install(Fresh, s)
  PROVE  /\ client' \in Client /\ client' # None /\ payload' \in Session /\ payload' # None
         /\ open' \subseteq {client'} /\ open' \subseteq Client
BY FreshIsClient, WorkerAssumption DEF Install, WorkerInv, OneClientOpen, WorkerTypeOK

\* A failure is counted.
LEMMA FailEffect ==
  ASSUME WorkerInv, Fail
  PROVE  failures' \in 0..MaxFailures /\ failures' # failures
BY WorkerAssumption DEF Fail, WorkerInv, WorkerTypeOK

-----------------------------------------------------------------------------
(* The steps *)

\* The types of what the steps leave as it is
LEMMA Typed ==
  ASSUME WorkerInv
  PROVE  /\ client \in Client \cup {None} /\ payload \in Session \cup {None}
         /\ wasm \in {"unset", "loading", "ready", "failed"}
         /\ recovery \in RecoveryRecord
         /\ arm \in [Session -> {"new", "loading", "connecting", "armed", "failed"}]
         /\ request \in [Request -> RequestRecord]
         /\ page \in [Page -> Session \cup {None, NoWindow}]
         /\ mail \subseteq Session /\ kicked \subseteq Session
         /\ failures \in 0..MaxFailures
BY DEF WorkerInv, WorkerTypeOK, RecoveryRecord, RequestRecord

\* An invitation is opened: nobody is told anything.
LEMMA ArmingStep ==
  ASSUME WorkerInv, Arming
  PROVE  WorkerInv' /\ Excused
<1>1. request' = request /\ page' = page /\ recovery' = recovery /\ kicked' = kicked /\ mail' = mail
  BY DEF Arming, OpenInvitation, ArmConnects, Armed, ArmFails, globals
<1>2. Excused
  BY <1>1 DEF Excused, Disconnected
<1>3. PICK s \in Session : OpenInvitation(s) \/ ArmConnects(s) \/ Armed(s) \/ ArmFails(s)
  BY DEF Arming
<1>4. arm' \in [Session -> {"new", "loading", "connecting", "armed", "failed"}]
  BY <1>3, Typed DEF OpenInvitation, ArmConnects, Armed, ArmFails
<1>5. CASE ~Armed(s)
  <2>1. /\ client' = client /\ payload' = payload /\ open' = open
        /\ wasm' \in {"unset", "loading", "ready", "failed"} /\ failures' \in 0..MaxFailures
    BY <1>3, <1>5, Typed, FailEffect
       DEF OpenInvitation, ArmConnects, ArmFails, globals, NeedWasm
  <2>2. WorkerInv'
    BY <1>1, <1>4, <2>1, Typed, QuietStep DEF WorkerInv
  <2> QED BY <1>2, <2>2
<1>6. CASE Armed(s)
  <2>1. Install(Fresh, s) /\ wasm' = wasm /\ failures' = failures
    BY <1>6 DEF Armed
  <2>2. /\ client' \in Client /\ client' # None /\ payload' \in Session /\ payload' # None
        /\ open' \subseteq {client'} /\ open' \subseteq Client
    BY <2>1, InstallEffect
  <2>3. WorkerTypeOK'
    BY <1>1, <1>4, <2>1, <2>2, Typed DEF WorkerTypeOK, RecoveryRecord, RequestRecord
  <2>4. WorkerInv'
    BY <1>1, <2>2, <2>3 DEF WorkerInv, OneClientOpen
  <2> QED BY <1>2, <2>4
<1> QED BY <1>5, <1>6

\* The pages are asked, and one answers or none does.
LEMMA AskingStep ==
  ASSUME WorkerInv,
         AskWindows \/ AskingTimesOut \/ \E p \in Page : PageAnswers(p)
  PROVE  WorkerInv' /\ Excused
<1>1. /\ client' = client /\ payload' = payload /\ open' = open /\ arm' = arm /\ mail' = mail
      /\ kicked' = kicked /\ failures' = failures
  BY DEF AskWindows, AskingTimesOut, PageAnswers
<1>2. ASSUME Disconnect, wasm' = wasm
      PROVE  WorkerInv'
  BY <1>1, <1>2, DisconnectEffect, IdleRecords, Typed, QuietStep DEF WorkerInv
<1>3. CASE AskWindows
  <2>1. CASE Live = {}
    <3>1. Disconnect /\ wasm' = wasm
      BY <1>3, <2>1 DEF AskWindows
    <3>2. Excused
      BY <2>1 DEF Excused, CanResume
    <3> QED BY <1>2, <3>1, <3>2
  <2>2. CASE Live # {}
    <3>1. /\ recovery' = [recovery EXCEPT !.stage = "asking", !.asked = Live]
          /\ request' = request /\ page' = page /\ wasm' = wasm
      BY <1>3, <2>2 DEF AskWindows
    <3>2. recovery' \in RecoveryRecord /\ recovery'.stage = "asking" /\ recovery'.asked = Live
      BY <3>1, Typed DEF RecoveryRecord, Live
    <3>3. \A p \in Page : page'[p] \in Session => p \in recovery'.asked
      BY <3>1, <3>2, WorkerAssumption DEF Live
    <3>4. WorkerInv'
      BY <1>1, <3>1, <3>2, <3>3, Typed, QuietStep DEF WorkerInv
    <3>5. Excused
      BY <3>1 DEF Excused, Disconnected
    <3> QED BY <3>4, <3>5
  <2> QED BY <2>1, <2>2
<1>4. CASE AskingTimesOut
  <2>1. Disconnect /\ wasm' = wasm
    BY <1>4 DEF AskingTimesOut
  <2>2. client = None => CanResume = {}
    BY <1>4 DEF AskingTimesOut, CanResume, Live, WorkerInv
  <2> QED BY <1>2, <2>1, <2>2 DEF Excused
<1>5. ASSUME NEW p \in Page, PageAnswers(p)
      PROVE  WorkerInv' /\ Excused
  <2>1. page[p] \in Session /\ Resume(page[p])
    BY <1>5 DEF PageAnswers
  <2>2. CASE wasm = "failed"
    <3>1. Disconnect /\ wasm' = wasm
      BY <2>1, <2>2 DEF Resume
    <3> QED BY <1>2, <2>2, <3>1 DEF Excused
  <2>3. CASE wasm # "failed"
    <3>1. /\ recovery' = [stage |-> "loading", asked |-> {}, session |-> page[p]]
          /\ request' = request /\ page' = page
          /\ wasm' \in {"unset", "loading", "ready", "failed"}
      BY <2>1, <2>3, Typed DEF Resume, Recover, NeedWasm
    <3>2. /\ recovery' \in RecoveryRecord /\ recovery'.stage = "loading"
          /\ recovery'.session \in Session
      BY <2>1, <3>1 DEF RecoveryRecord
    <3>3. WorkerInv'
      BY <1>1, <3>1, <3>2, Typed, QuietStep DEF WorkerInv
    <3>4. Excused
      BY <3>1 DEF Excused, Disconnected
    <3> QED BY <3>3, <3>4
  <2> QED BY <2>2, <2>3
<1> QED BY <1>3, <1>4, <1>5

\* The client code is loaded and the session resumed, or not.
LEMMA ResumingStep ==
  ASSUME WorkerInv,
         RecoveryConnects \/ Recovered \/ RecoveryFails \/ Loaded \/ LoadFails
  PROVE  WorkerInv' /\ Excused
<1>1. ASSUME Disconnect, client' = client, payload' = payload, open' = open,
             wasm' \in {"unset", "loading", "ready", "failed"},
             arm' \in [Session -> {"new", "loading", "connecting", "armed", "failed"}],
             mail' = mail, kicked' = kicked, failures' \in 0..MaxFailures
      PROVE  WorkerInv'
  BY <1>1, DisconnectEffect, IdleRecords, Typed, QuietStep DEF WorkerInv
<1>2. CASE RecoveryConnects
  <2>1. /\ recovery' = [recovery EXCEPT !.stage = "resuming"] /\ recovery.stage = "loading"
        /\ client' = client /\ payload' = payload /\ open' = open /\ wasm' = wasm /\ arm' = arm
        /\ request' = request /\ page' = page /\ mail' = mail /\ kicked' = kicked
        /\ failures' = failures
    BY <1>2 DEF RecoveryConnects
  <2>2. /\ recovery' \in RecoveryRecord /\ recovery'.stage = "resuming"
        /\ recovery'.session \in Session
    BY <2>1, Typed DEF RecoveryRecord, WorkerInv
  <2>3. WorkerInv'
    BY <2>1, <2>2, Typed, QuietStep DEF WorkerInv
  <2> QED BY <2>1, <2>3 DEF Excused, Disconnected
<1>3. CASE Recovered
  <2>1. /\ recovery.session \in Session /\ Install(Fresh, recovery.session)
        /\ recovery' = NoRecovery /\ wasm' = wasm /\ arm' = arm /\ page' = page /\ mail' = mail
        /\ kicked' = kicked /\ failures' = failures
        /\ request' = [r \in Request |->
                         IF r \in Under("waiting")
                         THEN [request[r] EXCEPT !.stage = "serving", !.by = Fresh]
                         ELSE request[r]]
    BY <1>3 DEF Recovered, WorkerInv
  <2>2. /\ client' \in Client /\ client' # None /\ payload' \in Session /\ payload' # None
        /\ open' \subseteq {client'} /\ open' \subseteq Client
    BY <2>1, InstallEffect
  <2>3. request' \in [Request -> RequestRecord]
        /\ \A r \in Request : request[r].stage = "waiting" => request'[r].stage = "serving"
    <3>1. Fresh \in Client
      BY FreshIsClient
    <3>2. \A r \in Request :
            LET q == [request[r] EXCEPT !.stage = "serving", !.by = Fresh]
            IN  q \in RequestRecord /\ q.stage = "serving"
      BY <3>1, Typed DEF RequestRecord
    <3> QED BY <2>1, <3>2, Typed DEF Under
  <2>4. WorkerTypeOK'
    BY <2>1, <2>2, <2>3, Typed, IdleRecords DEF WorkerTypeOK, RecoveryRecord, RequestRecord
  <2>5. WorkerInv'
    BY <2>1, <2>2, <2>4, IdleRecords DEF WorkerInv, OneClientOpen
  <2>6. Excused
    BY <2>3 DEF Excused, Disconnected
  <2> QED BY <2>5, <2>6
<1>4. CASE RecoveryFails
  <2>1. /\ Disconnect /\ client' = client /\ payload' = payload /\ open' = open /\ wasm' = wasm
        /\ arm' = arm /\ mail' = mail /\ kicked' = kicked
        /\ (recovery.session \in kicked /\ failures' = failures) \/ Fail
    BY <1>4 DEF RecoveryFails
  <2>2. failures' \in 0..MaxFailures /\ (recovery.session \in kicked \/ failures' # failures)
    BY <2>1, FailEffect, Typed
  <2> QED BY <1>1, <2>1, <2>2, Typed DEF Excused
<1>5. CASE Loaded
  <2>1. /\ wasm' = "ready" /\ recovery' = recovery /\ client' = client /\ payload' = payload
        /\ open' = open /\ arm' = arm /\ request' = request /\ page' = page /\ mail' = mail
        /\ kicked' = kicked /\ failures' = failures
    BY <1>5 DEF Loaded
  <2>2. WorkerInv'
    BY <2>1, Typed, QuietStep DEF WorkerInv
  <2> QED BY <2>1, <2>2 DEF Excused, Disconnected
<1>6. CASE LoadFails
  <2>1. /\ wasm' = "failed" /\ Fail /\ client' = client /\ payload' = payload /\ open' = open
        /\ mail' = mail /\ kicked' = kicked
        /\ arm' = [s \in Session |-> IF arm[s] = "loading" THEN "failed" ELSE arm[s]]
        /\ Disconnect \/ (recovery' = recovery /\ request' = request /\ page' = page)
    BY <1>6 DEF LoadFails
  <2>2. /\ failures' \in 0..MaxFailures /\ failures' # failures
        /\ arm' \in [Session -> {"new", "loading", "connecting", "armed", "failed"}]
    BY <2>1, FailEffect, Typed
  <2>3. CASE Disconnect
    BY <1>1, <2>1, <2>2, <2>3 DEF Excused
  <2>4. CASE recovery' = recovery /\ request' = request /\ page' = page
    <3>1. WorkerInv'
      BY <2>1, <2>2, <2>4, Typed, QuietStep DEF WorkerInv
    <3> QED BY <2>2, <3>1 DEF Excused
  <2> QED BY <2>1, <2>3, <2>4
<1> QED BY <1>2, <1>3, <1>4, <1>5, <1>6

\* What is shown in window p, and what a question put to it comes to
LEMMA ShowEffect ==
  ASSUME WorkerInv, NEW p, NEW content \in Session \cup {None, NoWindow}, Show(p, content)
  PROVE  /\ page' \in [Page -> Session \cup {None, NoWindow}]
         /\ page' = [q \in Page |-> IF q = p THEN content ELSE page[q]]
         /\ recovery' \in RecoveryRecord
         /\ recovery'.stage = recovery.stage /\ recovery'.session = recovery.session
         /\ recovery'.asked = recovery.asked \ {p}
<1>1. /\ page' = [q \in Page |-> IF q = p THEN content ELSE page[q]]
      /\ recovery' = [recovery EXCEPT !.asked = @ \ {p}]
  BY DEF Show
<1> QED BY <1>1, Typed DEF RecoveryRecord

\* A request comes in.
LEMMA ArrivesEffect ==
  ASSUME WorkerInv, NEW r \in Request, NEW p \in Page \cup {None},
         NEW stage \in {"serving", "waiting"}, Arrives(r, p)
  PROVE  /\ mail' \subseteq Session /\ request[r].stage = "idle"
         /\ Await(r, p, stage) =>
              /\ request' \in [Request -> RequestRecord]
              /\ request'[r].stage = stage
              /\ \A q \in Request \ {r} : request'[q] = request[q]
<1>1. mail' \subseteq Session /\ request[r].stage = "idle"
  BY Typed, IdleRecords DEF Arrives, Live
<1>2. ASSUME Await(r, p, stage)
      PROVE  /\ request' \in [Request -> RequestRecord]
             /\ request'[r].stage = stage
             /\ \A q \in Request \ {r} : request'[q] = request[q]
  <2> DEFINE c == [stage |-> stage, by |-> IF stage = "serving" THEN client ELSE None, window |-> p]
  <2>1. request' = [request EXCEPT ![r] = c] /\ c \in RequestRecord /\ c.stage = stage
    BY <1>2, Typed DEF Await, RequestRecord
  <2> HIDE DEF c
  <2> QED BY <2>1, Typed
<1> QED BY <1>1, <1>2

\* A request comes in, is served, waits for a recovery, or is refused.
LEMMA FetchStep ==
  ASSUME WorkerInv, NEW r \in Request, NEW p \in Page \cup {None},
         FetchServed(r, p) \/ FetchJoins(r, p) \/ FetchRecovers(r, p) \/ FetchRefused(r, p)
  PROVE  WorkerInv' /\ Excused
<1>1. /\ client' = client /\ payload' = payload /\ open' = open /\ arm' = arm
      /\ kicked' = kicked /\ failures' = failures /\ Arrives(r, p)
      /\ wasm' \in {"unset", "loading", "ready", "failed"}
  BY Typed DEF FetchServed, FetchJoins, FetchRecovers, FetchRefused, globals, NeedWasm
<1>2. mail' \subseteq Session /\ request[r].stage = "idle"
  BY <1>1, ArrivesEffect
<1>3. ASSUME NEW stage \in {"serving", "waiting"}, Await(r, p, stage),
             stage = "serving" => client # None, page' = page,
             \/ recovery' = recovery
             \/ /\ recovery' \in RecoveryRecord /\ recovery'.stage \in {"matching", "loading"}
                /\ recovery'.stage = "loading" => recovery'.session \in Session
      PROVE  WorkerInv' /\ Excused
  <2>1. /\ request' \in [Request -> RequestRecord] /\ request'[r].stage = stage
        /\ \A q \in Request \ {r} : request'[q] = request[q]
    BY <1>1, <1>3, ArrivesEffect
  <2>2. \A q \in Request : request[q].stage = "waiting" => request'[q].stage # "idle"
    BY <1>2, <2>1
  <2>3. client = None => \A q \in Request : request'[q].stage # "serving"
    BY <1>3, <2>1 DEF WorkerInv
  <2>4. recovery' \in RecoveryRecord
    BY <1>3, Typed
  <2>5. recovery'.stage \in {"loading", "resuming"} => recovery'.session \in Session
    BY <1>3 DEF WorkerInv
  <2>6. client = None /\ recovery'.stage = "asking" =>
           \A q \in Page : page'[q] \in Session => q \in recovery'.asked
    BY <1>3 DEF WorkerInv
  <2>7. WorkerInv'
    BY <1>1, <1>2, <1>3, <2>1, <2>3, <2>4, <2>5, <2>6, Typed, QuietStep
  <2> QED BY <2>2, <2>7 DEF Excused, Disconnected
<1>4. CASE FetchServed(r, p) \/ FetchJoins(r, p)
  BY <1>3, <1>4 DEF FetchServed, FetchJoins, globals
<1>5. CASE FetchRecovers(r, p)
  <2>1. /\ Await(r, p, "waiting") /\ page' = page
        /\ \/ recovery' = [stage |-> "matching", asked |-> {}, session |-> None]
           \/ payload # None /\ recovery' = [stage |-> "loading", asked |-> {}, session |-> payload]
    BY <1>5 DEF FetchRecovers, Recover
  <2>2. /\ recovery' \in RecoveryRecord /\ recovery'.stage \in {"matching", "loading"}
        /\ recovery'.stage = "loading" => recovery'.session \in Session
    BY <2>1, Typed DEF RecoveryRecord
  <2> QED BY <1>3, <2>1, <2>2
<1>6. CASE FetchRefused(r, p)
  <2>1. /\ request' = request /\ recovery' = recovery /\ recovery.stage = "off"
        /\ page' = [q \in Page |-> IF q \in {p} THEN None ELSE page[q]]
    BY <1>6 DEF FetchRefused, globals, ShowError
  <2>2. page' \in [Page -> Session \cup {None, NoWindow}]
    BY <2>1, Typed
  <2>3. WorkerInv'
    BY <1>1, <1>2, <2>1, <2>2, Typed, QuietStep DEF WorkerInv
  <2> QED BY <2>1, <2>3 DEF Excused, Disconnected
<1> QED BY <1>4, <1>5, <1>6 DEF FetchServed, FetchJoins, FetchRecovers, FetchRefused

\* The site answers, which it does only while there is a client.
LEMMA RespondStep ==
  ASSUME WorkerInv, NEW r \in Request, Respond(r) \/ RespondFails(r)
  PROVE  WorkerInv' /\ Excused
<1>1. /\ client' = client /\ payload' = payload /\ wasm' = wasm /\ open' = open /\ arm' = arm
      /\ mail' = mail /\ kicked' = kicked /\ failures' = failures
      /\ request[r].stage = "serving" /\ request' = [request EXCEPT ![r] = Idle]
      /\ \E content \in {payload, None} : Show(request[r].window, content)
  BY DEF Respond, RespondFails
<1>2. client # None
  BY <1>1 DEF WorkerInv
<1>3. PICK content \in Session \cup {None, NoWindow} : Show(request[r].window, content)
  BY <1>1, Typed
<1>4. /\ page' \in [Page -> Session \cup {None, NoWindow}] /\ recovery' \in RecoveryRecord
      /\ recovery'.stage = recovery.stage /\ recovery'.session = recovery.session
  BY <1>3, ShowEffect
<1>5. request' \in [Request -> RequestRecord]
  BY <1>1, Typed, IdleRecords
<1>6. WorkerInv'
  BY <1>1, <1>2, <1>4, <1>5, Typed, QuietStep DEF WorkerInv
<1> QED BY <1>2, <1>6 DEF Excused

\* A page goes, a handoff arrives, the worker ends, or the host kicks.
LEMMA OutsideStep ==
  ASSUME WorkerInv,
         \/ \E p \in Page : Hide(p) \/ Leave(p)
         \/ \E s \in Session : Handoff(s) \/ HostKicks(s)
         \/ Evict
  PROVE  WorkerInv' /\ Excused
<1>1. request' = request /\ arm' = arm /\ failures' = failures
  BY DEF Hide, Leave, Handoff, HostKicks, Evict
<1>2. Excused
  BY <1>1 DEF Excused, Disconnected
<1>3. ASSUME NEW p \in Page, Hide(p)
      PROVE  WorkerInv'
  <2>1. /\ client' = client /\ payload' = payload /\ wasm' = wasm /\ recovery' = recovery
        /\ open' = open /\ page' = page /\ kicked' = kicked /\ mail' \subseteq Session
    BY <1>3, Typed DEF Hide, globals
  <2> QED BY <1>1, <2>1, Typed, QuietStep DEF WorkerInv
<1>4. ASSUME NEW p \in Page, Leave(p)
      PROVE  WorkerInv'
  <2>1. /\ client' = client /\ payload' = payload /\ wasm' = wasm /\ open' = open
        /\ kicked' = kicked /\ mail' \subseteq Session /\ Show(p, NoWindow)
    BY <1>4, Typed DEF Leave
  <2>2. /\ page' \in [Page -> Session \cup {None, NoWindow}] /\ recovery' \in RecoveryRecord
        /\ recovery'.stage = recovery.stage /\ recovery'.session = recovery.session
        /\ recovery'.asked = recovery.asked \ {p}
        /\ page' = [q \in Page |-> IF q = p THEN NoWindow ELSE page[q]]
    BY <2>1, ShowEffect
  <2>3. \A q \in Page : page'[q] \in Session => q # p /\ page[q] \in Session
    BY <2>2, WorkerAssumption
  <2>4. client = None /\ recovery'.stage = "asking" =>
          \A q \in Page : page'[q] \in Session => q \in recovery'.asked
    BY <2>2, <2>3 DEF WorkerInv
  <2> QED BY <1>1, <2>1, <2>2, <2>4, Typed, QuietStep DEF WorkerInv
<1>5. ASSUME NEW s \in Session, Handoff(s)
      PROVE  WorkerInv'
  <2>1. /\ client' = client /\ wasm' = wasm /\ recovery' = recovery /\ open' = open
        /\ page' = page /\ kicked' = kicked /\ mail' \subseteq Session
        /\ payload' \in {payload, s} /\ s # None
    BY <1>5, Typed, WorkerAssumption DEF Handoff
  <2>2. WorkerTypeOK'
    BY <1>1, <2>1 DEF WorkerInv, WorkerTypeOK
  <2> QED BY <1>1, <2>1, <2>2 DEF WorkerInv, OneClientOpen
<1>6. ASSUME NEW s \in Session, HostKicks(s)
      PROVE  WorkerInv'
  <2>1. /\ client' = client /\ payload' = payload /\ wasm' = wasm /\ recovery' = recovery
        /\ open' = open /\ page' = page /\ mail' = mail /\ kicked' \subseteq Session
    BY <1>6, Typed DEF HostKicks, globals
  <2> QED BY <1>1, <2>1, Typed, QuietStep DEF WorkerInv
<1>7. CASE Evict
  <2>1. /\ client' = None /\ payload' = None /\ wasm' = "unset" /\ recovery' = NoRecovery
        /\ open' = {} /\ page' = page /\ mail' = mail /\ kicked' = kicked
        /\ \A r \in Request : request[r] = Idle
    BY <1>7 DEF Evict
  <2>2. WorkerTypeOK'
    BY <1>1, <2>1, Typed, IdleRecords DEF WorkerTypeOK, RecoveryRecord, RequestRecord
  <2> QED BY <1>1, <1>2, <2>1, <2>2, IdleRecords DEF WorkerInv, OneClientOpen
<1> QED BY <1>2, <1>3, <1>4, <1>5, <1>6, <1>7

-----------------------------------------------------------------------------
(* The theorems *)

\* A worker starts with nothing.
LEMMA WorkerInitially == WorkerInit => WorkerInv
<1> SUFFICES ASSUME WorkerInit PROVE WorkerInv
  OBVIOUS
<1>1. /\ client = None /\ payload = None /\ wasm = "unset" /\ recovery = NoRecovery /\ open = {}
      /\ arm = [s \in Session |-> "new"] /\ request = [r \in Request |-> Idle]
      /\ page = [p \in Page |-> NoWindow] /\ mail = {} /\ kicked = {} /\ failures = 0
  BY DEF WorkerInit
<1>2. request \in [Request -> RequestRecord] /\ \A r \in Request : request[r].stage = "idle"
  BY <1>1, IdleRecords
<1>3. WorkerTypeOK
  BY <1>1, <1>2, IdleRecords, WorkerAssumption DEF WorkerTypeOK, RecoveryRecord, RequestRecord
<1> QED BY <1>1, <1>2, <1>3, IdleRecords DEF WorkerInv, OneClientOpen

\* Every step keeps the invariant and disconnects nobody without an excuse.
LEMMA WorkerStep ==
  ASSUME WorkerInv, [WorkerNext]_workerVars
  PROVE  WorkerInv' /\ Excused
<1>1. CASE Arming
  BY <1>1, ArmingStep
<1>2. CASE RecoveryGoesOn
  BY <1>2, AskingStep, ResumingStep DEF RecoveryGoesOn
<1>3. CASE Requesting
  BY <1>3, FetchStep, RespondStep DEF Requesting
<1>4. CASE \/ \E p \in Page : Hide(p) \/ Leave(p)
           \/ \E s \in Session : Handoff(s) \/ HostKicks(s)
           \/ Evict
  BY <1>4, OutsideStep
<1>5. CASE UNCHANGED workerVars
  <2>1. /\ client' = client /\ payload' = payload /\ wasm' = wasm /\ recovery' = recovery
        /\ open' = open /\ arm' = arm /\ request' = request /\ page' = page /\ mail' = mail
        /\ kicked' = kicked /\ failures' = failures
    BY <1>5 DEF workerVars
  <2>2. WorkerInv'
    BY <2>1, Typed, QuietStep DEF WorkerInv
  <2> QED BY <2>1, <2>2 DEF Excused, Disconnected
<1> QED BY <1>1, <1>2, <1>3, <1>4, <1>5 DEF WorkerNext

(***************************************************************************)
(* The invariant the next theorems follow from.  That every page with a    *)
(* payload was asked holds only as long as there is no client: once there  *)
(* is one, pages are given payloads that nobody asks for.                  *)
(***************************************************************************)
THEOREM WorkerInvariantHolds == WorkerSpec => []WorkerInv
<1>1. WorkerInv /\ [WorkerNext]_workerVars => WorkerInv'
  BY WorkerStep
<1> QED BY <1>1, WorkerInitially, PTL DEF WorkerSpec

(***************************************************************************)
(* The globals of the worker, the requests, the pages and the mail have    *)
(* their types: in particular a client is never without the payload that   *)
(* the pages are to keep for it.                                           *)
(***************************************************************************)
THEOREM WorkerTypeCorrect == WorkerSpec => []WorkerTypeOK
<1>1. WorkerInv => WorkerTypeOK
  BY DEF WorkerInv
<1> QED BY <1>1, WorkerInvariantHolds, PTL

(***************************************************************************)
(* However invitations and recoveries overtake one another, the clients    *)
(* that were replaced have been closed.                                    *)
(***************************************************************************)
THEOREM ReplacedAreClosed == WorkerSpec => []OneClientOpen
<1>1. WorkerInv => OneClientOpen
  BY DEF WorkerInv
<1> QED BY <1>1, WorkerInvariantHolds, PTL

(***************************************************************************)
(* A request is told that no page could resume the session only if none    *)
(* that is there could, or with one of the named excuses: all the pages    *)
(* were asked, and whoever has come by a payload since had a client to get *)
(* it from.                                                                *)
(***************************************************************************)
THEOREM SurvivorsAreAsked == WorkerSpec => SurvivorsRecover
<1>1. WorkerInv /\ [WorkerNext]_workerVars
        => [Disconnected =>
              \/ CanResume = {}
              \/ recovery.session \in kicked
              \/ wasm = "failed" \/ failures' # failures
              \/ client # None]_workerVars
  BY WorkerStep DEF Excused
<1> QED BY <1>1, WorkerInvariantHolds, PTL DEF WorkerSpec, SurvivorsRecover
=============================================================================
