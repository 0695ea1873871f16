---------------------------- MODULE BrowserWorker ---------------------------
(***************************************************************************)
(* The service worker of one site origin                                   *)
(* (apps/bootstrap/public/sw.js) and the pages it controls.  Three         *)
(* asynchronous writers share its globals `client' and `resumePayload':    *)
(* arm (an invitation was opened), recoverClient (a request found no       *)
(* client) and acceptResumeHandoff (a page returns its copy).  JavaScript  *)
(* runs from one await to the next without a pause; those stretches are    *)
(* the actions.  The browser ends an idle worker at any moment, and with   *)
(* it the globals; the pages keep the copies they were served with.        *)
(*                                                                         *)
(* A resume payload is the grant and the key of one session.  Grants do    *)
(* not expire and the host accepts any of them, so a payload is the        *)
(* session it resumes.  Every invitation that is opened admits a session   *)
(* of its own.  SiteClient objects reconnect by themselves                 *)
(* (ReconnectingClient), so here they are open or closed.                  *)
(***************************************************************************)
EXTENDS Naturals, FiniteSets

CONSTANTS
  Session,     \* sessions; the invitation that admits one is named after it
  Client,      \* SiteClient objects; one nothing refers to is used again
  Page,        \* windows of the origin
  Request,     \* fetches and sockets under way
  None,
  MaxFailures  \* bound: failed loads of the WebAssembly client and failed
               \* attempts to reach the host

\* In the place of a page: there is no such window.
NoWindow == "no window"

ASSUME WorkerAssumption ==
  /\ MaxFailures \in Nat
  /\ IsFiniteSet(Request)
  /\ Cardinality(Client) > Cardinality(Request) + 1
  /\ None \notin Session \cup Client \cup Page
  /\ NoWindow \notin Session \cup {None}

VARIABLES
  client,      \* the global `client', or None
  payload,     \* the global `resumePayload': the session it resumes, or None
  wasm,        \* the global `wasmReady': unset, loading, ready or failed
  recovery,    \* the global `recovery': the recovery under way
  open,        \* clients that have been connected and not closed
  arm,         \* arm[s]: how far opening the invitation of session s has come
  request,     \* request[r]: what fetch or socket r waits for, and its page
  page,        \* page[p]: no window, or the payload its script keeps, or None
  mail,        \* handoffs sent by pages and not yet received
  kicked,      \* sessions the host has removed
  failures     \* such failures so far

workerVars == <<client, payload, wasm, recovery, open, arm, request,
                page, mail, kicked, failures>>

globals == <<client, payload, wasm, recovery>>

(***************************************************************************)
(* recovery.stage   matching: clients.matchAll; asking: the windows in     *)
(*                  `asked' have been asked for their payload; loading:    *)
(*                  wasmReady; resuming: SiteClient.resume                 *)
(* arm              loading: wasmReady; connecting: SiteClient.connect     *)
(* request          waiting: for the recovery; serving: for client `by'    *)
(***************************************************************************)
NoRecovery == [stage |-> "off", asked |-> {}, session |-> None]
Idle == [stage |-> "idle", by |-> None, window |-> None]

WorkerTypeOK ==
  /\ client \in Client \cup {None}
  /\ payload \in Session \cup {None}
  /\ client # None => payload # None
  /\ wasm \in {"unset", "loading", "ready", "failed"}
  /\ recovery \in [stage : {"off", "matching", "asking", "loading", "resuming"},
                   asked : SUBSET Page, session : Session \cup {None}]
  /\ open \in SUBSET Client
  /\ arm \in [Session -> {"new", "loading", "connecting", "armed", "failed"}]
  /\ request \in [Request -> [stage : {"idle", "waiting", "serving"},
                              by : Client \cup {None},
                              window : Page \cup {None}]]
  /\ page \in [Page -> Session \cup {None, NoWindow}]
  /\ mail \in SUBSET Session
  /\ kicked \in SUBSET Session
  /\ failures \in 0..MaxFailures

WorkerInit ==
  /\ client = None
  /\ payload = None
  /\ wasm = "unset"
  /\ recovery = NoRecovery
  /\ open = {}
  /\ arm = [s \in Session |-> "new"]
  /\ request = [r \in Request |-> Idle]
  /\ page = [p \in Page |-> NoWindow]
  /\ mail = {}
  /\ kicked = {}
  /\ failures = 0

Live == {p \in Page : page[p] # NoWindow}
Under(stage) == {r \in Request : request[r].stage = stage}

\* The pages whose script could answer with a payload the host accepts.
CanResume == {p \in Live : page[p] \in Session \ kicked}

Fresh == CHOOSE k \in Client :
  k \notin open \cup {client} \cup {request[r].by : r \in Request}

Fail == failures < MaxFailures /\ failures' = failures + 1

Recover(stage, s) ==
  recovery' = [stage |-> stage, asked |-> {}, session |-> s]

\* wasmReady ||= init()
NeedWasm == wasm' = IF wasm = "unset" THEN "loading" ELSE wasm

\* Mutant of Install: the payload of the new client is not kept.
InstallClientOnly(k, s) ==
  /\ client' = k
  /\ open' = (open \ {client}) \cup {k}
  /\ UNCHANGED payload

\* client?.close(), then the new object takes its place, with its payload.
Install(k, s) ==
  /\ client' = k
  /\ payload' = s
  /\ open' = (open \ {client}) \cup {k}

-----------------------------------------------------------------------------
(* arm *)

OpenInvitation(s) ==
  /\ arm[s] = "new"
  /\ NeedWasm
  /\ arm' = [arm EXCEPT ![s] = IF wasm = "failed" THEN "failed" ELSE "loading"]
  /\ UNCHANGED <<client, payload, recovery, open, request, page, mail, kicked,
                 failures>>

ArmConnects(s) ==
  /\ arm[s] = "loading" /\ wasm = "ready"
  /\ arm' = [arm EXCEPT ![s] = "connecting"]
  /\ UNCHANGED <<globals, open, request, page, mail, kicked, failures>>

Armed(s) ==
  /\ arm[s] = "connecting"
  /\ arm' = [arm EXCEPT ![s] = "armed"]
  /\ Install(Fresh, s)
  /\ UNCHANGED <<wasm, recovery, request, page, mail, kicked, failures>>

ArmFails(s) ==
  /\ arm[s] = "connecting"
  /\ arm' = [arm EXCEPT ![s] = "failed"]
  /\ Fail
  /\ UNCHANGED <<globals, open, request, page, mail, kicked>>

-----------------------------------------------------------------------------
(* recoverClient *)

\* A page that gets no answer from the site shows an error and keeps nothing.
ShowError(windows) ==
  page' = [p \in Page |-> IF p \in windows THEN None ELSE page[p]]

\* Every request that waits for the recovery gets the "connection closed" page.
Disconnect ==
  /\ recovery' = NoRecovery
  /\ request' = [r \in Request |->
                   IF r \in Under("waiting") THEN Idle ELSE request[r]]
  /\ ShowError({request[r].window : r \in Under("waiting")})

\* parseResumePayload, wasmReady ||= init(); a load that failed fails at once.
Resume(s) ==
  IF wasm = "failed"
  THEN Disconnect /\ UNCHANGED wasm
  ELSE /\ Recover("loading", s)
       /\ NeedWasm
       /\ UNCHANGED <<request, page>>

\* Mutant of AskWindows: only one of the windows is asked.
AskOneWindow ==
  /\ recovery.stage = "matching"
  /\ IF Live = {}
     THEN Disconnect
     ELSE /\ \E p \in Live :
               recovery' = [recovery EXCEPT !.stage = "asking", !.asked = {p}]
          /\ UNCHANGED <<request, page>>
  /\ UNCHANGED <<client, payload, wasm, open, arm, mail, kicked, failures>>

\* clients.matchAll has answered.
AskWindows ==
  /\ recovery.stage = "matching"
  /\ IF Live = {}
     THEN Disconnect
     ELSE /\ recovery' = [recovery EXCEPT !.stage = "asking", !.asked = Live]
          /\ UNCHANGED <<request, page>>
  /\ UNCHANGED <<client, payload, wasm, open, arm, mail, kicked, failures>>

\* Promise.any: the first page that answers decides.
PageAnswers(p) ==
  /\ recovery.stage = "asking" /\ p \in recovery.asked
  /\ page[p] \in Session
  /\ Resume(page[p])
  /\ UNCHANGED <<client, payload, open, arm, mail, kicked, failures>>

\* Mutant of AskingTimesOut: the answer of a page is awaited without a limit.
AskingGoesOn == FALSE /\ UNCHANGED workerVars

\* RESUME_REQUEST_TIMEOUT_MS; taken to be enough for a page with a payload.
AskingTimesOut ==
  /\ recovery.stage = "asking"
  /\ \A p \in recovery.asked : page[p] \notin Session
  /\ Disconnect
  /\ UNCHANGED <<client, payload, wasm, open, arm, mail, kicked, failures>>

RecoveryConnects ==
  /\ recovery.stage = "loading" /\ wasm = "ready"
  /\ recovery' = [recovery EXCEPT !.stage = "resuming"]
  /\ UNCHANGED <<client, payload, wasm, open, arm, request, page, mail, kicked,
                 failures>>

\* Mutant of Recovered: the recovery does not expect a client to be there.
RecoveredUnclosed ==
  /\ recovery.stage = "resuming" /\ recovery.session \notin kicked
  /\ client' = Fresh
  /\ payload' = recovery.session
  /\ open' = open \cup {Fresh}
  /\ recovery' = NoRecovery
  /\ request' = [r \in Request |->
                   IF r \in Under("waiting")
                   THEN [request[r] EXCEPT !.stage = "serving", !.by = Fresh]
                   ELSE request[r]]
  /\ UNCHANGED <<wasm, arm, page, mail, kicked, failures>>

\* SiteClient.resume has succeeded.  Whatever client there is by now is closed,
\* and the requests go on with the recovered one.
Recovered ==
  /\ recovery.stage = "resuming" /\ recovery.session \notin kicked
  /\ Install(Fresh, recovery.session)
  /\ recovery' = NoRecovery
  /\ request' = [r \in Request |->
                   IF r \in Under("waiting")
                   THEN [request[r] EXCEPT !.stage = "serving", !.by = Fresh]
                   ELSE request[r]]
  /\ UNCHANGED <<wasm, arm, page, mail, kicked, failures>>

\* Denied by the host, or the host not reached.
RecoveryFails ==
  /\ recovery.stage = "resuming"
  /\ \/ recovery.session \in kicked /\ UNCHANGED failures
     \/ Fail
  /\ Disconnect
  /\ UNCHANGED <<client, payload, wasm, open, arm, mail, kicked>>

-----------------------------------------------------------------------------
(* init(): the promise settles, and with it everything that awaits it *)

Loaded ==
  /\ wasm = "loading"
  /\ wasm' = "ready"
  /\ UNCHANGED <<client, payload, recovery, open, arm, request, page, mail,
                 kicked, failures>>

LoadFails ==
  /\ wasm = "loading"
  /\ wasm' = "failed"
  /\ Fail
  /\ arm' = [s \in Session |-> IF arm[s] = "loading" THEN "failed" ELSE arm[s]]
  /\ IF recovery.stage = "loading"
     THEN Disconnect
     ELSE UNCHANGED <<recovery, request, page>>
  /\ UNCHANGED <<client, payload, open, mail, kicked>>

-----------------------------------------------------------------------------
(* meshFetch and openSocket *)

(***************************************************************************)
(* A request reaches the worker: a navigation of window p, or with None a  *)
(* subresource or a socket of some page.  A page that is navigated away    *)
(* hands its payload off first (beforeunload).                             *)
(***************************************************************************)
Arrives(r, p) ==
  /\ request[r] = Idle
  /\ p = None => Live # {}
  /\ p # None => \A q \in Request : request[q].window # p
  /\ mail' = mail \cup ({page[q] : q \in {p} \cap Live} \ {None})

Await(r, p, stage) ==
  request' = [request EXCEPT ![r] =
    [stage |-> stage, by |-> IF stage = "serving" THEN client ELSE None,
     window |-> p]]

FetchServed(r, p) ==
  /\ client # None
  /\ Arrives(r, p)
  /\ Await(r, p, "serving")
  /\ UNCHANGED <<globals, open, arm, page, kicked, failures>>

\* recovery ||= recoverClient()
FetchJoins(r, p) ==
  /\ client = None /\ recovery.stage # "off"
  /\ Arrives(r, p)
  /\ Await(r, p, "waiting")
  /\ UNCHANGED <<globals, open, arm, page, kicked, failures>>

FetchRecovers(r, p) ==
  /\ client = None /\ recovery.stage = "off"
  /\ payload = None \/ wasm # "failed"
  /\ Arrives(r, p)
  /\ Await(r, p, "waiting")
  /\ IF payload = None
     THEN Recover("matching", None) /\ UNCHANGED wasm
     ELSE Recover("loading", payload) /\ NeedWasm
  /\ UNCHANGED <<client, payload, open, arm, page, kicked, failures>>

\* The client code could not be loaded before, so the recovery fails at once.
FetchRefused(r, p) ==
  /\ client = None /\ recovery.stage = "off" /\ wasm = "failed"
  /\ payload # None
  /\ Arrives(r, p)
  /\ ShowError({p})
  /\ UNCHANGED <<globals, open, arm, request, kicked, failures>>

\* What is in window p is replaced; a question put to the old page stays open.
Show(p, content) ==
  /\ page' = [q \in Page |-> IF q = p THEN content ELSE page[q]]
  /\ recovery' = [recovery EXCEPT !.asked = @ \ {p}]

(***************************************************************************)
(* The site answers.  A navigation is given the payload the worker has by  *)
(* then, unless the policy of the page rules the script out; anything else *)
(* is answered without one.  The client may have been replaced meanwhile,  *)
(* and close() does not always take effect at once.                        *)
(***************************************************************************)
Respond(r) ==
  /\ request[r].stage = "serving"
  /\ request' = [request EXCEPT ![r] = Idle]
  /\ \E content \in {payload, None} : Show(request[r].window, content)
  /\ UNCHANGED <<client, payload, wasm, open, arm, mail, kicked, failures>>

\* Failed, for GET and HEAD twice, on the client the request began with.
RespondFails(r) ==
  /\ request[r].stage = "serving"
  /\ request' = [request EXCEPT ![r] = Idle]
  /\ Show(request[r].window, None)
  /\ UNCHANGED <<client, payload, wasm, open, arm, mail, kicked, failures>>

-----------------------------------------------------------------------------
(* Pages, the browser and the host *)

\* visibilitychange
Hide(p) ==
  /\ page[p] \in Session
  /\ mail' = mail \cup {page[p]}
  /\ UNCHANGED <<globals, open, arm, request, page, kicked, failures>>

\* pagehide; a page that is discarded hands nothing off
Leave(p) ==
  /\ p \in Live
  /\ Show(p, NoWindow)
  /\ mail' \in {mail, mail \cup ({page[p]} \cap Session)}
  /\ UNCHANGED <<client, payload, wasm, open, arm, request, kicked, failures>>

\* acceptResumeHandoff; ignored if its sender is already gone
Handoff(s) ==
  /\ s \in mail
  /\ mail' = mail \ {s}
  /\ payload' \in {payload, s}
  /\ UNCHANGED <<client, wasm, recovery, open, arm, request, page, kicked,
                 failures>>

\* The browser ends a worker that has nothing to do.
Evict ==
  /\ \A r \in Request : request[r] = Idle
  /\ \A s \in Session : arm[s] \notin {"loading", "connecting"}
  /\ client' = None
  /\ payload' = None
  /\ wasm' = "unset"
  /\ recovery' = NoRecovery
  /\ open' = {}
  /\ UNCHANGED <<arm, request, page, mail, kicked, failures>>

HostKicks(s) ==
  /\ arm[s] = "armed"
  /\ kicked' = kicked \cup {s}
  /\ UNCHANGED <<globals, open, arm, request, page, mail, failures>>

RecoveryGoesOn ==
  \/ AskWindows \/ AskingTimesOut
  \/ RecoveryConnects \/ Recovered \/ RecoveryFails
  \/ \E p \in Page : PageAnswers(p)
  \/ Loaded \/ LoadFails

Arming ==
  \E s \in Session :
    OpenInvitation(s) \/ ArmConnects(s) \/ Armed(s) \/ ArmFails(s)

Requesting ==
  \E r \in Request :
    \/ \E p \in Page \cup {None} :
         \/ FetchServed(r, p) \/ FetchJoins(r, p)
         \/ FetchRecovers(r, p) \/ FetchRefused(r, p)
    \/ Respond(r) \/ RespondFails(r)

WorkerNext ==
  \/ Arming \/ RecoveryGoesOn \/ Requesting \/ Evict
  \/ \E p \in Page : Hide(p) \/ Leave(p)
  \/ \E s \in Session : Handoff(s) \/ HostKicks(s)

WorkerSpec == WorkerInit /\ [][WorkerNext]_workerVars

\* A page answers or the time limit elapses, the browser's own fetch of the
\* client code settles, and so does resume(), whose steps have time limits.
FairWorkerSpec == WorkerSpec /\ WF_workerVars(RecoveryGoesOn)

-----------------------------------------------------------------------------
(* Properties *)

Disconnected == \E r \in Request :
  request[r].stage = "waiting" /\ request'[r].stage = "idle"

\* A client that was replaced has been closed, also when an invitation is
\* opened while a recovery is under way: no connection is left behind that the
\* host would serve next to the one in use.
OneClientOpen == open \subseteq {client}

(***************************************************************************)
(* "No live Urspace page could resume this browser session": a request is  *)
(* answered so only if that is the case, or if the host could not be       *)
(* reached just then, with three exceptions.  The payload that is tried is *)
(* the one handed off last, or that of the first page that answers, and no *)
(* other is tried when the host has removed its session.  A failed load of *)
(* the client code is remembered.  And nobody looks whether an invitation  *)
(* has been opened meanwhile.                                              *)
(***************************************************************************)
SurvivorsRecover ==
  [][Disconnected =>
       \/ CanResume = {}
       \/ recovery.session \in kicked
       \/ wasm = "failed" \/ failures' # failures
       \/ client # None]_workerVars

\* No request waits for a recovery for ever.
RequestsEnd ==
  \A r \in Request :
    request[r].stage = "waiting" ~> request[r].stage # "waiting"
=============================================================================
