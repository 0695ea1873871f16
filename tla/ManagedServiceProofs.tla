------------------------ MODULE ManagedServiceProofs ------------------------
(***************************************************************************)
(* Proofs about ManagedService, for any number of runs, operators, kills   *)
(* and reboots: the definition never starts a service that has no          *)
(* settings, a service that was stopped stays down, there is one identity, *)
(* and, as long as no start has overlapped another one, the service that   *)
(* answers can resume every earlier grant.                                 *)
(***************************************************************************)
EXTENDS ManagedService, SequenceTheorems, TLAPS

-----------------------------------------------------------------------------
(* Types *)

Stage == {"off", "serving"} \cup Starting

RunRecord ==
  [stage : Stage, managed : BOOLEAN, checked : BOOLEAN, settings : Settings \cup {None},
   key : Key \cup {None}, relay : Relay \cup {None}]

\* A run that does not run
LEMMA IdleIsRun == Idle \in RunRecord /\ Idle.stage = "off"
BY DEF Idle, RunRecord, Stage

\* Some runs end, and the others go on as they were, and keep the control file.
RunsEnd ==
  /\ \A p \in Run : run'[p] = run[p] \/ run'[p] = Idle
  /\ \A p \in Run : control = p /\ run'[p] # Idle => control' = p

\* What is installed and what has been noted is left as it is.
Untouched ==
  /\ definition' = definition /\ enabled' = enabled
  /\ wanted' = wanted /\ down' = down /\ overlapped' = overlapped

\* The control file is one of those a type correct state may have.
ControlTyped ==
  /\ control \in Run \cup {None, Empty, Left, Taken}
  /\ \A p \in Run : control = p => run[p].stage \in {"announcing", "serving"}

\* Runs that are gone leave their control file behind, or remove it.
LEMMA LeavesEffect ==
  ASSUME ManagedTypeOK, NEW P \in SUBSET Run,
         control' \in Leaves(P) \/ (control \in P /\ control' = None),
         run' = [q \in Run |-> IF q \in P THEN Idle ELSE run[q]]
  PROVE  ControlTyped' /\ RunsEnd
<1>1. \/ control' = control /\ control \notin P
      \/ control' \in {Empty, None, Left} /\ control \in P
  BY DEF Leaves
<1>2. control' \in Run \cup {None, Empty, Left, Taken}
  BY <1>1 DEF ManagedTypeOK
<1>3. ASSUME NEW q \in Run, control' = q
      PROVE  run'[q].stage \in {"announcing", "serving"}
  <2>1. control = q /\ q \notin P
    BY <1>1, <1>3, ManagedAssumption
  <2> QED BY <2>1 DEF ManagedTypeOK
<1>4. ASSUME NEW q \in Run, control = q, run'[q] # Idle
      PROVE  control' = q
  BY <1>1, <1>4
<1> QED BY <1>2, <1>3, <1>4 DEF ControlTyped, RunsEnd

\* The end of a run, as the supervisor sees it
LEMMA ExitEffect ==
  ASSUME ManagedTypeOK, NEW p \in Run, NEW ok \in BOOLEAN, Exit(p, ok)
  PROVE  /\ run' \in [Run -> RunRecord] /\ RunsEnd /\ run'[p] = Idle
         /\ job' \in [loaded : BOOLEAN, state : {"inactive", "due", "running"},
                      by : Run \cup {None}]
         /\ (job'.state = "running" <=> job'.by # None)
         /\ \A q \in Run : job'.by = q => run'[q].stage # "off"
         /\ stopping' \subseteq {q \in Run : run'[q].stage = "serving"}
         /\ job'.by \in {job.by, None}
         /\ job'.loaded = job.loaded
         /\ job'.state # job.state => job.by = p
         /\ ControlTyped'
<1>1. /\ run' = [run EXCEPT ![p] = Idle] /\ run \in [Run -> RunRecord]
      /\ stopping' = stopping \ {p}
  BY DEF Exit, ManagedTypeOK, RunRecord, Stage
<1>0. ControlTyped' /\ RunsEnd
  <2>1. run' = [q \in Run |-> IF q \in {p} THEN Idle ELSE run[q]]
    BY <1>1
  <2>2. control' \in Leaves({p}) \/ (control \in {p} /\ control' = None)
    BY DEF Exit
  <2> QED BY <2>1, <2>2, LeavesEffect
<1>2. run' \in [Run -> RunRecord] /\ RunsEnd /\ run'[p] = Idle
  BY <1>0, <1>1, IdleIsRun
<1>3. stopping' \subseteq {q \in Run : run'[q].stage = "serving"}
  BY <1>1 DEF ManagedTypeOK
<1>4. CASE job.by = p
  <2>1. \E state \in {"inactive", "due"} : job' = [job EXCEPT !.state = state, !.by = None]
    BY <1>4 DEF Exit
  <2>2. /\ job'.by = None /\ job'.loaded = job.loaded /\ job'.state \in {"inactive", "due"}
        /\ job' \in [loaded : BOOLEAN, state : {"inactive", "due", "running"},
                     by : Run \cup {None}]
    BY <2>1 DEF ManagedTypeOK
  <2> QED BY <1>0, <1>2, <1>3, <1>4, <2>2, ManagedAssumption
<1>5. CASE job.by # p
  BY <1>0, <1>1, <1>2, <1>3, <1>5 DEF Exit, ManagedTypeOK
<1> QED BY <1>4, <1>5

\* The end of the job's run
LEMMA EndJobEffect ==
  ASSUME ManagedTypeOK, NEW loaded \in BOOLEAN, NEW state \in {"inactive", "due"},
         EndJob(loaded, state)
  PROVE  /\ run' \in [Run -> RunRecord] /\ RunsEnd
         /\ job' = [loaded |-> loaded, state |-> state, by |-> None]
         /\ stopping' \subseteq {q \in Run : run'[q].stage = "serving"}
         /\ ControlTyped'
<1>1. /\ run' = [p \in Run |-> IF p = job.by THEN Idle ELSE run[p]]
      /\ run \in [Run -> RunRecord]
      /\ stopping' = stopping \ {job.by}
  BY DEF EndJob, ManagedTypeOK, RunRecord, Stage
<1>2. run' \in [Run -> RunRecord] /\ RunsEnd /\ ControlTyped'
  <2>1. run' = [q \in Run |-> IF q \in Run \cap {job.by} THEN Idle ELSE run[q]]
    BY <1>1
  <2>2. control' \in Leaves(Run \cap {job.by})
    BY DEF EndJob
  <2> QED BY <1>1, <2>1, <2>2, LeavesEffect, IdleIsRun
<1>3. stopping' \subseteq {q \in Run : run'[q].stage = "serving"}
  BY <1>1 DEF ManagedTypeOK
<1> QED BY <1>2, <1>3 DEF EndJob

FileRecord ==
  [config : Settings \cup {None, Empty}, key : Key \cup {None, Empty},
   relay : Relay \cup {None, Empty}]

\* A run that goes on leaves the types as they are ...
LEMMA StepTyped ==
  ASSUME ManagedTypeOK, NEW p \in Run, NEW r \in RunRecord, run' = [run EXCEPT ![p] = r],
         UNCHANGED <<job, stopping>>, r.stage # "off", run[p].stage # "serving",
         control' \in {control, None, p},
         control' = p => r.stage \in {"announcing", "serving"},
         file' \in FileRecord, Untouched
  PROVE  ManagedTypeOK'
<1>1. run' \in [Run -> RunRecord] /\ run'[p] = r /\ \A q \in Run \ {p} : run'[q] = run[q]
  BY DEF ManagedTypeOK, RunRecord, Stage
<1>2. \A q \in Run : job'.by = q => run'[q].stage # "off"
  BY <1>1 DEF ManagedTypeOK
<1>3. stopping' \subseteq {q \in Run : run'[q].stage = "serving"}
  BY <1>1 DEF ManagedTypeOK
<1>4. \A q \in Run : control' = q => run'[q].stage \in {"announcing", "serving"}
  BY <1>1, ManagedAssumption DEF ManagedTypeOK
<1>5. control' \in Run \cup {None, Empty, Left, Taken}
  BY DEF ManagedTypeOK
<1> QED BY <1>1, <1>2, <1>3, <1>4, <1>5 DEF ManagedTypeOK, RunRecord, Stage, FileRecord, Untouched

\* ... and so does one that leaves the control file alone ...
LEMMA GoesTyped ==
  ASSUME ManagedTypeOK, NEW p \in Run, NEW r \in RunRecord, Goes(p, r), r.stage # "off",
         run[p].stage \notin {"announcing", "serving"}, file' \in FileRecord, Untouched
  PROVE  ManagedTypeOK'
<1>1. run' = [run EXCEPT ![p] = r] /\ UNCHANGED <<job, stopping>> /\ control' = control
  BY DEF Goes
<1>2. control # p
  BY DEF ManagedTypeOK
<1> QED BY <1>1, <1>2, StepTyped

\* ... and its end ...
LEMMA ExitTyped ==
  ASSUME ManagedTypeOK, NEW p \in Run, NEW ok \in BOOLEAN, Exit(p, ok), file' = file, Untouched
  PROVE  ManagedTypeOK'
BY ExitEffect DEF ManagedTypeOK, RunRecord, Stage, Untouched, ControlTyped

\* ... and the end of the job's run.
LEMMA EndJobTyped ==
  ASSUME ManagedTypeOK, NEW loaded \in BOOLEAN, NEW state \in {"inactive", "due"},
         EndJob(loaded, state), file' = file, definition' = definition, enabled' = enabled,
         wanted' \in BOOLEAN, down' \in {"no", "stopped", "uninstalled"},
         overlapped' = overlapped
  PROVE  ManagedTypeOK'
<1>1. /\ run' \in [Run -> RunRecord]
      /\ job' = [loaded |-> loaded, state |-> state, by |-> None]
      /\ stopping' \subseteq {q \in Run : run'[q].stage = "serving"}
      /\ ControlTyped'
  BY EndJobEffect
<1>2. /\ job' \in [loaded : BOOLEAN, state : {"inactive", "due", "running"}, by : Run \cup {None}]
      /\ job'.state # "running" /\ job'.by = None
  BY <1>1
<1> QED BY <1>1, <1>2, ManagedAssumption DEF ManagedTypeOK, RunRecord, Stage, ControlTyped

\* run_service: the settings are looked at.
LEMMA ConfigureTyped ==
  ASSUME ManagedTypeOK, NEW p \in Run, Configure(p)
  PROVE  ManagedTypeOK'
<1>1. Untouched /\ file' = file /\ run[p].stage = "configuring"
  BY DEF Configure, ElseSame, history, installed, Untouched, Fails, At
<1>2. CASE Fails(p)
  BY <1>1, <1>2, ExitTyped DEF Fails
<1>3. CASE ~Fails(p)
  <2> DEFINE r == [run[p] EXCEPT !.stage = "looking", !.checked = file.config # None,
                   !.settings = IF run[p].managed THEN file.config ELSE @]
  <2>1. Goes(p, r) /\ (run[p].managed => file.config # None) /\ file.config # Empty
    BY <1>3 DEF Configure
  <2>2. run[p] \in RunRecord /\ file.config \in Settings \cup {None}
    BY <2>1 DEF ManagedTypeOK, RunRecord, Stage
  <2>3. r \in RunRecord /\ r.stage = "looking"
    BY <2>2 DEF RunRecord, Stage, Starting
  <2> HIDE DEF r
  <2> QED BY <1>1, <2>1, <2>3, GoesTyped DEF ManagedTypeOK, FileRecord
<1> QED BY <1>2, <1>3

\* ensure_available, and the claim on the name
LEMMA LookTyped ==
  ASSUME ManagedTypeOK, NEW p \in Run, Look(p) \/ RemoveStale(p) \/ Enter(p) \/ Announce(p)
  PROVE  ManagedTypeOK'
<1>1. /\ Untouched /\ file' = file /\ file' \in FileRecord
      /\ run[p].stage \in {"looking", "removing", "claiming", "clearing", "entering", "announcing"}
      /\ run[p] \in RunRecord
  BY DEF Look, RemoveStale, Enter, Announce, ElseSame, history, installed, Untouched, At, Fails,
         ManagedTypeOK, RunRecord, Stage, FileRecord
<1>2. CASE Fails(p)
  BY <1>1, <1>2, ExitTyped DEF Fails
<1>3. ASSUME NEW stage \in Starting \cup {"serving"}, run' = [run EXCEPT ![p].stage = stage],
             UNCHANGED <<job, stopping>>, control' \in {control, None, p},
             control' = p => stage \in {"announcing", "serving"}
      PROVE  ManagedTypeOK'
  <2> DEFINE r == [run[p] EXCEPT !.stage = stage]
  <2>1. r \in RunRecord /\ r.stage = stage /\ r.stage # "off" /\ run' = [run EXCEPT ![p] = r]
    BY <1>1, <1>3 DEF RunRecord, Stage, Starting
  <2> HIDE DEF r
  <2> QED BY <1>1, <1>3, <2>1, StepTyped
<1>4. CASE Look(p) /\ ~Fails(p)
  <2>1. control # p
    BY <1>4 DEF Look, At, ManagedTypeOK
  <2>2. PICK stage \in {"identifying", "removing", "entering", "clearing"} : Moves(p, stage)
    BY <1>4 DEF Look
  <2> QED BY <1>3, <2>1, <2>2 DEF Moves, Goes, Starting
<1>5. CASE RemoveStale(p) /\ ~Fails(p)
  <2>1. /\ \E stage \in {"identifying", "entering"} : run' = [run EXCEPT ![p].stage = stage]
        /\ UNCHANGED <<job, stopping>> /\ control' = None
    BY <1>5 DEF RemoveStale
  <2> QED BY <1>3, <2>1, ManagedAssumption DEF Starting
<1>6. CASE Enter(p) /\ ~Fails(p)
  <2>1. /\ run' = [run EXCEPT ![p].stage = "announcing"]
        /\ UNCHANGED <<job, stopping>> /\ control' = p
    BY <1>6 DEF Enter
  <2> QED BY <1>3, <2>1 DEF Starting
<1>7. CASE Announce(p)
  BY <1>3, <1>7 DEF Announce, Moves, Goes
<1> QED BY <1>2, <1>4, <1>5, <1>6, <1>7

\* load_or_create_identity
LEMMA KeyTyped ==
  ASSUME ManagedTypeOK, NEW p \in Run, Identify(p) \/ CreateKey(p) \/ WriteKey(p)
  PROVE  ManagedTypeOK'
<1>1. /\ Untouched /\ run[p].stage \in {"identifying", "creatingKey", "writingKey"}
      /\ run[p] \in RunRecord /\ file \in FileRecord
  BY DEF Identify, CreateKey, WriteKey, ElseSame, history, installed, Untouched, At, ManagedTypeOK,
         RunRecord, Stage, FileRecord
<1>2. CASE Fails(p)
  BY <1>1, <1>2, ExitTyped DEF Fails
<1>3. ASSUME NEW r \in RunRecord, r.stage # "off", Goes(p, r), file' \in FileRecord
      PROVE  ManagedTypeOK'
  BY <1>1, <1>3, GoesTyped
<1>4. CASE Identify(p)
  <2>1. ASSUME NEW key \in Key, NEW stage \in {"creatingKey", "dialing"}, file' = file,
               Goes(p, [run[p] EXCEPT !.stage = stage, !.key = key])
        PROVE  ManagedTypeOK'
    <3> DEFINE r == [run[p] EXCEPT !.stage = stage, !.key = key]
    <3>1. r \in RunRecord /\ r.stage # "off"
      BY <1>1 DEF RunRecord, Stage, Starting
    <3> HIDE DEF r
    <3> QED BY <1>1, <1>3, <2>1, <3>1 DEF r
  <2> QED BY <1>2, <1>4, <2>1 DEF Identify
<1>5. CASE CreateKey(p) /\ ~Fails(p)
  <2> DEFINE r == [run[p] EXCEPT !.stage = "writingKey"]
  <2>1. Goes(p, r) /\ file' = [file EXCEPT !.key = Empty]
    BY <1>5 DEF CreateKey, Moves
  <2>2. r \in RunRecord /\ r.stage # "off" /\ file' \in FileRecord
    BY <1>1, <2>1 DEF RunRecord, Stage, Starting, FileRecord
  <2> HIDE DEF r
  <2> QED BY <1>3, <2>1, <2>2
<1>6. CASE WriteKey(p)
  <2> DEFINE r == [run[p] EXCEPT !.stage = "dialing"]
  <2>1. Goes(p, r) /\ file' = [file EXCEPT !.key = run[p].key]
    BY <1>6 DEF WriteKey, Moves
  <2>2. r \in RunRecord /\ r.stage # "off" /\ file' \in FileRecord
    BY <1>1, <2>1 DEF RunRecord, Stage, Starting, FileRecord
  <2> HIDE DEF r
  <2> QED BY <1>3, <2>1, <2>2
<1> QED BY <1>2, <1>4, <1>5, <1>6

\* bind_service_endpoint, and the relay that is pinned
LEMMA RelayTyped ==
  ASSUME ManagedTypeOK, NEW p \in Run, Dial(p) \/ PinRelay(p) \/ WriteRelay(p)
  PROVE  ManagedTypeOK'
<1>1. /\ Untouched /\ run[p].stage \in {"dialing", "pinning", "writingRelay"}
      /\ run[p] \in RunRecord /\ file \in FileRecord
  BY DEF Dial, PinRelay, WriteRelay, ElseSame, history, installed, Untouched, At, ManagedTypeOK,
         RunRecord, Stage, FileRecord
<1>2. CASE Fails(p)
  BY <1>1, <1>2, ExitTyped DEF Fails
<1>3. ASSUME NEW r \in RunRecord, r.stage # "off", Goes(p, r), file' \in FileRecord
      PROVE  ManagedTypeOK'
  BY <1>1, <1>3, GoesTyped
<1>4. CASE Dial(p) /\ ~Fails(p)
  <2>1. PICK relay \in Relay :
          Goes(p, [run[p] EXCEPT !.stage = "pinning", !.relay = relay]) /\ file' = file
    BY <1>1, <1>4 DEF Dial, FileRecord
  <2> DEFINE r == [run[p] EXCEPT !.stage = "pinning", !.relay = relay]
  <2>2. r \in RunRecord /\ r.stage # "off"
    BY <1>1 DEF RunRecord, Stage, Starting
  <2> HIDE DEF r
  <2> QED BY <1>1, <1>3, <2>1, <2>2 DEF r
<1>5. CASE PinRelay(p)
  <2>1. PICK stage \in {"claiming", "writingRelay"} :
          /\ Goes(p, [run[p] EXCEPT !.stage = stage])
          /\ file' = file \/ file' = [file EXCEPT !.relay = Empty]
    BY <1>5 DEF PinRelay, Moves
  <2> DEFINE r == [run[p] EXCEPT !.stage = stage]
  <2>2. r \in RunRecord /\ r.stage # "off" /\ file' \in FileRecord
    BY <1>1, <2>1 DEF RunRecord, Stage, Starting, FileRecord
  <2> HIDE DEF r
  <2> QED BY <1>1, <1>3, <2>1, <2>2 DEF r
<1>6. CASE WriteRelay(p)
  <2> DEFINE r == [run[p] EXCEPT !.stage = "claiming"]
  <2>1. Goes(p, r) /\ file' = [file EXCEPT !.relay = run[p].relay]
    BY <1>6 DEF WriteRelay, Moves
  <2>2. r \in RunRecord /\ r.stage # "off" /\ file' \in FileRecord
    BY <1>1, <2>1 DEF RunRecord, Stage, Starting, FileRecord
  <2> HIDE DEF r
  <2> QED BY <1>3, <2>1, <2>2
<1> QED BY <1>2, <1>4, <1>5, <1>6

\* A run that is started, by the supervisor or by hand
Begun(p, r) ==
  /\ run[p] = Idle
  /\ run' = [run EXCEPT ![p] = r]
  /\ r \in RunRecord /\ r.stage = "configuring"
  /\ overlapped' = (overlapped \/ \E q \in Run : run[q].stage \in Starting)
  /\ control' = control

\* run_managed_service, and urspace service run
LEMMA BeginTyped ==
  ASSUME ManagedTypeOK, NEW p \in Run,
         Spawn(p) \/ \E settings \in Settings : RunByHand(p, settings)
  PROVE  ManagedTypeOK' /\ \E r : Begun(p, r)
<1>1. PICK managed \in BOOLEAN, settings \in Settings \cup {None} :
        /\ Begin(p, managed, settings)
        /\ \/ job' = [job EXCEPT !.state = "running", !.by = p]
           \/ job' = job
  BY DEF Spawn, RunByHand
<1> DEFINE r == [Idle EXCEPT !.stage = "configuring", !.managed = managed, !.settings = settings]
<1>2. r \in RunRecord /\ r.stage = "configuring"
  BY DEF Idle, RunRecord, Stage, Starting
<1>3. /\ run' = [run EXCEPT ![p] = r] /\ run[p] = Idle
      /\ overlapped' = (overlapped \/ \E q \in Run : run[q].stage \in Starting)
      /\ definition' = definition /\ enabled' = enabled /\ wanted' = wanted /\ down' = down
      /\ file' = file /\ stopping' = stopping /\ control' = control
  BY <1>1 DEF Begin, Spawn, RunByHand, installed
<1> HIDE DEF r
<1>4. /\ job' \in [loaded : BOOLEAN, state : {"inactive", "due", "running"}, by : Run \cup {None}]
      /\ (job'.state = "running" <=> job'.by # None)
      /\ job'.by \in {p, job.by}
  <2>1. /\ job \in [loaded : BOOLEAN, state : {"inactive", "due", "running"}, by : Run \cup {None}]
        /\ (job.state = "running" <=> job.by # None)
    BY DEF ManagedTypeOK
  <2>2. CASE job' = job
    BY <2>1, <2>2
  <2>3. CASE job' = [job EXCEPT !.state = "running", !.by = p]
    <3>1. job'.state = "running" /\ job'.by = p /\ job'.loaded = job.loaded
      BY <2>1, <2>3
    <3>2. p # None
      BY ManagedAssumption
    <3> QED BY <2>1, <2>3, <3>1, <3>2
  <2> QED BY <1>1, <2>2, <2>3
<1>5. run' \in [Run -> RunRecord] /\ run'[p] = r /\ \A q \in Run \ {p} : run'[q] = run[q]
  BY <1>2, <1>3 DEF ManagedTypeOK, RunRecord, Stage
<1>6. \A q \in Run : job'.by = q => run'[q].stage # "off"
  BY <1>2, <1>4, <1>5 DEF ManagedTypeOK
<1>7. stopping' \subseteq {q \in Run : run'[q].stage = "serving"}
  BY <1>3, <1>5, IdleIsRun DEF ManagedTypeOK
<1>8. \A q \in Run : control' = q => run'[q].stage \in {"announcing", "serving"}
  BY <1>3, <1>5, IdleIsRun DEF ManagedTypeOK
<1>9. ManagedTypeOK'
  BY <1>3, <1>4, <1>5, <1>6, <1>7, <1>8 DEF ManagedTypeOK, RunRecord, Stage
<1> QED BY <1>2, <1>3, <1>9 DEF Begun

\* The run serves, or comes to its end.
LEMMA ServeTyped ==
  ASSUME ManagedTypeOK, NEW p \in Run,
         Issue(p) \/ HandleStop(p) \/ StopByHand(p) \/ Die(p)
  PROVE  ManagedTypeOK'
<1>1. CASE Issue(p)
  BY <1>1 DEF Issue, ManagedTypeOK, Stage, installed
<1>2. CASE HandleStop(p) \/ StopByHand(p) \/ Die(p)
  BY <1>2, ExitTyped DEF HandleStop, StopByHand, Die, ElseSame, history, installed, Untouched
<1> QED BY <1>1, <1>2

-----------------------------------------------------------------------------
(* The steps of a command *)

\* The steps that every command may have, and those of an install alone
Common == {"asking", "reloading", "enabling", "activating", "disabling", "deactivating",
           "removing", "waiting"}
Step == Common \cup {"saving", "writing", "defining"}

\* Settings are saved and written first, and the definition right after them.
InOrder(t) ==
  \A k \in 1..Len(t) :
    /\ t[k] \in {"saving", "writing"} => k = 1
    /\ t[k] = "defining" => k = 1 \/ (k = 2 /\ t[1] \in {"saving", "writing"})

\* Some of what only an install does is still to be done.
Installing(t) == \E k \in 1..Len(t) : t[k] \in {"saving", "writing", "defining"}

\* The service is still to be started.
Activating(t) == \E k \in 1..Len(t) : t[k] = "activating"

\* What is common is in order, wherever it comes.
LEMMA CommonInOrder ==
  ASSUME NEW t \in Seq(Common), t # <<>>
  PROVE  t \in Seq(Step) /\ InOrder(t) /\ ~Installing(t) /\ Head(t) \in Common
<1>1. t \in Seq(Step) /\ Head(t) \in Common /\ \A k \in 1..Len(t) : t[k] \in Common
  BY DEF Step
<1> QED BY <1>1 DEF InOrder, Installing, Common

\* The steps of the commands, on either platform
LEMMA StepsAre ==
  /\ DOMAIN Steps = {"install", "start", "restart", "stop", "uninstall"}
  /\ Steps["install"] \in
       {<<"saving", "defining", "reloading", "enabling", "activating", "waiting">>,
        <<"saving", "defining", "deactivating", "activating", "waiting">>}
  /\ Steps["start"] \in {<<"enabling", "activating", "waiting">>, <<"activating", "waiting">>}
  /\ Steps["restart"] = <<"asking", "activating", "waiting">>
  /\ Steps["stop"] = <<"asking", "deactivating">>
  /\ Steps["uninstall"] \in
       {<<"asking", "disabling", "deactivating", "removing", "reloading">>,
        <<"asking", "deactivating", "removing", "reloading">>}
BY DEF Steps

\* Only an install saves settings and writes a definition, in that order, and
\* only the commands that start the service come to start it.
LEMMA StepsInOrder ==
  ASSUME NEW name \in DOMAIN Steps,
         NEW t \in {Steps[name], IF name = "stop" THEN <<"asking">> ELSE Steps[name]}
  PROVE  /\ t \in Seq(Step) /\ t # <<>> /\ InOrder(t) /\ (Installing(t) => name = "install")
         /\ Activating(t) => name \in Starts
         /\ Head(t) \notin {"writing", "defining"}
<1>1. CASE name = "install"
  <2>1. t = Steps["install"]
    BY <1>1
  <2>2. CASE t = <<"saving", "defining", "reloading", "enabling", "activating", "waiting">>
    <3>1. /\ t \in Seq(Step) /\ Len(t) = 6
          /\ t[1] = "saving" /\ t[2] = "defining" /\ t[3] = "reloading"
          /\ t[4] = "enabling" /\ t[5] = "activating" /\ t[6] = "waiting"
      BY <2>2 DEF Step, Common
    <3>2. InOrder(t)
      BY <3>1 DEF InOrder
    <3>3. Head(t) = "saving" /\ t # <<>>
      BY <2>2
    <3> QED BY <1>1, <3>1, <3>2, <3>3 DEF Starts
  <2>3. CASE t = <<"saving", "defining", "deactivating", "activating", "waiting">>
    <3>1. /\ t \in Seq(Step) /\ Len(t) = 5
          /\ t[1] = "saving" /\ t[2] = "defining" /\ t[3] = "deactivating"
          /\ t[4] = "activating" /\ t[5] = "waiting"
      BY <2>3 DEF Step, Common
    <3>2. InOrder(t)
      BY <3>1 DEF InOrder
    <3>3. Head(t) = "saving" /\ t # <<>>
      BY <2>3
    <3> QED BY <1>1, <3>1, <3>2, <3>3 DEF Starts
  <2> QED BY <2>1, <2>2, <2>3, StepsAre
<1>2. CASE name \in {"start", "restart"}
  <2>1. t \in {<<"enabling", "activating", "waiting">>, <<"activating", "waiting">>,
              <<"asking", "activating", "waiting">>}
    BY <1>2, StepsAre
  <2>2. t \in Seq(Common) /\ t # <<>>
    <3>1. CASE t = <<"enabling", "activating", "waiting">>
      BY <3>1 DEF Common
    <3>2. CASE t = <<"activating", "waiting">>
      BY <3>2 DEF Common
    <3>3. CASE t = <<"asking", "activating", "waiting">>
      BY <3>3 DEF Common
    <3> QED BY <2>1, <3>1, <3>2, <3>3
  <2> QED BY <1>2, <2>2, CommonInOrder DEF Common, Starts
<1>3. CASE name \in {"stop", "uninstall"}
  <2>1. t \in {<<"asking">>, <<"asking", "deactivating">>,
              <<"asking", "disabling", "deactivating", "removing", "reloading">>,
              <<"asking", "deactivating", "removing", "reloading">>}
    BY <1>3, StepsAre
  <2>2. t \in Seq(Common) /\ t # <<>>
    <3>1. CASE t = <<"asking">>
      BY <3>1 DEF Common
    <3>2. CASE t = <<"asking", "deactivating">>
      BY <3>2 DEF Common
    <3>3. CASE t = <<"asking", "disabling", "deactivating", "removing", "reloading">>
      BY <3>3 DEF Common
    <3>4. CASE t = <<"asking", "deactivating", "removing", "reloading">>
      BY <3>4 DEF Common
    <3> QED BY <2>1, <3>1, <3>2, <3>3, <3>4
  <2>3. ~Activating(t)
    <3>1. CASE t = <<"asking">>
      BY <3>1 DEF Activating
    <3>2. CASE t = <<"asking", "deactivating">>
      BY <3>2 DEF Activating
    <3>3. CASE t = <<"asking", "disabling", "deactivating", "removing", "reloading">>
      <4>1. /\ Len(t) = 5 /\ t[1] = "asking" /\ t[2] = "disabling" /\ t[3] = "deactivating"
            /\ t[4] = "removing" /\ t[5] = "reloading"
        BY <3>3
      <4> QED BY <4>1 DEF Activating
    <3>4. CASE t = <<"asking", "deactivating", "removing", "reloading">>
      <4>1. /\ Len(t) = 4 /\ t[1] = "asking" /\ t[2] = "deactivating"
            /\ t[3] = "removing" /\ t[4] = "reloading"
        BY <3>4
      <4> QED BY <4>1 DEF Activating
    <3> QED BY <2>1, <3>1, <3>2, <3>3, <3>4
  <2> QED BY <2>2, <2>3, CommonInOrder DEF Common
<1> QED BY <1>1, <1>2, <1>3, StepsAre

\* The order is kept when a step is done; only the definition can come to be next.
LEMMA AdvanceInOrder ==
  ASSUME NEW t \in Seq(Step), t # <<>>, InOrder(t)
  PROVE  /\ Tail(t) \in Seq(Step) /\ InOrder(Tail(t)) /\ (Installing(Tail(t)) => Installing(t))
         /\ Activating(Tail(t)) => Activating(t)
         /\ Tail(t) # <<>> =>
              /\ Head(Tail(t)) \notin {"saving", "writing"}
              /\ Head(Tail(t)) = "defining" => Head(t) \in {"saving", "writing"}
<1>1. /\ Tail(t) \in Seq(Step) /\ Len(Tail(t)) = Len(t) - 1 /\ Len(t) \in Nat \ {0}
      /\ Head(t) = t[1]
      /\ \A k \in 1..Len(Tail(t)) : Tail(t)[k] = t[k + 1]
  BY HeadTailProperties, EmptySeq, LenProperties
<1>2. InOrder(Tail(t))
  BY <1>1 DEF InOrder
<1>3. Installing(Tail(t)) => Installing(t)
  <2> SUFFICES ASSUME NEW k \in 1..Len(Tail(t)), Tail(t)[k] \in {"saving", "writing", "defining"}
               PROVE  Installing(t)
    BY DEF Installing
  <2>1. k + 1 \in 1..Len(t) /\ t[k + 1] \in {"saving", "writing", "defining"}
    BY <1>1
  <2> QED BY <2>1 DEF Installing
<1>4. Tail(t) # <<>> => Head(Tail(t)) = t[2] /\ 2 \in 1..Len(t)
  BY <1>1
<1>5. Activating(Tail(t)) => Activating(t)
  <2> SUFFICES ASSUME NEW k \in 1..Len(Tail(t)), Tail(t)[k] = "activating"
               PROVE  Activating(t)
    BY DEF Activating
  <2>1. k + 1 \in 1..Len(t) /\ t[k + 1] = "activating"
    BY <1>1
  <2> QED BY <2>1 DEF Activating
<1> QED BY <1>1, <1>2, <1>3, <1>4, <1>5 DEF InOrder

\* So it is when the settings have been created and are to be written.
LEMMA WritingInOrder ==
  ASSUME NEW t \in Seq(Step), t # <<>>, InOrder(t), Head(t) = "saving"
  PROVE  LET w == <<"writing">> \o Tail(t) IN
         /\ w \in Seq(Step) /\ w # <<>> /\ InOrder(w) /\ (Installing(w) => Installing(t))
         /\ Activating(w) => Activating(t)
         /\ Head(w) = "writing"
<1> DEFINE w == <<"writing">> \o Tail(t)
<1>1. /\ Tail(t) \in Seq(Step) /\ Len(Tail(t)) = Len(t) - 1 /\ Len(t) \in Nat \ {0}
      /\ Head(t) = t[1]
      /\ \A k \in 1..Len(Tail(t)) : Tail(t)[k] = t[k + 1]
  BY HeadTailProperties, EmptySeq, LenProperties
<1>2. /\ w \in Seq(Step) /\ Len(w) = Len(t) /\ w[1] = "writing"
      /\ \A k \in 2..Len(t) : w[k] = t[k]
  <2>1. <<"writing">> \in Seq(Step) /\ Len(<<"writing">>) = 1 /\ <<"writing">>[1] = "writing"
    BY DEF Step
  <2>2. w \in Seq(Step) /\ Len(w) = 1 + Len(Tail(t))
    BY <1>1, <2>1, ConcatProperties
  <2>3. \A k \in 1..Len(w) : w[k] = IF k = 1 THEN "writing" ELSE Tail(t)[k - 1]
    BY <1>1, <2>1, <2>2, ConcatProperties
  <2> QED BY <1>1, <2>2, <2>3
<1> HIDE DEF w
<1>3. InOrder(w)
  BY <1>1, <1>2 DEF InOrder
<1>4. Installing(t)
  BY <1>1 DEF Installing
<1>5. w # <<>> /\ Head(w) = "writing"
  BY <1>1, <1>2
<1>6. Activating(w) => Activating(t)
  BY <1>1, <1>2 DEF Activating
<1> QED BY <1>2, <1>3, <1>4, <1>5, <1>6 DEF w

-----------------------------------------------------------------------------
(* The settings come before the definition *)

CommandRecord ==
  [name : {"install", "start", "restart", "stop", "uninstall", None},
   settings : Settings \cup {None}, todo : Seq(Step)]

CommandOK(c) ==
  /\ c \in CommandRecord
  /\ InOrder(c.todo)
  /\ Installing(c.todo) => c.name = "install" /\ c.settings \in Settings
  /\ Activating(c.todo) => c.name \in Starts

ComesTo(c, step) == c.todo # <<>> /\ Head(c.todo) = step

(***************************************************************************)
(* At most one install writes the settings; whoever goes on to the         *)
(* definition has found them written.                                      *)
(***************************************************************************)
CommandInv ==
  /\ command \in [Operator -> CommandRecord]
  /\ \A o \in Operator : CommandOK(command[o])
  /\ \A o \in Operator : ComesTo(command[o], "defining") => file.config \in Settings
  /\ \A o \in Operator : ComesTo(command[o], "writing") => file.config = Empty
  /\ \A o, x \in Operator :
       ComesTo(command[o], "writing") /\ ComesTo(command[x], "writing") => o = x
  /\ DefinedIsConfigured

\* An operator who does nothing
LEMMA QuietIsOK == CommandOK(Quiet) /\ Quiet.todo = <<>> /\ Quiet.name = None
<1>1. Quiet \in CommandRecord /\ Quiet.todo = <<>> /\ Quiet.name = None
  BY DEF Quiet, CommandRecord
<1> QED BY <1>1 DEF CommandOK, InOrder, Installing, Activating

\* One command goes on, or is given, or ends, and the settings are as they were.
LEMMA OneCommand ==
  ASSUME CommandInv, NEW o \in Operator, NEW c, CommandOK(c), file'.config = file.config,
         command' = [command EXCEPT ![o] = c],
         ComesTo(c, "defining") => file.config \in Settings, ~ComesTo(c, "writing"),
         definition' => definition \/ ComesTo(command[o], "defining")
  PROVE  CommandInv'
<1>1. /\ command' \in [Operator -> CommandRecord] /\ command'[o] = c
      /\ \A x \in Operator \ {o} : command'[x] = command[x]
  BY DEF CommandInv, CommandOK
<1>2. DefinedIsConfigured'
  BY DEF CommandInv, DefinedIsConfigured
<1>3. \A x \in Operator : CommandOK(command'[x])
  BY <1>1 DEF CommandInv
<1>4. \A x \in Operator : ComesTo(command'[x], "defining") => file'.config \in Settings
  BY <1>1 DEF CommandInv
<1>5. \A x \in Operator : ComesTo(command'[x], "writing") => x # o /\ ComesTo(command[x], "writing")
  BY <1>1
<1> QED BY <1>1, <1>2, <1>3, <1>4, <1>5 DEF CommandInv

\* No command does anything, and the settings are as they were.
LEMMA NoCommand ==
  ASSUME CommandInv, command' = command, file'.config = file.config, definition' = definition
  PROVE  CommandInv'
BY DEF CommandInv, DefinedIsConfigured

\* A command ends, at whichever step.
LEMMA EndKeeps ==
  ASSUME CommandInv, NEW o \in Operator, End(o), file'.config = file.config,
         definition' => definition
  PROVE  CommandInv'
BY QuietIsOK, OneCommand DEF End, ComesTo

\* A command goes on to its next step.
LEMMA AdvanceKeeps ==
  ASSUME CommandInv, NEW o \in Operator, Advance(o), command[o].todo # <<>>,
         ComesTo(command[o], "saving") => file.config \in Settings,
         ~ComesTo(command[o], "writing"), file'.config = file.config,
         definition' => definition \/ ComesTo(command[o], "defining")
  PROVE  CommandInv'
<1> DEFINE c == [command[o] EXCEPT !.todo = Tail(@)]
           t == command[o].todo
<1>1. /\ command' = [command EXCEPT ![o] = c] /\ command[o] \in CommandRecord /\ CommandOK(command[o])
      /\ t \in Seq(Step) /\ InOrder(t) /\ t # <<>>
  BY DEF Advance, CommandInv, CommandOK, CommandRecord
<1>2. /\ Tail(t) \in Seq(Step) /\ InOrder(Tail(t)) /\ (Installing(Tail(t)) => Installing(t))
      /\ Activating(Tail(t)) => Activating(t)
      /\ Tail(t) # <<>> =>
           /\ Head(Tail(t)) \notin {"saving", "writing"}
           /\ Head(Tail(t)) = "defining" => Head(t) \in {"saving", "writing"}
  <2> HIDE DEF t
  <2> QED BY <1>1, AdvanceInOrder
<1>3. /\ c \in CommandRecord /\ c.todo = Tail(t)
      /\ c.name = command[o].name /\ c.settings = command[o].settings
  BY <1>1, <1>2 DEF CommandRecord
<1>4. CommandOK(c)
  BY <1>1, <1>2, <1>3 DEF CommandOK
<1>5. ~ComesTo(c, "writing") /\ (ComesTo(c, "defining") => file.config \in Settings)
  BY <1>1, <1>2, <1>3 DEF ComesTo
<1> HIDE DEF c
<1> QED BY <1>1, <1>4, <1>5, OneCommand

\* A command is given, with all its steps before it.
LEMMA GiveKeeps ==
  ASSUME CommandInv, NEW o \in Operator, NEW name \in DOMAIN Steps,
         NEW settings \in Settings \cup {None}, name = "install" => settings \in Settings,
         Give(o, name, settings)
  PROVE  CommandInv'
<1> DEFINE t == IF name = "stop" /\ ~definition THEN <<"asking">> ELSE Steps[name]
           c == [name |-> name, settings |-> settings, todo |-> t]
<1>1. command' = [command EXCEPT ![o] = c] /\ file' = file /\ definition' = definition
  BY DEF Give, installed
<1>2. /\ t \in Seq(Step) /\ t # <<>> /\ InOrder(t) /\ (Installing(t) => name = "install")
      /\ Activating(t) => name \in Starts
      /\ Head(t) \notin {"writing", "defining"}
  BY StepsInOrder
<1>3. name \in {"install", "start", "restart", "stop", "uninstall"}
  BY StepsAre
<1> HIDE DEF t
<1>4. c \in CommandRecord /\ c.name = name /\ c.settings = settings /\ c.todo = t
  BY <1>2, <1>3 DEF CommandRecord
<1> HIDE DEF c
<1>5. CommandOK(c) /\ ~ComesTo(c, "writing") /\ ~ComesTo(c, "defining")
  BY <1>2, <1>4 DEF CommandOK, ComesTo
<1> QED BY <1>1, <1>5, OneCommand

\* The settings are created, found, or found to be others.
LEMMA SaveKeeps ==
  ASSUME ManagedTypeOK, CommandInv, NEW o \in Operator, SaveConfig(o)
  PROVE  CommandInv'
<1> DEFINE t == command[o].todo
           w == <<"writing">> \o Tail(t)
           c == [command[o] EXCEPT !.todo = w]
<1>1. /\ command[o] \in CommandRecord /\ CommandOK(command[o])
      /\ t \in Seq(Step) /\ InOrder(t) /\ t # <<>> /\ Head(t) = "saving" /\ definition' = definition
      /\ \A x \in Operator : command[x] \in CommandRecord
  BY DEF SaveConfig, Has, CommandInv, CommandOK, CommandRecord, installed
<1>2. command[o].settings \in Settings
  <2>1. Len(t) \in Nat \ {0} /\ t[1] = "saving"
    BY <1>1, EmptySeq, LenProperties
  <2>2. Installing(t)
    BY <2>1 DEF Installing
  <2> QED BY <1>1, <2>2 DEF CommandOK
<1>3. CASE file.config # None
  BY <1>1, <1>2, <1>3, EndKeeps, AdvanceKeeps DEF SaveConfig, ComesTo
<1>4. CASE file.config = None
  <2>1. /\ w \in Seq(Step) /\ w # <<>> /\ InOrder(w) /\ (Installing(w) => Installing(t))
        /\ Activating(w) => Activating(t)
        /\ Head(w) = "writing"
    <3> HIDE DEF t
    <3> QED BY <1>1, WritingInOrder
  <2>2. command' = [command EXCEPT ![o] = c] /\ file' = [file EXCEPT !.config = Empty]
    BY <1>4 DEF SaveConfig
  <2>3. /\ c \in CommandRecord /\ c.todo = w
        /\ c.name = command[o].name /\ c.settings = command[o].settings
    <3> HIDE DEF w
    <3> QED BY <1>1, <2>1 DEF CommandRecord
  <2>4. CommandOK(c) /\ ~ComesTo(c, "defining")
    <3> HIDE DEF w
    <3> QED BY <1>1, <2>1, <2>3 DEF CommandOK, ComesTo
  <2> HIDE DEF c, w, t
  <2>5. /\ command' \in [Operator -> CommandRecord] /\ command'[o] = c
        /\ \A x \in Operator \ {o} : command'[x] = command[x]
    BY <1>1, <2>2, <2>3 DEF CommandInv
  <2>6. file'.config = Empty
    BY <2>2 DEF ManagedTypeOK
  <2>7. /\ \A x \in Operator : ~ComesTo(command[x], "defining") /\ ~ComesTo(command[x], "writing")
        /\ ~definition
    BY <1>4, ManagedAssumption DEF CommandInv, DefinedIsConfigured
  <2>8. DefinedIsConfigured'
    BY <1>1, <2>7 DEF DefinedIsConfigured
  <2>9. \A x \in Operator : CommandOK(command'[x]) /\ ~ComesTo(command'[x], "defining")
    BY <2>4, <2>5, <2>7 DEF CommandInv
  <2>10. \A x \in Operator : ComesTo(command'[x], "writing") => x = o
    BY <2>5, <2>7
  <2> QED BY <2>5, <2>6, <2>8, <2>9, <2>10 DEF CommandInv
<1> QED BY <1>3, <1>4

\* The settings are written by the install that has created them.
LEMMA WriteKeeps ==
  ASSUME ManagedTypeOK, CommandInv, NEW o \in Operator, WriteConfig(o)
  PROVE  CommandInv' /\ file.config = Empty /\ command[o].settings \in Settings
<1> DEFINE t == command[o].todo
           c == [command[o] EXCEPT !.todo = Tail(t)]
<1>1. /\ command[o] \in CommandRecord /\ CommandOK(command[o])
      /\ t \in Seq(Step) /\ InOrder(t) /\ t # <<>> /\ Head(t) = "writing" /\ definition' = definition
      /\ command' = [command EXCEPT ![o] = c] /\ file' = [file EXCEPT !.config = command[o].settings]
      /\ file.config = Empty
  BY DEF WriteConfig, Has, ComesTo, Advance, CommandInv, CommandOK, CommandRecord, installed
<1>2. command[o].settings \in Settings
  <2>1. Len(t) \in Nat \ {0} /\ t[1] = "writing"
    BY <1>1, EmptySeq, LenProperties
  <2>2. Installing(t)
    BY <2>1 DEF Installing
  <2> QED BY <1>1, <2>2 DEF CommandOK
<1>3. /\ Tail(t) \in Seq(Step) /\ InOrder(Tail(t)) /\ (Installing(Tail(t)) => Installing(t))
      /\ Activating(Tail(t)) => Activating(t)
      /\ Tail(t) # <<>> => Head(Tail(t)) \notin {"saving", "writing"}
  <2> HIDE DEF t
  <2> QED BY <1>1, AdvanceInOrder
<1>4. /\ c \in CommandRecord /\ c.todo = Tail(t)
      /\ c.name = command[o].name /\ c.settings = command[o].settings
  BY <1>1, <1>3 DEF CommandRecord
<1>5. CommandOK(c) /\ ~ComesTo(c, "writing")
  BY <1>1, <1>3, <1>4 DEF CommandOK, ComesTo
<1>6. ComesTo(command[o], "writing")
  BY <1>1 DEF ComesTo
<1> HIDE DEF c, t
<1>7. /\ command' \in [Operator -> CommandRecord] /\ command'[o] = c
      /\ \A x \in Operator \ {o} : command'[x] = command[x]
  BY <1>1, <1>4 DEF CommandInv
<1>8. file'.config \in Settings
  BY <1>1, <1>2 DEF ManagedTypeOK
<1>9. \A x \in Operator : CommandOK(command'[x]) /\ ~ComesTo(command'[x], "writing")
  BY <1>5, <1>6, <1>7 DEF CommandInv
<1>10. DefinedIsConfigured'
  BY <1>8 DEF DefinedIsConfigured
<1> QED BY <1>1, <1>2, <1>7, <1>8, <1>9, <1>10 DEF CommandInv

RunAction(p) ==
  \/ Spawn(p) \/ Proceed(p) \/ Issue(p) \/ HandleStop(p) \/ StopByHand(p) \/ Die(p)
  \/ \E settings \in Settings : RunByHand(p, settings)

CommandAction(o) ==
  \/ \E settings \in Settings : Give(o, "install", settings)
  \/ \E name \in DOMAIN Steps \ {"install"} : Give(o, name, None)
  \/ Progress(o) \/ ToolFails(o) \/ Abandon(o)

\* A run never touches the settings, the definition or a command.
LEMMA RunLeavesCommands ==
  ASSUME ManagedTypeOK, NEW p \in Run, RunAction(p)
  PROVE  command' = command /\ definition' = definition /\ file'.config = file.config
<1>1. file \in FileRecord
  BY DEF ManagedTypeOK, FileRecord
<1>2. CASE Proceed(p)
  <2>1. command' = command /\ definition' = definition
    BY <1>2 DEF Proceed, Configure, Look, RemoveStale, Identify, CreateKey, WriteKey, Dial, PinRelay,
                WriteRelay, Enter, Announce, ElseSame, installed
  <2>2. \/ file' = file
        \/ \E key : file' = [file EXCEPT !.key = key]
        \/ \E relay : file' = [file EXCEPT !.relay = relay]
    <3>1. CASE Configure(p) \/ Look(p) \/ Identify(p)
      BY <3>1 DEF Configure, Look, Identify, Fails
    <3>4. CASE RemoveStale(p) \/ Enter(p) \/ Announce(p)
      BY <3>4 DEF RemoveStale, Enter, Announce, Fails
    <3>2. CASE CreateKey(p) \/ WriteKey(p) \/ Dial(p)
      BY <3>2 DEF CreateKey, WriteKey, Dial, Fails
    <3>3. CASE PinRelay(p) \/ WriteRelay(p)
      BY <3>3 DEF PinRelay, WriteRelay
    <3> QED BY <1>2, <3>1, <3>2, <3>3, <3>4 DEF Proceed
  <2> QED BY <1>1, <2>1, <2>2 DEF FileRecord
<1>3. CASE Spawn(p) \/ Issue(p) \/ HandleStop(p) \/ StopByHand(p) \/ Die(p)
  BY <1>3 DEF Spawn, Issue, HandleStop, StopByHand, Die, ElseSame, installed
<1>4. CASE \E settings \in Settings : RunByHand(p, settings)
  BY <1>4 DEF RunByHand, installed
<1> QED BY <1>2, <1>3, <1>4 DEF RunAction

\* So every step of a run leaves the types as they are.
LEMMA RunTyped ==
  ASSUME ManagedTypeOK, NEW p \in Run, RunAction(p)
  PROVE  ManagedTypeOK'
BY ConfigureTyped, LookTyped, KeyTyped, RelayTyped, BeginTyped, ServeTyped DEF RunAction, Proceed

\* The uninstall for which `disable --now` has failed goes on.
LEMMA SkipKeeps ==
  ASSUME CommandInv, NEW o \in Operator, file' = file, definition' = definition,
         command' = [command EXCEPT ![o].todo = <<"removing", "reloading">>]
  PROVE  CommandInv'
<1> DEFINE t == <<"removing", "reloading">>
           c == [command[o] EXCEPT !.todo = t]
<1>1. t \in Seq(Common) /\ t # <<>> /\ ~Activating(t)
  BY DEF Common, Activating
<1>2. t \in Seq(Step) /\ InOrder(t) /\ ~Installing(t) /\ Head(t) \in Common
  <2> HIDE DEF t
  <2> QED BY <1>1, CommonInOrder
<1> HIDE DEF t
<1>3. c \in CommandRecord /\ c.todo = t /\ command' = [command EXCEPT ![o] = c]
  BY <1>2 DEF CommandInv, CommandRecord, t
<1> HIDE DEF c
<1>4. CommandOK(c) /\ ~ComesTo(c, "writing") /\ ~ComesTo(c, "defining")
  BY <1>1, <1>2, <1>3 DEF CommandOK, ComesTo, Common
<1> QED BY <1>3, <1>4, OneCommand

\* Every step of a command keeps the settings before the definition.
LEMMA CommandKeeps ==
  ASSUME ManagedTypeOK, CommandInv, NEW o \in Operator, CommandAction(o)
  PROVE  CommandInv'
<1>1. ASSUME NEW settings \in Settings, Give(o, "install", settings)
      PROVE  CommandInv'
  BY <1>1, GiveKeeps, StepsAre
<1>2. ASSUME NEW name \in DOMAIN Steps \ {"install"}, Give(o, name, None)
      PROVE  CommandInv'
  BY <1>2, GiveKeeps
<1>3. CASE SaveConfig(o) \/ WriteConfig(o)
  BY <1>3, SaveKeeps, WriteKeeps
<1>4. CASE Define(o)
  <2>1. /\ ComesTo(command[o], "defining") /\ Advance(o) /\ file' = file
        /\ command[o].todo # <<>>
        /\ ~ComesTo(command[o], "saving") /\ ~ComesTo(command[o], "writing")
    BY <1>4 DEF Define, Has, ComesTo
  <2> QED BY <2>1, AdvanceKeeps
<1>5. ASSUME NEW step \in Common, Has(o, step),
             Advance(o) \/ End(o), file' = file, definition' => definition
      PROVE  CommandInv'
  <2>1. /\ command[o].todo # <<>>
        /\ ~ComesTo(command[o], "saving") /\ ~ComesTo(command[o], "writing")
    BY <1>5 DEF Has, ComesTo, Common
  <2> QED BY <1>5, <2>1, AdvanceKeeps, EndKeeps
<1>6. CASE Ask(o) \/ Wait(o) \/ Enable(o)
  <2>1. /\ Has(o, "asking") \/ Has(o, "waiting") \/ Has(o, "enabling") \/ Has(o, "disabling")
        /\ file' = file /\ definition' = definition /\ (Advance(o) \/ End(o))
    BY <1>6 DEF Ask, Wait, Enable, installed
  <2> QED BY <1>5, <2>1 DEF Common
<1>7. CASE Activate(o) \/ Deactivate(o)
  <2>1. /\ Has(o, "activating") \/ Has(o, "deactivating")
        /\ file' = file /\ definition' = definition /\ (Advance(o) \/ End(o))
    BY <1>7 DEF Activate, Deactivate, installed
  <2> QED BY <1>5, <2>1 DEF Common
<1>8. CASE Remove(o) \/ Reload(o)
  BY <1>5, <1>8 DEF Remove, Reload, installed, Common
<1>9. CASE Abandon(o)
  BY <1>9, EndKeeps DEF Abandon, installed
<1>10. CASE ToolFails(o)
  <2>1. file' = file /\ definition' = definition
    BY <1>10 DEF ToolFails, installed
  <2>2. CASE End(o)
    BY <2>1, <2>2, EndKeeps
  <2>3. CASE ~End(o)
    BY <1>10, <2>1, <2>3, SkipKeeps DEF ToolFails
  <2> QED BY <2>2, <2>3
<1> QED BY <1>1, <1>2, <1>3, <1>4, <1>6, <1>7, <1>8, <1>9, <1>10 DEF CommandAction, Progress

\* The commands leave the types as they are, too.
LEMMA CommandTyped ==
  ASSUME ManagedTypeOK, CommandInv, NEW o \in Operator, CommandAction(o)
  PROVE  ManagedTypeOK'
<1> DEFINE Same == /\ file' = file /\ definition' = definition /\ enabled' = enabled
                   /\ overlapped' = overlapped
<1>1. ASSUME job' = job, run' = run, control' \in {control, None},
             stopping' \subseteq {p \in Run : Serving(p)},
             file' \in FileRecord, definition' \in BOOLEAN, enabled' \in BOOLEAN,
             wanted' \in BOOLEAN, down' \in {"no", "stopped", "uninstalled"},
             overlapped' \in BOOLEAN
      PROVE  ManagedTypeOK'
  BY <1>1, ManagedAssumption DEF ManagedTypeOK, FileRecord, Serving
<1>2. /\ overlapped \in BOOLEAN
      /\ file \in FileRecord /\ definition \in BOOLEAN /\ enabled \in BOOLEAN /\ wanted \in BOOLEAN
      /\ down \in {"no", "stopped", "uninstalled"} /\ stopping \subseteq {p \in Run : Serving(p)}
  BY DEF ManagedTypeOK, FileRecord, Serving
<1>3. ASSUME NEW name, NEW settings, Give(o, name, settings)
      PROVE  ManagedTypeOK'
  <2>1. overlapped' \in BOOLEAN
    BY <1>2, <1>3 DEF Give
  <2>2. /\ job' = job /\ run' = run /\ control' \in {control, None} /\ stopping' = stopping
        /\ file' = file /\ definition' = definition /\ enabled' = enabled /\ wanted' = wanted
        /\ down' \in {down, "no"}
    BY <1>3 DEF Give, installed
  <2> QED BY <1>1, <1>2, <2>1, <2>2
<1>4. CASE SaveConfig(o)
  BY <1>1, <1>2, <1>4 DEF SaveConfig, history, installed, FileRecord
<1>5. CASE WriteConfig(o)
  BY <1>1, <1>2, <1>5, WriteKeeps DEF WriteConfig, history, installed, FileRecord
<1>6. CASE Define(o) \/ Ask(o) \/ Remove(o) \/ Wait(o)
  BY <1>1, <1>2, <1>6 DEF Define, Ask, Remove, Wait, history, installed
<1>11. CASE Enable(o)
  <2>1. Has(o, "enabling") \in BOOLEAN
    BY DEF Has
  <2>2. enabled' \in BOOLEAN
    BY <1>2, <1>11, <2>1 DEF Enable
  <2> QED BY <1>1, <1>2, <1>11, <2>2 DEF Enable, history
<1>7. CASE Activate(o)
  <2>1. wanted' \in BOOLEAN /\ Same /\ down' = down
    BY <1>2, <1>7 DEF Activate, installed
  <2>2. CASE EndJob(TRUE, "due")
    BY <1>2, <2>1, <2>2, EndJobTyped
  <2>3. CASE UNCHANGED <<control, job, run, stopping>>
    BY <1>1, <1>2, <2>1, <2>3
  <2> QED BY <1>7, <2>2, <2>3 DEF Activate
<1>8. CASE Deactivate(o)
  <2>1. wanted' \in BOOLEAN /\ Same /\ down' \in {"no", "stopped", "uninstalled"}
    BY <1>2, <1>8 DEF Deactivate, installed
  <2>2. CASE EndJob(job.loaded /\ Platform = "systemd", "inactive")
    BY <1>2, <2>1, <2>2, EndJobTyped
  <2>3. CASE UNCHANGED <<control, job, run, stopping>>
    BY <1>1, <1>2, <2>1, <2>3
  <2> QED BY <1>8, <2>2, <2>3 DEF Deactivate
<1>9. CASE Reload(o)
  <2>1. /\ job' = [job EXCEPT !.loaded = @ /\ definition] /\ run' = run /\ stopping' = stopping
        /\ Same /\ control' = control /\ wanted' \in BOOLEAN
        /\ down' \in {"no", "stopped", "uninstalled"}
    BY <1>2, <1>9 DEF Reload, installed
  <2>2. /\ job' \in [loaded : BOOLEAN, state : {"inactive", "due", "running"}, by : Run \cup {None}]
        /\ job'.state = job.state /\ job'.by = job.by
    BY <2>1 DEF ManagedTypeOK
  <2> QED BY <1>2, <2>1, <2>2 DEF ManagedTypeOK
<1>10. CASE ToolFails(o) \/ Abandon(o)
  BY <1>1, <1>2, <1>10 DEF ToolFails, Abandon, history, installed
<1> QED BY <1>3, <1>4, <1>5, <1>6, <1>7, <1>8, <1>9, <1>10, <1>11 DEF CommandAction, Progress

\* The tool of the platform ends the run of the job, or none.
LEMMA ToolEndsRuns ==
  ASSUME ManagedTypeOK, NEW o \in Operator, Activate(o) \/ Deactivate(o)
  PROVE  RunsEnd
<1>1. \/ run' = run /\ control' = control
      \/ EndJob(TRUE, "due")
      \/ EndJob(job.loaded /\ Platform = "systemd", "inactive")
  BY DEF Activate, Deactivate
<1>2. (job.loaded /\ Platform = "systemd") \in BOOLEAN
  OBVIOUS
<1> QED BY <1>1, <1>2, EndJobEffect DEF RunsEnd

\* Everything starts again from the files.
LEMMA RebootKeeps ==
  ASSUME ManagedTypeOK, CommandInv, Reboot
  PROVE  ManagedTypeOK' /\ CommandInv' /\ RunsEnd
<1>1. PICK starts \in BOOLEAN :
      /\ run' = [p \in Run |-> Idle] /\ stopping' = {} /\ command' = [o \in Operator |-> Quiet]
      /\ file' = file /\ definition' = definition /\ enabled' = enabled /\ wanted' = starts
      /\ down' = IF down = "stopped" THEN "no" ELSE down
      /\ overlapped' = overlapped
      /\ job' = [loaded |-> definition, state |-> IF starts THEN "due" ELSE "inactive",
                 by |-> None]
  BY DEF Reboot, installed
<1>2. /\ job' \in [loaded : BOOLEAN, state : {"inactive", "due", "running"}, by : Run \cup {None}]
      /\ job'.state # "running" /\ job'.by = None
  BY <1>1 DEF ManagedTypeOK
<1>3. run' \in [Run -> RunRecord]
  BY <1>1, IdleIsRun
<1>8. ControlTyped' /\ RunsEnd
  <2>1. control' \in Leaves(Run)
    BY DEF Reboot
  <2>2. run' = [q \in Run |-> IF q \in Run THEN Idle ELSE run[q]]
    BY <1>1
  <2> QED BY <2>1, <2>2, LeavesEffect
<1>4. ManagedTypeOK'
  BY <1>1, <1>2, <1>3, <1>8, ManagedAssumption DEF ManagedTypeOK, RunRecord, Stage, ControlTyped
<1>5. \A o \in Operator : CommandOK(command'[o]) /\ command'[o].todo = <<>>
  BY <1>1, QuietIsOK
<1>6. command' \in [Operator -> CommandRecord]
  BY <1>1, QuietIsOK DEF CommandOK
<1>7. CommandInv'
  BY <1>1, <1>5, <1>6 DEF CommandInv, ComesTo, DefinedIsConfigured
<1> QED BY <1>4, <1>7, <1>8

\* A stranger comes or goes where the control file of a run that is gone points.
LEMMA PortKeeps ==
  ASSUME ManagedTypeOK, PortChanges
  PROVE  ManagedTypeOK' /\ RunsEnd
<1>1. /\ control \in {Left, Taken} /\ control' \in {Left, Taken} /\ run' = run /\ file' = file
      /\ job' = job /\ stopping' = stopping /\ Untouched
  BY DEF PortChanges, history, installed, Untouched
<1>2. \A p \in Run : control # p /\ control' # p
  BY <1>1, ManagedAssumption
<1>3. ManagedTypeOK'
  BY <1>1, <1>2 DEF ManagedTypeOK, Stage, Untouched
<1> QED BY <1>1, <1>2, <1>3 DEF RunsEnd

-----------------------------------------------------------------------------
(* A service that was stopped stays down *)

(***************************************************************************)
(* After a stop nobody is starting the service and the supervisor has      *)
(* nothing to restart; after an uninstall it does not know the service.    *)
(***************************************************************************)
DownInv ==
  /\ down # "no" => \A o \in Operator : command[o].name \notin Starts
  /\ down = "stopped" => job.state = "inactive"
  /\ down = "uninstalled" => ~job.loaded /\ ~definition

StartsNothing == down # "no" /\ down' # "no" => ~(job.by = None /\ job'.by # None)

\* A run that ends is followed by another only if the service is not down.
LEMMA RunStaysDown ==
  ASSUME ManagedTypeOK, DownInv, NEW p \in Run, RunAction(p)
  PROVE  DownInv' /\ StartsNothing
<1>1. command' = command /\ definition' = definition
  BY RunLeavesCommands
<1>2. CASE Spawn(p)
  <2>1. job.loaded /\ job.state = "due" /\ down' = down /\ down \in {"no", "stopped", "uninstalled"}
    BY <1>2 DEF Spawn, ManagedTypeOK
  <2>2. down = "no"
    BY <2>1 DEF DownInv
  <2> QED BY <2>1, <2>2 DEF DownInv, StartsNothing
<1>3. ASSUME down' = down, job' = job
      PROVE  DownInv' /\ StartsNothing
  BY <1>1, <1>3 DEF DownInv, StartsNothing
<1>4. ASSUME NEW ok \in BOOLEAN, Exit(p, ok), down' = down
      PROVE  DownInv' /\ StartsNothing
  <2>1. /\ job'.by \in {job.by, None} /\ job'.loaded = job.loaded
        /\ job'.state # job.state => job.by = p
    BY <1>4, ExitEffect
  <2>2. job.state = "inactive" => job.by # p
    BY ManagedAssumption DEF ManagedTypeOK
  <2> QED BY <1>1, <1>4, <2>1, <2>2 DEF DownInv, StartsNothing
<1>5. CASE Proceed(p)
  <2>1. down' = down
    BY <1>5 DEF Proceed, Configure, Look, RemoveStale, Identify, CreateKey, WriteKey, Dial, PinRelay,
                WriteRelay, Enter, Announce, ElseSame, history
  <2>2. job' = job \/ Exit(p, FALSE)
    <3>1. CASE Configure(p) \/ Look(p) \/ Identify(p)
      BY <3>1 DEF Configure, Look, Identify, Fails, Goes, Moves
    <3>2. CASE CreateKey(p) \/ WriteKey(p) \/ Dial(p)
      BY <3>2 DEF CreateKey, WriteKey, Dial, Fails, Goes, Moves
    <3>3. CASE PinRelay(p) \/ WriteRelay(p)
      BY <3>3 DEF PinRelay, WriteRelay, Goes, Moves
    <3>4. CASE RemoveStale(p) \/ Enter(p) \/ Announce(p)
      BY <3>4 DEF RemoveStale, Enter, Announce, Fails, Goes, Moves
    <3> QED BY <1>5, <3>1, <3>2, <3>3, <3>4 DEF Proceed
  <2> QED BY <1>3, <1>4, <2>1, <2>2
<1>6. CASE Issue(p) \/ \E settings \in Settings : RunByHand(p, settings)
  BY <1>3, <1>6 DEF Issue, RunByHand, history
<1>7. CASE HandleStop(p) \/ StopByHand(p) \/ Die(p)
  BY <1>4, <1>7 DEF HandleStop, StopByHand, Die, ElseSame, history
<1> QED BY <1>2, <1>5, <1>6, <1>7 DEF RunAction

\* A command goes on or ends; the other commands are what they were.
LEMMA NamesKept ==
  ASSUME CommandInv, NEW o \in Operator, Advance(o) \/ End(o)
  PROVE  /\ \A x \in Operator \ {o} : command'[x].name = command[x].name
         /\ command'[o].name \in {command[o].name, None}
<1>1. command[o] \in CommandRecord /\ DOMAIN command = Operator
  BY DEF CommandInv
<1>2. CASE End(o)
  BY <1>1, <1>2, QuietIsOK DEF End
<1>3. CASE Advance(o)
  BY <1>1, <1>3 DEF Advance, CommandRecord
<1> QED BY <1>2, <1>3

\* No command starts a service that is down but the starts, which end that.
LEMMA CommandStaysDown ==
  ASSUME ManagedTypeOK, CommandInv, DownInv, NEW o \in Operator, CommandAction(o)
  PROVE  DownInv' /\ StartsNothing
<1>0. down \in {"no", "stopped", "uninstalled"} /\ None \notin Starts
  BY ManagedAssumption DEF ManagedTypeOK, Starts
<1>1. ASSUME Advance(o) \/ End(o), job' = job, down' = down, definition' => definition
      PROVE  DownInv' /\ StartsNothing
  BY <1>0, <1>1, NamesKept DEF DownInv, StartsNothing
<1>2. ASSUME NEW name \in DOMAIN Steps, NEW settings, Give(o, name, settings)
      PROVE  DownInv' /\ StartsNothing
  <2> DEFINE c == [name |-> name, settings |-> settings,
                   todo |-> IF name = "stop" /\ ~definition THEN <<"asking">> ELSE Steps[name]]
  <2>1. /\ command' = [command EXCEPT ![o] = c] /\ c.name = name
        /\ down' = IF name \in Starts THEN "no" ELSE down
        /\ job' = job /\ definition' = definition
    BY <1>2 DEF Give, installed
  <2> HIDE DEF c
  <2>2. command'[o].name = name /\ \A x \in Operator \ {o} : command'[x] = command[x]
    BY <2>1 DEF CommandInv
  <2> QED BY <1>0, <2>1, <2>2 DEF DownInv, StartsNothing
<1>3. CASE SaveConfig(o) /\ file.config = None
  <2> DEFINE c == [command[o] EXCEPT !.todo = <<"writing">> \o Tail(@)]
  <2>1. /\ command' = [command EXCEPT ![o] = c] /\ job' = job /\ down' = down
        /\ definition' = definition /\ command[o] \in CommandRecord
    BY <1>3 DEF SaveConfig, history, installed, CommandInv
  <2>2. c.name = command[o].name
    BY <2>1 DEF CommandRecord
  <2> HIDE DEF c
  <2>3. \A x \in Operator : command'[x].name = command[x].name
    BY <2>1, <2>2 DEF CommandInv
  <2> QED BY <2>1, <2>3 DEF DownInv, StartsNothing
<1>4. CASE (SaveConfig(o) /\ file.config # None) \/ WriteConfig(o) \/ Ask(o) \/ Wait(o)
  BY <1>1, <1>4 DEF SaveConfig, WriteConfig, Ask, Wait, history, installed
<1>5. CASE Remove(o) \/ Enable(o) \/ (ToolFails(o) /\ End(o)) \/ Abandon(o)
  BY <1>1, <1>5 DEF Remove, Enable, ToolFails, Abandon, history, installed
<1>10. CASE ToolFails(o) /\ ~End(o)
  <2>1. /\ command' = [command EXCEPT ![o].todo = <<"removing", "reloading">>]
        /\ job' = job /\ down' = down /\ definition' = definition
    BY <1>10 DEF ToolFails, history, installed
  <2>2. \A x \in Operator : command'[x].name = command[x].name
    BY <2>1 DEF CommandInv, CommandRecord
  <2> QED BY <2>1, <2>2 DEF DownInv, StartsNothing
<1>6. CASE Define(o)
  <2>1. command[o].name = "install" /\ down' = down /\ job' = job
    <3> DEFINE t == command[o].todo
    <3>1. t \in Seq(Step) /\ t # <<>> /\ Head(t) = "defining" /\ CommandOK(command[o])
      BY <1>6 DEF Define, Has, CommandInv, CommandOK, CommandRecord
    <3>2. Len(t) \in Nat \ {0} /\ t[1] = "defining"
      <4> HIDE DEF t
      <4> QED BY <3>1, EmptySeq, LenProperties
    <3>3. Installing(t)
      BY <3>2 DEF Installing
    <3> QED BY <1>6, <3>1, <3>3 DEF CommandOK, Define, history
  <2>2. down = "no"
    BY <2>1 DEF DownInv, Starts
  <2> QED BY <2>1, <2>2 DEF DownInv, StartsNothing
<1>7. CASE Activate(o)
  <2>1. command[o].name \in Starts /\ down' = down
    <3> DEFINE t == command[o].todo
    <3>1. t \in Seq(Step) /\ t # <<>> /\ Head(t) = "activating" /\ CommandOK(command[o])
      BY <1>7 DEF Activate, Has, CommandInv, CommandOK, CommandRecord
    <3>2. Len(t) \in Nat \ {0} /\ t[1] = "activating"
      <4> HIDE DEF t
      <4> QED BY <3>1, EmptySeq, LenProperties
    <3>3. Activating(t)
      BY <3>2 DEF Activating
    <3> QED BY <1>7, <3>1, <3>3 DEF CommandOK, Activate
  <2> QED BY <2>1 DEF DownInv, StartsNothing
<1>8. CASE Deactivate(o)
  <2>1. CASE definition \/ <<command[o].name, Platform>> \in Unneeded
    <3>0. /\ Advance(o) /\ definition' = definition
          /\ job' = [loaded |-> job.loaded /\ Platform = "systemd", state |-> "inactive",
                     by |-> None]
          /\ down' = IF command[o].name = "stop" /\ AloneWith(o) THEN "stopped" ELSE down
      BY <1>8, <2>1 DEF Deactivate, EndJob, installed
    <3>4. job.loaded \in BOOLEAN
      BY DEF ManagedTypeOK
    <3>5. job'.by = None /\ job'.state = "inactive" /\ (job'.loaded => job.loaded)
      BY <3>0, <3>4
    <3>1. /\ job'.by = None /\ job'.state = "inactive" /\ (job'.loaded => job.loaded)
          /\ (Advance(o) \/ End(o)) /\ definition' = definition
          /\ down' \in {down, "stopped"}
          /\ (down' # down => AloneWith(o) /\ command[o].name = "stop")
      BY <3>0, <3>5
    <3>2. down' # down => definition
      BY <2>1, <3>1 DEF Unneeded
    <3>3. down' # "no" => \A x \in Operator : command'[x].name \notin Starts
      BY <1>0, <3>1, NamesKept DEF DownInv, AloneWith, Starts
    <3> QED BY <1>0, <3>1, <3>2, <3>3 DEF DownInv, StartsNothing
  <2>2. CASE ~(definition \/ <<command[o].name, Platform>> \in Unneeded)
    BY <1>1, <1>8, <2>2 DEF Deactivate, installed
  <2> QED BY <2>1, <2>2
<1>9. CASE Reload(o)
  <2>1. /\ job'.by = job.by /\ job'.state = job.state /\ (job'.loaded => job.loaded /\ definition)
        /\ Advance(o) \/ End(o)
        /\ definition' = definition
        /\ down' \in {down, "uninstalled"}
        /\ down' # down => AloneWith(o) /\ ~definition /\ command[o].name = "uninstall"
    BY <1>9 DEF Reload, ManagedTypeOK, installed
  <2>2. down' # "no" => \A x \in Operator : command'[x].name \notin Starts
    BY <1>0, <2>1, NamesKept DEF DownInv, AloneWith, Starts
  <2> QED BY <1>0, <2>1, <2>2 DEF DownInv, StartsNothing
<1> QED BY <1>2, <1>3, <1>4, <1>5, <1>6, <1>7, <1>8, <1>9, <1>10, StepsAre
        DEF CommandAction, Progress

\* A login starts what is installed, and that is no longer down.
LEMMA RebootStaysDown ==
  ASSUME ManagedTypeOK, DownInv, Reboot
  PROVE  DownInv' /\ StartsNothing
<1>1. /\ \A o \in Operator : command'[o].name = None
      /\ job'.by = None /\ (job'.loaded => definition) /\ definition' = definition
      /\ down' = IF down = "stopped" THEN "no" ELSE down
  BY QuietIsOK DEF Reboot, installed
<1>2. None \notin Starts /\ down \in {"no", "stopped", "uninstalled"}
  BY ManagedAssumption DEF Starts, ManagedTypeOK
<1> QED BY <1>1, <1>2 DEF DownInv, StartsNothing

-----------------------------------------------------------------------------
(* The theorems that hold however the starts overlap *)

ManagedInv == ManagedTypeOK /\ CommandInv /\ DownInv

\* Nothing is installed at first.
LEMMA ManagedInitially == ManagedInit => ManagedInv
<1> SUFFICES ASSUME ManagedInit PROVE ManagedInv
  OBVIOUS
<1>1. /\ file = [config |-> None, key |-> None, relay |-> None] /\ definition = FALSE
      /\ job = [loaded |-> FALSE, state |-> "inactive", by |-> None]
      /\ run = [p \in Run |-> Idle] /\ stopping = {}
      /\ command = [o \in Operator |-> Quiet]
      /\ wanted = FALSE /\ down = "no" /\ control = None /\ enabled = FALSE /\ overlapped = FALSE
  BY DEF ManagedInit
<1>2. run \in [Run -> RunRecord]
  BY <1>1, IdleIsRun
<1>3. ManagedTypeOK
  BY <1>1, <1>2, ManagedAssumption DEF ManagedTypeOK, RunRecord, Stage
<1>4. /\ \A o \in Operator : CommandOK(command[o]) /\ command[o].todo = <<>>
      /\ command \in [Operator -> CommandRecord]
  BY <1>1, QuietIsOK DEF CommandOK
<1>5. CommandInv
  BY <1>1, <1>4 DEF CommandInv, ComesTo, DefinedIsConfigured
<1>6. DownInv
  BY <1>1 DEF DownInv
<1> QED BY <1>3, <1>5, <1>6 DEF ManagedInv

\* Every step keeps the invariant and starts nothing that is down.
LEMMA ManagedStep ==
  ASSUME ManagedInv, [ManagedNext]_managedVars
  PROVE  ManagedInv' /\ StartsNothing
<1>1. ASSUME NEW p \in Run, RunAction(p)
      PROVE  ManagedInv' /\ StartsNothing
  BY <1>1, RunTyped, RunLeavesCommands, NoCommand, RunStaysDown DEF ManagedInv
<1>2. ASSUME NEW o \in Operator, CommandAction(o)
      PROVE  ManagedInv' /\ StartsNothing
  BY <1>2, CommandTyped, CommandKeeps, CommandStaysDown DEF ManagedInv
<1>3. CASE Reboot
  BY <1>3, RebootKeeps, RebootStaysDown DEF ManagedInv
<1>5. CASE PortChanges
  <2>1. /\ file' = file /\ definition' = definition /\ job' = job /\ command' = command
        /\ down' = down
    BY <1>5 DEF PortChanges, installed, history
  <2>2. DownInv' /\ StartsNothing
    BY <2>1 DEF ManagedInv, DownInv, StartsNothing
  <2> QED BY <1>5, <2>1, <2>2, PortKeeps, NoCommand DEF ManagedInv
<1>4. CASE UNCHANGED managedVars
  <2>1. /\ file' = file /\ definition' = definition /\ job' = job /\ run' = run
        /\ stopping' = stopping /\ command' = command /\ wanted' = wanted /\ down' = down
        /\ control' = control /\ enabled' = enabled /\ overlapped' = overlapped
    BY <1>4 DEF managedVars
  <2>2. ManagedTypeOK'
    BY <2>1 DEF ManagedInv, ManagedTypeOK, Stage
  <2>3. CommandInv'
    BY <2>1, NoCommand DEF ManagedInv
  <2>4. DownInv' /\ StartsNothing
    BY <2>1 DEF ManagedInv, DownInv, StartsNothing
  <2> QED BY <2>2, <2>3, <2>4 DEF ManagedInv
<1> QED BY <1>1, <1>2, <1>3, <1>4, <1>5 DEF ManagedNext, RunAction, CommandAction

(***************************************************************************)
(* The invariant the next theorems follow from, for any overlap of starts. *)
(* DefinedIsConfigured alone is not inductive: it needs that an install    *)
(* comes to the definition only after settings it found or wrote, and that *)
(* no two installs write them.                                             *)
(***************************************************************************)
THEOREM ManagedInvariantHolds == ManagedSpec => []ManagedInv
<1>1. ManagedInv /\ [ManagedNext]_managedVars => ManagedInv'
  BY ManagedStep
<1> QED BY <1>1, ManagedInitially, PTL DEF ManagedSpec

(***************************************************************************)
(* The files, the job, the runs and the commands have their types: in      *)
(* particular the job is running exactly when it has a run, and that run   *)
(* has not ended.                                                          *)
(***************************************************************************)
THEOREM ManagedTypeCorrect == ManagedSpec => []ManagedTypeOK
<1>1. ManagedInv => ManagedTypeOK
  BY DEF ManagedInv
<1> QED BY <1>1, ManagedInvariantHolds, PTL

(***************************************************************************)
(* install writes the definition only after the settings, whoever else     *)
(* installs at the same time and wherever either of them is killed.        *)
(***************************************************************************)
THEOREM DefinitionHasSettings == ManagedSpec => []DefinedIsConfigured
<1>1. ManagedInv => DefinedIsConfigured
  BY DEF ManagedInv, CommandInv
<1> QED BY <1>1, ManagedInvariantHolds, PTL

(***************************************************************************)
(* Once `service stop` or `service uninstall` has succeeded the supervisor *)
(* starts nothing, however the run it had came to its end.                 *)
(***************************************************************************)
THEOREM StoppedStaysDown == ManagedSpec => StaysDown
<1>1. ManagedInv /\ [ManagedNext]_managedVars
        => [down # "no" /\ down' # "no" => ~(job.by = None /\ job'.by # None)]_managedVars
  BY ManagedStep DEF StartsNothing
<1> QED BY <1>1, ManagedInvariantHolds, PTL DEF ManagedSpec, StaysDown

-----------------------------------------------------------------------------
(* There is one identity, also when starts overlap *)

\* The stages in which a run has its identity, and has it from the file
HasKey == {"creatingKey", "writingKey", "dialing", "pinning", "writingRelay", "claiming",
           "clearing", "entering", "announcing", "serving"}
KeyKept == HasKey \ {"creatingKey", "writingKey"}

HasItsKey(r, f) ==
  /\ r.stage \in HasKey => r.key \in Key
  /\ r.stage = "writingKey" => f.key = Empty
  /\ r.stage \in KeyKept => f.key = r.key

(***************************************************************************)
(* Only the run that has created the identity file writes it, and what is  *)
(* written there stays.                                                    *)
(***************************************************************************)
IdentityInv ==
  /\ \A p \in Run : HasItsKey(run[p], file)
  /\ \A p, q \in Run : run[p].stage = "writingKey" /\ run[q].stage = "writingKey" => p = q
  /\ \A g \in grants : g.key = file.key /\ file.key \in Key

\* Runs that end leave the identity as it is.
LEMMA EndsKeepIdentity ==
  ASSUME ManagedTypeOK, IdentityInv, RunsEnd, grants' = grants, file'.key = file.key
  PROVE  IdentityInv'
<1>1. \A p \in Run : run'[p].stage # "off" => run'[p] = run[p]
  BY IdleIsRun DEF RunsEnd
<1>2. \A p \in Run : HasItsKey(run'[p], file')
  <2> TAKE p \in Run
  <2>1. CASE run'[p].stage = "off"
    BY <2>1 DEF HasItsKey, HasKey, KeyKept
  <2>2. CASE run'[p] = run[p]
    BY <2>2 DEF IdentityInv, HasItsKey
  <2> QED BY <1>1, <2>1, <2>2
<1> QED BY <1>1, <1>2 DEF IdentityInv

\* So does a run that goes on and writes nothing.
LEMMA GoingOnKeepsIdentity ==
  ASSUME ManagedTypeOK, IdentityInv, NEW p \in Run, NEW r, run' = [run EXCEPT ![p] = r],
         grants' = grants, file'.key = file.key, r.stage # "writingKey", HasItsKey(r, file)
  PROVE  IdentityInv'
<1>1. run'[p] = r /\ \A q \in Run \ {p} : run'[q] = run[q]
  BY DEF ManagedTypeOK
<1>2. \A q \in Run : HasItsKey(run'[q], file')
  <2> TAKE q \in Run
  <2>1. HasItsKey(run'[q], file)
    BY <1>1 DEF IdentityInv
  <2> QED BY <2>1 DEF HasItsKey
<1>3. \A q \in Run : run'[q].stage = "writingKey" => run[q].stage = "writingKey"
  BY <1>1
<1> QED BY <1>2, <1>3 DEF IdentityInv

\* The file is created while it is not there, and written while it is empty.
LEMMA KeyKeepsIdentity ==
  ASSUME ManagedTypeOK, IdentityInv, NEW p \in Run,
         (CreateKey(p) /\ ~Fails(p)) \/ WriteKey(p)
  PROVE  IdentityInv'
<1>1. run[p] \in RunRecord /\ file \in FileRecord /\ HasItsKey(run[p], file)
  BY DEF ManagedTypeOK, RunRecord, Stage, FileRecord, IdentityInv
<1>2. PICK stage \in {"writingKey", "dialing"} :
        /\ run' = [run EXCEPT ![p].stage = stage]
        /\ stage = "writingKey" => file.key = None /\ file' = [file EXCEPT !.key = Empty]
                                   /\ run[p].stage = "creatingKey"
        /\ stage = "dialing" => file' = [file EXCEPT !.key = run[p].key]
                                /\ run[p].stage = "writingKey"
  <2>1. CASE CreateKey(p) /\ ~Fails(p)
    <3>1. /\ run' = [run EXCEPT ![p] = [run[p] EXCEPT !.stage = "writingKey"]]
          /\ file.key = None /\ file' = [file EXCEPT !.key = Empty] /\ run[p].stage = "creatingKey"
      BY <2>1 DEF CreateKey, Moves, Goes, At
    <3> QED BY <3>1
  <2>2. CASE WriteKey(p)
    <3>1. /\ run' = [run EXCEPT ![p] = [run[p] EXCEPT !.stage = "dialing"]]
          /\ file' = [file EXCEPT !.key = run[p].key] /\ run[p].stage = "writingKey"
      BY <2>2 DEF WriteKey, Moves, Goes, At
    <3> QED BY <3>1
  <2> QED BY <2>1, <2>2
<1>3. /\ run'[p].stage = stage /\ run'[p].key = run[p].key
      /\ \A q \in Run \ {p} : run'[q] = run[q]
  BY <1>1, <1>2 DEF ManagedTypeOK, RunRecord
<1>4. /\ file.key \in {None, Empty} /\ run[p].key \in Key
      /\ file'.key = IF stage = "writingKey" THEN Empty ELSE run[p].key
      /\ file.key = None \/ (file.key = Empty /\ run[p].stage = "writingKey")
  BY <1>1, <1>2 DEF HasItsKey, HasKey, FileRecord
<1>5. \A q \in Run \ {p} : run[q].stage \notin KeyKept \cup {"writingKey"}
  BY <1>4, ManagedAssumption DEF IdentityInv, HasItsKey, HasKey, KeyKept
<1>6. HasItsKey(run'[p], file')
  BY <1>3, <1>4 DEF HasItsKey, HasKey, KeyKept
<1>7. \A q \in Run \ {p} : HasItsKey(run'[q], file')
  BY <1>3, <1>5 DEF IdentityInv, HasItsKey
<1>8. grants = {} /\ grants' = grants
  BY <1>4, ManagedAssumption DEF IdentityInv, CreateKey, WriteKey, ElseSame, history
<1> QED BY <1>3, <1>5, <1>6, <1>7, <1>8 DEF IdentityInv

\* So no step of a run changes an identity that is there.
LEMMA RunKeepsIdentity ==
  ASSUME ManagedTypeOK, IdentityInv, NEW p \in Run, RunAction(p)
  PROVE  IdentityInv'
<1>1. run[p] \in RunRecord /\ file \in FileRecord /\ HasItsKey(run[p], file)
  BY DEF ManagedTypeOK, RunRecord, Stage, FileRecord, IdentityInv
<1>2. ASSUME NEW ok \in BOOLEAN, Exit(p, ok), file' = file, grants' = grants
      PROVE  IdentityInv'
  BY <1>2, ExitEffect, EndsKeepIdentity
<1>3. CASE HandleStop(p) \/ StopByHand(p) \/ Die(p)
  BY <1>2, <1>3 DEF HandleStop, StopByHand, Die, ElseSame, history
<1>4. CASE Spawn(p) \/ \E settings \in Settings : RunByHand(p, settings)
  <2>1. PICK r : Begun(p, r)
    BY <1>4, BeginTyped
  <2>2. file' = file /\ grants' = grants
    BY <1>4 DEF Spawn, RunByHand
  <2>3. HasItsKey(r, file) /\ r.stage # "writingKey"
    BY <2>1 DEF Begun, HasItsKey, HasKey, KeyKept
  <2> QED BY <2>1, <2>2, <2>3, GoingOnKeepsIdentity DEF Begun
<1>5. CASE Issue(p)
  <2>1. /\ run' = run /\ file' = file /\ run[p].stage = "serving"
        /\ \A g \in grants' : g \in grants \/ g.key = run[p].key
    BY <1>5 DEF Issue, Serving
  <2> QED BY <1>1, <2>1 DEF IdentityInv, HasItsKey, HasKey, KeyKept
<1>6. CASE Proceed(p)
  <2>1. grants' = grants
    BY <1>6 DEF Proceed, Configure, Look, RemoveStale, Identify, CreateKey, WriteKey, Dial, PinRelay,
                WriteRelay, Enter, Announce, ElseSame, history
  <2>2. ASSUME Fails(p)
        PROVE  IdentityInv'
    BY <1>2, <2>1, <2>2 DEF Fails
  <2>3. ASSUME NEW r \in RunRecord, run' = [run EXCEPT ![p] = r], file'.key = file.key, r.stage # "writingKey",
               HasItsKey(r, file)
        PROVE  IdentityInv'
    BY <2>1, <2>3, GoingOnKeepsIdentity
  <2>4. CASE Configure(p) /\ ~Fails(p)
    <3> DEFINE r == [run[p] EXCEPT !.stage = "looking", !.checked = file.config # None,
                     !.settings = IF run[p].managed THEN file.config ELSE @]
    <3>1. Goes(p, r) /\ file' = file /\ (run[p].managed => file.config # None) /\ file.config # Empty
      BY <2>4 DEF Configure, Fails
    <3>2. r \in RunRecord /\ r.stage = "looking"
      BY <1>1, <3>1 DEF RunRecord, FileRecord, Stage, Starting
    <3> HIDE DEF r
    <3>3. HasItsKey(r, file)
      BY <3>2 DEF HasItsKey, HasKey, KeyKept
    <3> QED BY <2>3, <3>1, <3>2, <3>3 DEF Goes
  <2>5. ASSUME NEW stage \in Starting \cup {"serving"}, run' = [run EXCEPT ![p].stage = stage],
               file'.key = file.key, stage # "writingKey",
               stage \in HasKey => stage \in KeyKept /\ run[p].stage \in KeyKept
        PROVE  IdentityInv'
    <3> DEFINE r == [run[p] EXCEPT !.stage = stage]
    <3>1. /\ r \in RunRecord /\ r.stage = stage /\ r.key = run[p].key
          /\ run' = [run EXCEPT ![p] = r]
      BY <1>1, <2>5 DEF RunRecord, Stage
    <3> HIDE DEF r
    <3>2. HasItsKey(r, file)
      BY <1>1, <2>5, <3>1 DEF HasItsKey, HasKey, KeyKept
    <3> QED BY <2>3, <2>5, <3>1, <3>2
  <2>6. CASE Look(p)
    <3>1. \/ Fails(p)
          \/ \E stage \in {"identifying", "removing"} : Moves(p, stage) /\ file' = file
          \/ /\ run[p].stage = "claiming" /\ file' = file
             /\ \E stage \in {"entering", "clearing"} : Moves(p, stage)
      BY <2>6 DEF Look, At
    <3> QED BY <2>2, <2>5, <3>1 DEF Starting, HasKey, KeyKept, Moves, Goes
  <2>11. CASE RemoveStale(p) /\ ~Fails(p)
    <3>1. /\ file' = file
          /\ \/ run' = [run EXCEPT ![p].stage = "identifying"]
             \/ run[p].stage = "clearing" /\ run' = [run EXCEPT ![p].stage = "entering"]
      BY <2>11 DEF RemoveStale, At
    <3> QED BY <2>5, <3>1 DEF Starting, HasKey, KeyKept
  <2>12. CASE Enter(p) /\ ~Fails(p)
    <3>1. file' = file /\ run[p].stage = "entering" /\ run' = [run EXCEPT ![p].stage = "announcing"]
      BY <2>12 DEF Enter, At
    <3> QED BY <2>5, <3>1 DEF Starting, HasKey, KeyKept
  <2>13. CASE Announce(p)
    <3>1. file' = file /\ run[p].stage = "announcing" /\ run' = [run EXCEPT ![p].stage = "serving"]
      BY <2>13 DEF Announce, Moves, Goes, At
    <3> QED BY <2>5, <3>1 DEF Starting, HasKey, KeyKept
  <2>7. CASE Identify(p) /\ ~Fails(p)
    <3>1. PICK key \in Key, stage \in {"creatingKey", "dialing"} :
            /\ Goes(p, [run[p] EXCEPT !.stage = stage, !.key = key]) /\ file' = file
            /\ stage = "dialing" => file.key = key
      BY <2>7 DEF Identify
    <3> DEFINE r == [run[p] EXCEPT !.stage = stage, !.key = key]
    <3>2. r \in RunRecord /\ r.stage = stage /\ r.key = key
      BY <1>1 DEF RunRecord, Stage, Starting
    <3> HIDE DEF r
    <3>3. HasItsKey(r, file)
      BY <3>1, <3>2 DEF HasItsKey, KeyKept
    <3> QED BY <2>3, <3>1, <3>2, <3>3 DEF r, Goes
  <2>8. CASE (CreateKey(p) /\ ~Fails(p)) \/ WriteKey(p)
    BY <2>8, KeyKeepsIdentity
  <2>9. CASE Dial(p) /\ ~Fails(p)
    <3>1. PICK relay \in Relay :
            /\ Goes(p, [run[p] EXCEPT !.stage = "pinning", !.relay = relay]) /\ file' = file
            /\ run[p].stage = "dialing"
      BY <1>1, <2>9 DEF Dial, FileRecord, At
    <3> DEFINE r == [run[p] EXCEPT !.stage = "pinning", !.relay = relay]
    <3>2. r \in RunRecord /\ r.stage = "pinning" /\ r.key = run[p].key
      BY <1>1 DEF RunRecord, Stage, Starting
    <3> HIDE DEF r
    <3>3. HasItsKey(r, file)
      BY <1>1, <3>1, <3>2 DEF HasItsKey, HasKey, KeyKept
    <3> QED BY <2>3, <3>1, <3>2, <3>3 DEF r, Goes
  <2>10. CASE PinRelay(p) \/ WriteRelay(p)
    <3>1. /\ run[p].stage \in {"pinning", "writingRelay"}
          /\ \E stage \in {"claiming", "writingRelay"} : run' = [run EXCEPT ![p].stage = stage]
          /\ file' = file \/ \E relay : file' = [file EXCEPT !.relay = relay]
      BY <2>10 DEF PinRelay, WriteRelay, At, Moves, Goes
    <3>2. file'.key = file.key
      BY <1>1, <3>1 DEF FileRecord
    <3> QED BY <2>5, <3>1, <3>2 DEF Starting, KeyKept, HasKey
  <2> QED BY <1>6, <2>2, <2>4, <2>6, <2>7, <2>8, <2>9, <2>10, <2>11, <2>12, <2>13 DEF Proceed
<1> QED BY <1>3, <1>4, <1>5, <1>6 DEF RunAction

\* No command touches the identity.
LEMMA CommandKeepsIdentity ==
  ASSUME ManagedTypeOK, IdentityInv, NEW o \in Operator, CommandAction(o)
  PROVE  IdentityInv'
<1>1. ASSUME NEW name, NEW settings, Give(o, name, settings)
      PROVE  IdentityInv'
  BY <1>1 DEF Give, IdentityInv
<1>2. CASE SaveConfig(o) \/ WriteConfig(o)
  <2>1. /\ run' = run /\ grants' = grants /\ control' = control
        /\ file' = file \/ \E config : file' = [file EXCEPT !.config = config]
    BY <1>2 DEF SaveConfig, WriteConfig, history
  <2> QED BY <2>1, EndsKeepIdentity DEF RunsEnd, ManagedTypeOK
<1>3. CASE \/ Define(o) \/ Ask(o) \/ Enable(o) \/ Remove(o) \/ Reload(o) \/ Wait(o)
           \/ ToolFails(o) \/ Abandon(o)
  <2>1. run' = run /\ grants' = grants /\ file' = file /\ control' = control
    BY <1>3 DEF Define, Ask, Enable, Remove, Reload, Wait, ToolFails, Abandon, history
  <2> QED BY <2>1, EndsKeepIdentity DEF RunsEnd
<1>4. CASE Activate(o) \/ Deactivate(o)
  <2>1. grants' = grants /\ file' = file
    BY <1>4 DEF Activate, Deactivate
  <2>2. RunsEnd
    BY <1>4, ToolEndsRuns
  <2> QED BY <2>1, <2>2, EndsKeepIdentity
<1> QED BY <1>1, <1>2, <1>3, <1>4, EndsKeepIdentity DEF CommandAction, Progress, RunsEnd

(***************************************************************************)
(* Whoever starts at the same time, the service that answers has the       *)
(* identity that all the earlier grants name: it is created once           *)
(* (write_private_file: create_new), and a start that finds it created and *)
(* not written fails.                                                      *)
(***************************************************************************)
THEOREM OneIdentity == ManagedSpec => []IdentityStays
<1>1. ManagedInit => IdentityInv
  <2> SUFFICES ASSUME ManagedInit PROVE IdentityInv
    OBVIOUS
  <2>1. (\A p \in Run : run[p].stage = "off") /\ grants = {}
    BY IdleIsRun DEF ManagedInit
  <2> QED BY <2>1 DEF IdentityInv, HasItsKey, HasKey, KeyKept
<1>2. ManagedInv /\ IdentityInv /\ [ManagedNext]_managedVars => IdentityInv'
  <2> SUFFICES ASSUME ManagedInv, IdentityInv, [ManagedNext]_managedVars
               PROVE  IdentityInv'
    OBVIOUS
  <2>1. CASE \E p \in Run : RunAction(p)
    BY <2>1, RunKeepsIdentity DEF ManagedInv
  <2>2. CASE \E o \in Operator : CommandAction(o)
    BY <2>2, CommandKeepsIdentity DEF ManagedInv
  <2>3. CASE Reboot \/ PortChanges
    BY <2>3, EndsKeepIdentity, RebootKeeps, PortKeeps DEF ManagedInv, Reboot, PortChanges, history
  <2>4. CASE UNCHANGED managedVars
    BY <2>4, EndsKeepIdentity DEF ManagedInv, managedVars, RunsEnd
  <2> QED BY <2>1, <2>2, <2>3, <2>4 DEF ManagedNext, RunAction, CommandAction
<1>3. IdentityInv => IdentityStays
  BY DEF IdentityInv, IdentityStays, HasItsKey, HasKey, KeyKept, Serving
<1> QED BY <1>1, <1>2, <1>3, ManagedInvariantHolds, PTL DEF ManagedSpec

-----------------------------------------------------------------------------
(* When starts do not overlap, later runs can resume earlier grants *)

\* The stages in which a run has its relay, has it from the file, and has its settings
HasRelay == {"pinning", "writingRelay", "claiming", "clearing", "entering", "announcing",
             "serving"}
RelayKept == HasRelay \ {"pinning", "writingRelay"}
Configured == Stage \ {"off", "configuring"}

\* The stages of a start that has found no service
Passed == Starting \ {"configuring", "looking"}

\* What run r has read or written is in the files f and agrees with the grants gs.
Agrees(r, f, gs) ==
  /\ r.stage \in HasKey => r.key \in Key
  /\ r.stage = "writingKey" => f.key = Empty
  /\ r.stage \in KeyKept => f.key = r.key
  /\ r.stage \in HasRelay => r.relay \in Relay
  /\ r.stage = "pinning" => f.relay \in {None, r.relay}
  /\ r.stage = "writingRelay" => f.relay = Empty
  /\ r.stage \in RelayKept => f.relay = r.relay
  /\ r.stage \in Configured /\ r.checked => f.config = r.settings /\ f.config \in Settings
  /\ r.stage \in Configured /\ ~r.checked => \A g \in gs : ~g.checked

GrantsAgree(f, gs) ==
  \A g \in gs :
    /\ g.key = f.key /\ f.key \in Key
    /\ g.relay = f.relay /\ f.relay \in Relay
    /\ g.checked => g.settings = f.config /\ f.config \in Settings

(***************************************************************************)
(* One run starts at a time.  The one that serves has the control file, so *)
(* that a start which finds no service is alone.  Each run agrees with the *)
(* files and the grants, and one that started without settings to look at  *)
(* does not follow one that had them.                                      *)
(***************************************************************************)
ResumeInv ==
  /\ \A p \in Run : Agrees(run[p], file, grants)
  /\ GrantsAgree(file, grants)
  /\ \A p, q \in Run : run[p].stage \in Starting /\ run[q].stage \in Starting => p = q
  /\ \A p \in Run : run[p].stage \in {"announcing", "serving"} => control = p
  /\ \A p, q \in Run : run[p].stage \in Passed => ~Serving(q)
  /\ \A p, q \in Run :
       /\ run[p].stage \in Starting \cap Configured /\ ~run[p].checked
       /\ Serving(q)
       => ~run[q].checked

\* Runs that end take nothing with them, and settings that are there stay.
LEMMA EndsKeepResuming ==
  ASSUME ManagedTypeOK, ResumeInv, RunsEnd, grants' = grants,
         file'.key = file.key, file'.relay = file.relay,
         file.config \in Settings => file'.config = file.config
  PROVE  ResumeInv'
<1>1. \A p \in Run : run'[p].stage # "off" => run'[p] = run[p]
  BY IdleIsRun DEF RunsEnd
<1>2. \A p \in Run : Agrees(run'[p], file', grants')
  <2> TAKE p \in Run
  <2>1. CASE run'[p].stage = "off"
    BY <2>1 DEF Agrees, HasKey, KeyKept, HasRelay, RelayKept, Configured
  <2>2. CASE run'[p] = run[p]
    BY <2>2 DEF ResumeInv, Agrees
  <2> QED BY <1>1, <2>1, <2>2
<1>3. GrantsAgree(file', grants')
  BY DEF ResumeInv, GrantsAgree
<1>4. \A p \in Run : run'[p].stage \in Starting \cup {"serving"} => run'[p] = run[p]
  BY <1>1 DEF Starting
<1>5. ASSUME NEW p \in Run, run'[p].stage \in {"announcing", "serving"}
      PROVE  control' = p
  <2>1. run'[p] = run[p] /\ run'[p] # Idle
    BY <1>1, <1>5, IdleIsRun
  <2> QED BY <1>5, <2>1 DEF ResumeInv, RunsEnd
<1>6. \A p \in Run : run'[p].stage \in Passed \cup {"serving"} => run'[p] = run[p]
  BY <1>4 DEF Passed
<1> QED BY <1>2, <1>3, <1>4, <1>5, <1>6 DEF ResumeInv, Serving

\* A start begins when no other is under way.
LEMMA BeginKeepsResuming ==
  ASSUME ManagedTypeOK, ResumeInv, NEW p \in Run, NEW r, Begun(p, r), ~overlapped',
         file' = file, grants' = grants
  PROVE  ResumeInv'
<1>0. \A q \in Run : run[q].stage \notin Starting
  BY Zenon DEF Begun
<1>1. /\ run'[p] = r /\ r.stage = "configuring" /\ control' = control
      /\ \A q \in Run \ {p} : run'[q] = run[q] /\ run[q].stage \notin Starting
  BY <1>0 DEF Begun, ManagedTypeOK
<1>2. Agrees(r, file', grants')
  BY <1>1 DEF Agrees, HasKey, KeyKept, HasRelay, RelayKept, Configured
<1>3. \A q \in Run : Agrees(run'[q], file', grants')
  BY <1>1, <1>2 DEF ResumeInv
<1>4. \A q \in Run : run'[q].stage \in Starting => q = p
  BY <1>1
<1>5. \A q \in Run : run'[q].stage \in {"announcing", "serving"} => q # p /\ run'[q] = run[q]
  BY <1>1
<1>6. \A q \in Run : run'[q].stage \notin Starting \cap Configured /\ run'[q].stage \notin Passed
  BY <1>1, <1>4 DEF Configured, Passed
<1> QED BY <1>1, <1>3, <1>4, <1>5, <1>6 DEF ResumeInv, Serving

(***************************************************************************)
(* A start goes on.  It gets past its look at the control file only when   *)
(* nobody serves, and it may write the identity or the relay only while    *)
(* nobody has one: then there are no grants.                               *)
(***************************************************************************)
LEMMA GoingOnKeepsResuming ==
  ASSUME ManagedTypeOK, ResumeInv, NEW p \in Run, NEW r \in RunRecord,
         run[p].stage \in Starting, r.stage \in Starting \cup {"serving"},
         run' = [run EXCEPT ![p] = r], grants' = grants,
         \/ r.stage = "looking" /\ control' = control
         \/ \A q \in Run : ~Serving(q),
         r.stage \in {"announcing", "serving"} => control' = p,
         \/ file' = file
         \/ file.key \notin Key
         \/ file.relay \notin Relay,
         Agrees(r, file', grants),
         r.stage \in Configured /\ ~r.checked => \A q \in Run : Serving(q) => ~run[q].checked
  PROVE  ResumeInv'
<1>1. run'[p] = r /\ \A q \in Run \ {p} : run'[q] = run[q]
  BY DEF ManagedTypeOK
<1>2. \A q \in Run \ {p} : run[q].stage \in {"off", "serving"}
  <2>1. \A q \in Run : run[q].stage \in Stage
    BY DEF ManagedTypeOK, Stage
  <2> QED BY <2>1 DEF ResumeInv, Stage
<1>3. GrantsAgree(file', grants') /\ \A q \in Run \ {p} : Agrees(run[q], file', grants')
  <2>1. CASE file' = file
    BY <2>1 DEF ResumeInv
  <2>2. CASE file.key \notin Key \/ file.relay \notin Relay
    <3>1. grants = {}
      BY <2>2 DEF ResumeInv, GrantsAgree
    <3>2. \A q \in Run : ~Serving(q)
      BY <2>2 DEF ResumeInv, Agrees, HasKey, KeyKept, HasRelay, RelayKept, Serving
    <3>3. \A q \in Run \ {p} : run[q].stage = "off"
      BY <1>2, <3>2 DEF Serving
    <3>4. \A q \in Run \ {p} : Agrees(run[q], file', grants')
      BY <3>3 DEF Agrees, HasKey, KeyKept, HasRelay, RelayKept, Configured
    <3> QED BY <3>1, <3>4 DEF GrantsAgree
  <2> QED BY <2>1, <2>2
<1>4. \A q \in Run : Agrees(run'[q], file', grants')
  BY <1>1, <1>3
<1>5. \A q \in Run : run'[q].stage \in Starting => q = p
  BY <1>1, <1>2 DEF Starting
<1>6. \A q \in Run \ {p} : run'[q].stage \in {"announcing", "serving"} =>
        Serving(q) /\ run'[q] = run[q] /\ control' = control
  BY <1>1, <1>2 DEF Serving
<1>7. \A q \in Run : run'[q].stage \in {"announcing", "serving"} => control' = q
  BY <1>1, <1>6 DEF ResumeInv, Serving
<1>8. ASSUME NEW x \in Run, NEW y \in Run, run'[x].stage \in Passed
      PROVE  run'[y].stage # "serving"
  <2>1. x = p /\ r.stage \in Passed
    BY <1>1, <1>5, <1>8 DEF Passed
  <2>2. r.stage \in Starting /\ r.stage # "looking"
    BY <2>1 DEF Passed
  <2> QED BY <1>1, <1>6, <2>2 DEF Starting
<1>9. \A x, y \in Run :
        run'[x].stage \in Starting \cap Configured /\ ~run'[x].checked /\ run'[y].stage = "serving"
          => ~run'[y].checked
  <2> SUFFICES ASSUME NEW y \in Run, r.stage \in Starting \cap Configured, ~r.checked,
                      run'[y].stage = "serving"
               PROVE  ~run'[y].checked
    BY <1>1, <1>5
  <2>1. y # p
    BY <1>1 DEF Starting
  <2> QED BY <1>6, <2>1
<1> QED BY <1>3, <1>4, <1>5, <1>7, <1>8, <1>9 DEF ResumeInv, Serving

\* A run that ends, for any reason
LEMMA ExitKeepsResuming ==
  ASSUME ManagedTypeOK, ResumeInv, NEW p \in Run, NEW ok \in BOOLEAN, Exit(p, ok),
         file' = file, grants' = grants
  PROVE  ResumeInv'
BY ExitEffect, EndsKeepResuming

\* A run has looked at the settings exactly if there are any, and uses them.
LEMMA ConfigureKeepsResuming ==
  ASSUME ManagedTypeOK, ResumeInv, NEW p \in Run, Configure(p)
  PROVE  ResumeInv'
<1>1. grants' = grants /\ file' = file /\ run[p].stage = "configuring"
  BY DEF Configure, ElseSame, history, Fails, At
<1>2. CASE Fails(p)
  BY <1>1, <1>2, ExitKeepsResuming DEF Fails
<1>3. CASE ~Fails(p)
  <2> DEFINE r == [run[p] EXCEPT !.stage = "looking", !.checked = file.config # None,
                   !.settings = IF run[p].managed THEN file.config ELSE @]
  <2>1. /\ Goes(p, r) /\ (run[p].managed => file.config # None) /\ file.config # Empty
        /\ file.config # None /\ ~run[p].managed => file.config = run[p].settings
    BY <1>3 DEF Configure
  <2>2. run[p] \in RunRecord /\ file.config \in Settings \cup {None}
    BY <2>1 DEF ManagedTypeOK, RunRecord, Stage
  <2>3. /\ r \in RunRecord /\ r.stage = "looking" /\ r.checked = (file.config # None)
        /\ r.settings = IF run[p].managed THEN file.config ELSE run[p].settings
    BY <2>2 DEF RunRecord, Stage, Starting
  <2> HIDE DEF r
  <2>4. r.checked => file.config = r.settings /\ file.config \in Settings
    BY <2>1, <2>2, <2>3
  <2>5. ~r.checked => file.config \notin Settings
    BY <2>3, ManagedAssumption
  <2>6. ~r.checked => \A g \in grants : ~g.checked
    BY <2>5 DEF ResumeInv, GrantsAgree
  <2>7. ~r.checked => \A q \in Run : Serving(q) => ~run[q].checked
    BY <2>5 DEF ResumeInv, Agrees, Serving, Configured, Stage
  <2>8. Agrees(r, file', grants)
    BY <1>1, <2>3, <2>4, <2>6 DEF Agrees, HasKey, KeyKept, HasRelay, RelayKept
  <2>9. run' = [run EXCEPT ![p] = r] /\ control' = control
    BY <2>1 DEF Goes
  <2> QED BY <1>1, <2>3, <2>7, <2>8, <2>9, GoingOnKeepsResuming DEF Starting
<1> QED BY <1>2, <1>3

\* A run that has its settings, and has found no service, goes on with them.
LEMMA ConfiguredGoesOn ==
  ASSUME ManagedTypeOK, ResumeInv, NEW p \in Run, NEW r \in RunRecord,
         run[p].stage \in Passed \/ (run[p].stage = "looking" /\ ~Replies),
         r.stage \in Starting \cup {"serving"},
         r.checked = run[p].checked, run' = [run EXCEPT ![p] = r], grants' = grants,
         r.stage \in {"announcing", "serving"} => control' = p,
         \/ file' = file
         \/ file.key \notin Key
         \/ file.relay \notin Relay,
         Agrees(r, file', grants)
  PROVE  ResumeInv'
<1>1. \A q \in Run : ~Serving(q)
  BY DEF ResumeInv, Replies, Serving
<1>2. run[p].stage \in Starting
  BY DEF Passed, Starting
<1> QED BY <1>1, <1>2, GoingOnKeepsResuming

\* A run that does not come to its relay or its identity by this step
LEMMA ChangesStage ==
  ASSUME ManagedTypeOK, ResumeInv, NEW p \in Run, NEW stage \in Starting \cup {"serving"},
         run[p].stage \in Passed \/ (run[p].stage = "looking" /\ ~Replies),
         run' = [run EXCEPT ![p].stage = stage], grants' = grants, file' = file,
         stage \in {"announcing", "serving"} => control' = p,
         \/ stage \in {"identifying", "removing"}
         \/ stage \in RelayKept /\ run[p].stage \in RelayKept
  PROVE  ResumeInv'
<1>1. run[p] \in RunRecord /\ run[p].stage \in Configured /\ Agrees(run[p], file, grants)
  BY DEF Passed, Starting, Configured, Stage, ManagedTypeOK, RunRecord, ResumeInv
<1> DEFINE r == [run[p] EXCEPT !.stage = stage]
<1>2. /\ r \in RunRecord /\ r.stage = stage /\ r.checked = run[p].checked
      /\ r.settings = run[p].settings /\ r.key = run[p].key /\ r.relay = run[p].relay
      /\ run' = [run EXCEPT ![p] = r]
  BY <1>1 DEF RunRecord, Stage
<1> HIDE DEF r
<1>3. Agrees(r, file', grants)
  BY <1>1, <1>2 DEF Agrees, HasKey, KeyKept, HasRelay, RelayKept
<1> QED BY <1>2, <1>3, ConfiguredGoesOn

\* A run gets past the control file, and comes to serve, only when nobody does.
LEMMA LookKeepsResuming ==
  ASSUME ManagedTypeOK, ResumeInv, NEW p \in Run,
         Look(p) \/ RemoveStale(p) \/ Enter(p) \/ Announce(p)
  PROVE  ResumeInv'
<1>1. /\ grants' = grants /\ file' = file
      /\ run[p].stage \in {"looking", "removing", "claiming", "clearing", "entering", "announcing"}
  BY DEF Look, RemoveStale, Enter, Announce, ElseSame, history, At, Fails
<1>2. run[p].stage \in Passed \cup {"looking"}
  BY <1>1 DEF Passed, Starting
<1>3. CASE Fails(p)
  BY <1>1, <1>3, ExitKeepsResuming DEF Fails
<1>4. CASE Look(p) /\ ~Fails(p)
  <2>1. PICK stage \in {"identifying", "removing", "entering", "clearing"} :
          /\ run' = [run EXCEPT ![p].stage = stage] /\ ~Replies
          /\ stage \in {"entering", "clearing"} => run[p].stage = "claiming"
    BY <1>4 DEF Look, Moves, Goes, At
  <2> QED BY <1>1, <1>2, <2>1, ChangesStage DEF Starting, HasRelay, RelayKept
<1>5. CASE RemoveStale(p) /\ ~Fails(p)
  <2>1. PICK stage \in {"identifying", "entering"} :
          /\ run' = [run EXCEPT ![p].stage = stage] /\ run[p].stage # "looking"
          /\ stage = "entering" => run[p].stage = "clearing"
    BY <1>5 DEF RemoveStale, At
  <2> QED BY <1>1, <1>2, <2>1, ChangesStage DEF Starting, HasRelay, RelayKept
<1>6. CASE Enter(p) /\ ~Fails(p)
  <2>1. run' = [run EXCEPT ![p].stage = "announcing"] /\ control' = p /\ run[p].stage = "entering"
    BY <1>6 DEF Enter, At
  <2> QED BY <1>1, <1>2, <2>1, ChangesStage DEF Starting, HasRelay, RelayKept
<1>7. CASE Announce(p)
  <2>1. /\ run' = [run EXCEPT ![p].stage = "serving"] /\ control' = control
        /\ run[p].stage = "announcing"
    BY <1>7 DEF Announce, Moves, Goes, At
  <2>2. control' = p
    BY <2>1 DEF ResumeInv
  <2> QED BY <1>1, <1>2, <2>1, <2>2, ChangesStage DEF HasRelay, RelayKept
<1> QED BY <1>3, <1>4, <1>5, <1>6, <1>7

\* The identity is created once, and read by the later runs.
LEMMA KeyKeepsResuming ==
  ASSUME ManagedTypeOK, ResumeInv, NEW p \in Run, Identify(p) \/ CreateKey(p) \/ WriteKey(p)
  PROVE  ResumeInv'
<1>1. /\ grants' = grants /\ run[p].stage \in {"identifying", "creatingKey", "writingKey"}
      /\ run[p] \in RunRecord /\ run[p].stage \in Passed \cap Configured
      /\ Agrees(run[p], file, grants) /\ file \in FileRecord
  BY DEF Identify, CreateKey, WriteKey, ElseSame, history, At, Starting, Passed, Configured,
         Stage,
         ManagedTypeOK, RunRecord, ResumeInv, FileRecord
<1>2. CASE Fails(p)
  BY <1>1, <1>2, ExitKeepsResuming DEF Fails
<1>3. CASE Identify(p) /\ ~Fails(p)
  <2>1. PICK key \in Key, stage \in {"creatingKey", "dialing"} :
          /\ Goes(p, [run[p] EXCEPT !.stage = stage, !.key = key]) /\ file' = file
          /\ stage = "dialing" => file.key = key
    BY <1>3 DEF Identify
  <2> DEFINE r == [run[p] EXCEPT !.stage = stage, !.key = key]
  <2>2. /\ r \in RunRecord /\ r.stage = stage /\ r.checked = run[p].checked
        /\ r.settings = run[p].settings /\ r.key = key
    BY <1>1 DEF RunRecord, Stage, Starting
  <2> HIDE DEF r
  <2>3. Agrees(r, file', grants)
    BY <1>1, <2>1, <2>2 DEF Agrees, HasKey, KeyKept, HasRelay, RelayKept
  <2> QED BY <1>1, <2>1, <2>2, <2>3, ConfiguredGoesOn DEF Starting, Goes, r
<1>4. CASE CreateKey(p) /\ ~Fails(p)
  <2> DEFINE r == [run[p] EXCEPT !.stage = "writingKey"]
  <2>1. /\ Goes(p, r) /\ file' = [file EXCEPT !.key = Empty] /\ file.key = None
        /\ run[p].stage = "creatingKey"
    BY <1>4 DEF CreateKey, At, Moves
  <2>2. /\ r \in RunRecord /\ r.stage = "writingKey" /\ r.checked = run[p].checked
        /\ r.settings = run[p].settings /\ r.key = run[p].key
    BY <1>1 DEF RunRecord, Stage, Starting
  <2> HIDE DEF r
  <2>3. file'.key = Empty /\ file'.relay = file.relay /\ file'.config = file.config
    BY <1>1, <2>1 DEF FileRecord
  <2>4. Agrees(r, file', grants)
    BY <1>1, <2>1, <2>2, <2>3 DEF Agrees, HasKey, KeyKept, HasRelay, RelayKept
  <2> QED BY <1>1, <2>1, <2>2, <2>4, ConfiguredGoesOn, ManagedAssumption
     DEF Starting, Goes
<1>5. CASE WriteKey(p)
  <2> DEFINE r == [run[p] EXCEPT !.stage = "dialing"]
  <2>1. /\ Goes(p, r) /\ file' = [file EXCEPT !.key = run[p].key] /\ run[p].stage = "writingKey"
    BY <1>5 DEF WriteKey, At, Moves
  <2>2. /\ r \in RunRecord /\ r.stage = "dialing" /\ r.checked = run[p].checked
        /\ r.settings = run[p].settings /\ r.key = run[p].key
    BY <1>1 DEF RunRecord, Stage, Starting
  <2> HIDE DEF r
  <2>3. file'.key = run[p].key /\ file'.relay = file.relay /\ file'.config = file.config
    BY <1>1, <2>1 DEF FileRecord
  <2>4. file.key = Empty
    BY <1>1, <2>1 DEF Agrees
  <2>5. Agrees(r, file', grants)
    BY <1>1, <2>1, <2>2, <2>3 DEF Agrees, HasKey, KeyKept, HasRelay, RelayKept
  <2> QED BY <1>1, <2>1, <2>2, <2>4, <2>5, ConfiguredGoesOn, ManagedAssumption
     DEF Starting, Goes
<1> QED BY <1>2, <1>3, <1>4, <1>5

\* The relay is pinned once, and dialed by the later runs.
LEMMA RelayKeepsResuming ==
  ASSUME ManagedTypeOK, ResumeInv, NEW p \in Run, Dial(p) \/ PinRelay(p) \/ WriteRelay(p)
  PROVE  ResumeInv'
<1>1. /\ grants' = grants /\ run[p].stage \in {"dialing", "pinning", "writingRelay"}
      /\ run[p] \in RunRecord /\ run[p].stage \in Passed \cap Configured
      /\ Agrees(run[p], file, grants) /\ file \in FileRecord
  BY DEF Dial, PinRelay, WriteRelay, ElseSame, history, At, Starting, Passed, Configured,
         Stage,
         ManagedTypeOK, RunRecord, ResumeInv, FileRecord
<1>2. CASE Fails(p)
  BY <1>1, <1>2, ExitKeepsResuming DEF Fails
<1>3. CASE Dial(p) /\ ~Fails(p)
  <2>1. PICK relay \in Relay :
          /\ Goes(p, [run[p] EXCEPT !.stage = "pinning", !.relay = relay]) /\ file' = file
          /\ file.relay \in {None, relay} /\ run[p].stage = "dialing"
    BY <1>1, <1>3 DEF Dial, FileRecord, At
  <2> DEFINE r == [run[p] EXCEPT !.stage = "pinning", !.relay = relay]
  <2>2. /\ r \in RunRecord /\ r.stage = "pinning" /\ r.checked = run[p].checked
        /\ r.settings = run[p].settings /\ r.key = run[p].key /\ r.relay = relay
    BY <1>1 DEF RunRecord, Stage, Starting
  <2> HIDE DEF r
  <2>3. Agrees(r, file', grants)
    BY <1>1, <2>1, <2>2 DEF Agrees, HasKey, KeyKept, HasRelay, RelayKept
  <2> QED BY <1>1, <2>1, <2>2, <2>3, ConfiguredGoesOn DEF Starting, Goes, r
<1>4. CASE PinRelay(p) /\ file.relay # None
  <2> DEFINE r == [run[p] EXCEPT !.stage = "claiming"]
  <2>1. Goes(p, r) /\ file' = file /\ run[p].stage = "pinning"
    BY <1>4 DEF PinRelay, At, Moves
  <2>2. /\ r \in RunRecord /\ r.stage = "claiming" /\ r.checked = run[p].checked
        /\ r.settings = run[p].settings /\ r.key = run[p].key /\ r.relay = run[p].relay
    BY <1>1 DEF RunRecord, Stage, Starting
  <2> HIDE DEF r
  <2>3. Agrees(r, file', grants)
    BY <1>1, <1>4, <2>1, <2>2 DEF Agrees, HasKey, KeyKept, HasRelay, RelayKept
  <2> QED BY <1>1, <2>1, <2>2, <2>3, ConfiguredGoesOn DEF Starting, Goes
<1>5. CASE PinRelay(p) /\ file.relay = None
  <2> DEFINE r == [run[p] EXCEPT !.stage = "writingRelay"]
  <2>1. Goes(p, r) /\ file' = [file EXCEPT !.relay = Empty] /\ run[p].stage = "pinning"
    BY <1>5 DEF PinRelay, At, Moves
  <2>2. /\ r \in RunRecord /\ r.stage = "writingRelay" /\ r.checked = run[p].checked
        /\ r.settings = run[p].settings /\ r.key = run[p].key /\ r.relay = run[p].relay
    BY <1>1 DEF RunRecord, Stage, Starting
  <2> HIDE DEF r
  <2>3. file'.key = file.key /\ file'.relay = Empty /\ file'.config = file.config
    BY <1>1, <2>1 DEF FileRecord
  <2>4. Agrees(r, file', grants)
    BY <1>1, <2>1, <2>2, <2>3 DEF Agrees, HasKey, KeyKept, HasRelay, RelayKept
  <2> QED BY <1>1, <1>5, <2>1, <2>2, <2>4, ConfiguredGoesOn, ManagedAssumption
     DEF Starting, Goes
<1>6. CASE WriteRelay(p)
  <2> DEFINE r == [run[p] EXCEPT !.stage = "claiming"]
  <2>1. /\ Goes(p, r) /\ file' = [file EXCEPT !.relay = run[p].relay]
        /\ run[p].stage = "writingRelay"
    BY <1>6 DEF WriteRelay, At, Moves
  <2>2. /\ r \in RunRecord /\ r.stage = "claiming" /\ r.checked = run[p].checked
        /\ r.settings = run[p].settings /\ r.key = run[p].key /\ r.relay = run[p].relay
    BY <1>1 DEF RunRecord, Stage, Starting
  <2> HIDE DEF r
  <2>3. file'.key = file.key /\ file'.relay = run[p].relay /\ file'.config = file.config
    BY <1>1, <2>1 DEF FileRecord
  <2>4. file.relay = Empty
    BY <1>1, <2>1 DEF Agrees
  <2>5. Agrees(r, file', grants)
    BY <1>1, <2>1, <2>2, <2>3 DEF Agrees, HasKey, KeyKept, HasRelay, RelayKept
  <2> QED BY <1>1, <2>1, <2>2, <2>4, <2>5, ConfiguredGoesOn, ManagedAssumption
     DEF Starting, Goes
<1> QED BY <1>2, <1>3, <1>4, <1>5, <1>6

\* The run that serves issues grants that are like the earlier ones.
LEMMA IssueKeepsResuming ==
  ASSUME ManagedTypeOK, ResumeInv, NEW p \in Run, Issue(p)
  PROVE  ResumeInv'
<1> DEFINE g == [key |-> run[p].key, relay |-> run[p].relay, settings |-> run[p].settings,
                 checked |-> run[p].checked]
<1>1. /\ run' = run /\ file' = file /\ grants' = grants \cup {g} /\ run[p].stage = "serving"
      /\ control' = control
  BY DEF Issue, Serving
<1>2. /\ file.key = run[p].key /\ run[p].key \in Key
      /\ file.relay = run[p].relay /\ run[p].relay \in Relay
      /\ run[p].checked => file.config = run[p].settings /\ file.config \in Settings
  BY <1>1 DEF ResumeInv, Agrees, HasKey, KeyKept, HasRelay, RelayKept, Configured, Stage
<1>3. /\ g.key = run[p].key /\ g.relay = run[p].relay /\ g.settings = run[p].settings
      /\ g.checked = run[p].checked
  OBVIOUS
<1> HIDE DEF g
<1>4. GrantsAgree(file', grants')
  BY <1>1, <1>2, <1>3 DEF ResumeInv, GrantsAgree
<1>5. ASSUME NEW q \in Run, run[q].stage \in Configured, ~run[q].checked
      PROVE  ~g.checked
  <2>1. run[q].stage \in Starting \cap Configured \/ Serving(q)
    BY <1>5 DEF Configured, Stage, Serving
  <2> QED BY <1>1, <1>3, <1>5, <2>1 DEF ResumeInv, Serving
<1>6. \A q \in Run : Agrees(run'[q], file', grants')
  BY <1>1, <1>5 DEF ResumeInv, Agrees
<1> QED BY <1>1, <1>4, <1>6 DEF ResumeInv, Serving

\* So every step of a run keeps to the files and the grants.
LEMMA RunKeepsResuming ==
  ASSUME ManagedTypeOK, ResumeInv, NEW p \in Run, RunAction(p), ~overlapped'
  PROVE  ResumeInv'
<1>1. CASE Spawn(p) \/ \E settings \in Settings : RunByHand(p, settings)
  <2>1. file' = file /\ grants' = grants
    BY <1>1 DEF Spawn, RunByHand, history
  <2>2. PICK r : Begun(p, r)
    BY <1>1, BeginTyped
  <2> QED BY <2>1, <2>2, BeginKeepsResuming
<1>2. CASE HandleStop(p) \/ StopByHand(p) \/ Die(p)
  BY <1>2, ExitKeepsResuming DEF HandleStop, StopByHand, Die, ElseSame, history
<1> QED BY <1>1, <1>2, ConfigureKeepsResuming, LookKeepsResuming, KeyKeepsResuming,
           RelayKeepsResuming, IssueKeepsResuming DEF RunAction, Proceed

\* A command changes the settings only while nobody has any.
LEMMA CommandKeepsResuming ==
  ASSUME ManagedTypeOK, CommandInv, ResumeInv, NEW o \in Operator, CommandAction(o), ~overlapped'
  PROVE  ResumeInv'
<1>1. ASSUME run' = run, control' = control, grants' = grants,
             file'.key = file.key, file'.relay = file.relay,
             file.config \in Settings => file'.config = file.config
      PROVE  ResumeInv'
  BY <1>1, EndsKeepResuming DEF RunsEnd
<1>2. ASSUME NEW name, NEW settings, Give(o, name, settings)
      PROVE  ResumeInv'
  <2>1. /\ run' = run /\ grants' = grants /\ file' = file
        /\ control' # control => ~Replies
    BY <1>2 DEF Give
  <2>2. control' # control => \A q \in Run : run[q].stage \notin Starting
    BY <1>2, Zenon DEF Give
  <2>3. ASSUME control' # control, NEW q \in Run, control = q
        PROVE  FALSE
    <3>1. run[q].stage \in {"announcing", "serving"} /\ run[q].stage \notin Starting
      BY <2>2, <2>3 DEF ManagedTypeOK
    <3> QED BY <2>1, <2>3, <3>1 DEF Starting, Replies, Serving
  <2>4. RunsEnd
    BY <2>1, <2>3 DEF RunsEnd
  <2> QED BY <2>1, <2>4, EndsKeepResuming
<1>3. CASE SaveConfig(o)
  <2>1. /\ run' = run /\ grants' = grants /\ control' = control
        /\ file' = file \/ (file' = [file EXCEPT !.config = Empty] /\ file.config = None)
    BY <1>3 DEF SaveConfig, history
  <2> QED BY <1>1, <2>1, ManagedAssumption DEF ManagedTypeOK
<1>4. CASE WriteConfig(o)
  <2>1. /\ run' = run /\ grants' = grants /\ file.config = Empty /\ control' = control
        /\ file' = [file EXCEPT !.config = command[o].settings]
    BY <1>4, WriteKeeps DEF WriteConfig, history
  <2> QED BY <1>1, <2>1, ManagedAssumption DEF ManagedTypeOK
<1>5. CASE \/ Define(o) \/ Ask(o) \/ Enable(o) \/ Remove(o) \/ Reload(o) \/ Wait(o)
           \/ ToolFails(o) \/ Abandon(o)
  BY <1>1, <1>5 DEF Define, Ask, Enable, Remove, Reload, Wait, ToolFails, Abandon, history
<1>6. CASE Activate(o) \/ Deactivate(o)
  <2>1. grants' = grants /\ file' = file
    BY <1>6 DEF Activate, Deactivate
  <2>2. RunsEnd
    BY <1>6, ToolEndsRuns
  <2> QED BY <2>1, <2>2, EndsKeepResuming
<1> QED BY <1>2, <1>3, <1>4, <1>5, <1>6 DEF CommandAction, Progress

\* There are no runs and no grants at first.
LEMMA ResumeInitially == ManagedInit => ResumeInv
<1> SUFFICES ASSUME ManagedInit PROVE ResumeInv
  OBVIOUS
<1>1. (\A p \in Run : run[p].stage = "off") /\ grants = {}
  BY IdleIsRun DEF ManagedInit
<1> QED BY <1>1 DEF ResumeInv, Agrees, GrantsAgree, HasKey, KeyKept, HasRelay, RelayKept,
               Configured, Passed, Starting, Serving

\* Once a start has overlapped another one, that has happened.
LEMMA OverlappedStays == overlapped /\ [ManagedNext]_managedVars => overlapped'
<1> SUFFICES ASSUME overlapped, [ManagedNext]_managedVars PROVE overlapped'
  OBVIOUS
<1>1. ASSUME NEW p \in Run, RunAction(p)
      PROVE  overlapped'
  <2>1. CASE Spawn(p) \/ \E settings \in Settings : RunByHand(p, settings)
    <3>1. overlapped' = (overlapped \/ \E q \in Run : run[q].stage \in Starting)
      BY <2>1 DEF Spawn, RunByHand, Begin
    <3> QED BY <3>1, Zenon
  <2>2. CASE Proceed(p) \/ HandleStop(p) \/ StopByHand(p) \/ Die(p)
    BY <2>2 DEF Proceed, Configure, Look, RemoveStale, Identify, CreateKey, WriteKey, Dial,
                PinRelay, WriteRelay, Enter, Announce, HandleStop, StopByHand, Die, ElseSame,
                history
  <2>3. CASE Issue(p)
    BY <2>3 DEF Issue
  <2> QED BY <1>1, <2>1, <2>2, <2>3 DEF RunAction
<1>2. ASSUME NEW o \in Operator, CommandAction(o)
      PROVE  overlapped'
  <2>1. ASSUME NEW name, NEW settings, Give(o, name, settings)
        PROVE  overlapped'
    BY <2>1 DEF Give
  <2>2. CASE Progress(o) \/ ToolFails(o) \/ Abandon(o)
    BY <2>2 DEF Progress, SaveConfig, WriteConfig, Define, Ask, Enable, Activate, Deactivate,
                Remove, Reload, Wait, ToolFails, Abandon, history
  <2> QED BY <1>2, <2>1, <2>2 DEF CommandAction
<1>3. CASE Reboot \/ PortChanges \/ UNCHANGED managedVars
  BY <1>3 DEF Reboot, PortChanges, history, managedVars
<1> QED BY <1>1, <1>2, <1>3 DEF ManagedNext, RunAction, CommandAction

(***************************************************************************)
(* The invariant behind the last theorem, up to the first start that       *)
(* begins while another is under way: such starts read the files before    *)
(* either has written them, and ensure_available and ControlServer::bind   *)
(* do not exclude them.                                                    *)
(***************************************************************************)
THEOREM ResumeInvariantHolds == ManagedSpec => [](overlapped \/ ResumeInv)
<1>1. ASSUME ManagedInv, ResumeInv, [ManagedNext]_managedVars, ~overlapped'
      PROVE  ResumeInv'
  <2>1. CASE \E p \in Run : RunAction(p)
    BY <1>1, <2>1, RunKeepsResuming DEF ManagedInv
  <2>2. CASE \E o \in Operator : CommandAction(o)
    BY <1>1, <2>2, CommandKeepsResuming DEF ManagedInv
  <2>3. CASE Reboot \/ PortChanges
    BY <1>1, <2>3, EndsKeepResuming, RebootKeeps, PortKeeps
       DEF ManagedInv, Reboot, PortChanges, history
  <2>4. CASE UNCHANGED managedVars
    BY <1>1, <2>4, EndsKeepResuming DEF ManagedInv, managedVars, RunsEnd
  <2> QED BY <1>1, <2>1, <2>2, <2>3, <2>4 DEF ManagedNext, RunAction, CommandAction
<1>2. ManagedInv /\ (overlapped \/ ResumeInv) /\ [ManagedNext]_managedVars
        => (overlapped \/ ResumeInv)'
  BY <1>1, OverlappedStays
<1> QED BY <1>2, ManagedInvariantHolds, ResumeInitially, PTL DEF ManagedSpec

(***************************************************************************)
(* The service that answers can resume every grant that was given before   *)
(* it, by whichever run, through kills, stops, installs and reboots, as    *)
(* long as no start has begun while another was under way.                 *)
(***************************************************************************)
THEOREM LaterRunsResume == ManagedSpec => []ResumableUnlessOverlapped
<1>1. ResumeInv => ResumableUnlessOverlapped
  BY DEF ResumeInv, ResumableUnlessOverlapped, GrantsAgree, Agrees, Serving, HasRelay, RelayKept,
         Configured, Stage
<1>2. overlapped => ResumableUnlessOverlapped
  BY DEF ResumableUnlessOverlapped
<1> QED BY <1>1, <1>2, ResumeInvariantHolds, PTL
=============================================================================
