--------------------------- MODULE ManagedService ---------------------------
(***************************************************************************)
(* A service that the operating system starts: the files it keeps from one *)
(* run to the next (service.json, the identity, relay.txt), the runs of    *)
(* run_service that read and create them, the supervisor (launchd or       *)
(* systemd) with the definition native_service.rs writes for it, and the   *)
(* commands `urspace service install`, start, restart, stop and uninstall  *)
(* (crates/urspace-host/src/main.rs).                                      *)
(*                                                                         *)
(* A file is created first and written next, so a process that is killed   *)
(* in between leaves an Empty one.  A run's grants are resumed only by a   *)
(* host with the same identity, relay and settings (SessionGrantIssuer),   *)
(* so these must be the same in every later run.                           *)
(*                                                                         *)
(* Runs may start while others are starting.  The claim on the name is     *)
(* that of ServiceControl, in fewer steps: a run that ends removes its     *)
(* control file in one, and serves as soon as it has written it.  The      *)
(* authorization journal is left to CapabilityRegistry.  The supervisor    *)
(* is external: it does what the definition asks for.                      *)
(***************************************************************************)
EXTENDS Naturals, Sequences

CONSTANTS
  Run,          \* processes; one is free again when it has ended
  Operator,     \* who give the commands
  Settings,     \* what can be asked for: application, origin, entry path ...
  Key, Relay,   \* the identities and relays a first start may come to
  None,
  Platform,     \* "launchd" or "systemd"
  MaxInputs,    \* bound: commands given and runs started by hand
  MaxFaults     \* bound: kills, failures of tools and runs, and reboots

\* A file that has been created and not written
Empty == "empty"

\* The control file of a run that has gone: nobody listens, or a stranger does.
Left == "left"
Taken == "taken"

ASSUME ManagedAssumption ==
  /\ None \notin Run \cup Settings \cup Key \cup Relay
  /\ Empty \notin {None} \cup Run \cup Settings \cup Key \cup Relay
  /\ {Left, Taken} \cap ({None} \cup Run) = {}
  /\ None \notin {"install", "start", "restart"}
  /\ Platform \in {"launchd", "systemd"}
  /\ {MaxInputs, MaxFaults} \subseteq Nat

VARIABLES
  file,        \* the three files: None, Empty, or what was written
  control,     \* the control file: None, Empty, whose it is, Left or Taken
  definition,  \* whether the plist or unit file is there
  enabled,     \* whether systemd has been asked to start it at login
  job,         \* what the supervisor knows and does
  run,         \* run[p]: where process p is and what it has read
  stopping,    \* runs with a Stop in their control socket
  command,     \* command[o]: the command of operator o and the steps left
  grants,      \* history: the issuers of the grants browsers were given
  wanted,      \* history: the service was started and not stopped since
  down,        \* history: "stopped" or "uninstalled", from the success of
               \* that command to the next start
  overlapped,  \* history: whether a run was started, or a control file removed
               \* by an install, while a run was starting
  inputs, faults  \* counters for the bounds

managedVars == <<file, control, definition, enabled, job, run, stopping, command,
                 grants, wanted, down, overlapped, inputs, faults>>

Idle == [stage |-> "off", managed |-> FALSE, checked |-> FALSE,
         settings |-> None, key |-> None, relay |-> None]
Quiet == [name |-> None, settings |-> None, todo |-> <<>>]

(***************************************************************************)
(* looking, removing:   ensure_available, before and after it finds the    *)
(*                      control file stale                                 *)
(* claiming, clearing:  bind_at_path does the same check again             *)
(* entering, announcing: write_private_new creates the file and writes it  *)
(***************************************************************************)
Starting == {"configuring", "looking", "removing", "identifying", "creatingKey",
             "writingKey", "dialing", "pinning", "writingRelay", "claiming",
             "clearing", "entering", "announcing"}

(***************************************************************************)
(* What a command does, in order.                                          *)
(* asking:    service::request(Stop), whose result is ignored              *)
(* defining:  write_definition        removing:  remove_file               *)
(* waiting:   await_service_ready                                          *)
(* The others run the platform's tool, which for `enable --now` and        *)
(* `disable --now` does two things.                                        *)
(***************************************************************************)
Steps ==
  IF Platform = "systemd"
  THEN [install   |-> <<"saving", "defining", "reloading", "enabling", "activating", "waiting">>,
        start     |-> <<"enabling", "activating", "waiting">>,
        restart   |-> <<"asking", "activating", "waiting">>,
        stop      |-> <<"asking", "deactivating">>,
        uninstall |-> <<"asking", "disabling", "deactivating", "removing", "reloading">>]
  ELSE [install   |-> <<"saving", "defining", "deactivating", "activating", "waiting">>,
        start     |-> <<"activating", "waiting">>,
        restart   |-> <<"asking", "activating", "waiting">>,
        stop      |-> <<"asking", "deactivating">>,
        uninstall |-> <<"asking", "deactivating", "removing", "reloading">>]

Tools == {"enabling", "activating", "disabling", "deactivating"}
         \cup (IF Platform = "systemd" THEN {"reloading"} ELSE {})

ManagedTypeOK ==
  /\ file \in [config : Settings \cup {None, Empty}, key : Key \cup {None, Empty},
               relay : Relay \cup {None, Empty}]
  /\ control \in Run \cup {None, Empty, Left, Taken}
  /\ definition \in BOOLEAN /\ enabled \in BOOLEAN
  /\ job \in [loaded : BOOLEAN, state : {"inactive", "due", "running"},
              by : Run \cup {None}]
  /\ job.state = "running" <=> job.by # None
  /\ run \in [Run -> [stage : {"off", "serving"} \cup Starting, managed : BOOLEAN,
                      checked : BOOLEAN, settings : Settings \cup {None},
                      key : Key \cup {None}, relay : Relay \cup {None}]]
  /\ \A p \in Run : job.by = p => run[p].stage # "off"
  /\ \A p \in Run : control = p => run[p].stage \in {"announcing", "serving"}
  /\ stopping \subseteq {p \in Run : run[p].stage = "serving"}
  /\ wanted \in BOOLEAN
  /\ down \in {"no", "stopped", "uninstalled"}
  /\ overlapped \in BOOLEAN

ManagedInit ==
  /\ file = [config |-> None, key |-> None, relay |-> None]
  /\ control = None
  /\ definition = FALSE /\ enabled = FALSE
  /\ job = [loaded |-> FALSE, state |-> "inactive", by |-> None]
  /\ run = [p \in Run |-> Idle]
  /\ stopping = {}
  /\ command = [o \in Operator |-> Quiet]
  /\ grants = {}
  /\ wanted = FALSE
  /\ down = "no"
  /\ overlapped = FALSE
  /\ inputs = 0 /\ faults = 0

Serving(p) == run[p].stage = "serving"
At(p, stage) == run[p].stage = stage

\* Who gets the requests: the run that the control file names
Replies == control \in Run /\ Serving(control)

Input == inputs < MaxInputs /\ inputs' = inputs + 1 /\ UNCHANGED faults
Fault == faults < MaxFaults /\ faults' = faults + 1 /\ UNCHANGED inputs

counters == <<inputs, faults>>
history == <<grants, wanted, down, overlapped>>
installed == <<definition, enabled>>

\* The control file once the runs P are gone: one that is killed leaves its own.
Leaves(P) ==
  IF control \notin P THEN {control}
  ELSE IF At(control, "announcing") THEN {Empty} ELSE {None, Left}

-----------------------------------------------------------------------------
(* The supervisor, as the definition asks *)

\* Mutant of Exit: the definition does not ask for a restart.
ExitForGood(p, ok) ==
  /\ run' = [run EXCEPT ![p] = Idle]
  /\ stopping' = stopping \ {p}
  /\ job' = IF job.by = p THEN [job EXCEPT !.state = "inactive", !.by = None] ELSE job
  /\ control' \in IF ok /\ control = p THEN {None} ELSE Leaves({p})

\* SuccessfulExit = false, Restart = on-failure
Exit(p, ok) ==
  /\ run' = [run EXCEPT ![p] = Idle]
  /\ stopping' = stopping \ {p}
  /\ job' = IF job.by = p
            THEN [job EXCEPT !.state = IF ok THEN "inactive" ELSE "due", !.by = None]
            ELSE job
  /\ control' \in IF ok /\ control = p THEN {None} ELSE Leaves({p})

Begin(p, managed, settings) ==
  /\ run[p] = Idle
  /\ run' = [run EXCEPT ![p] = [Idle EXCEPT !.stage = "configuring", !.managed = managed,
                                            !.settings = settings]]
  /\ overlapped' = (overlapped \/ \E q \in Run : run[q].stage \in Starting)

Spawn(p) ==
  /\ job.loaded /\ job.state = "due"
  /\ Begin(p, TRUE, None)
  /\ job' = [job EXCEPT !.state = "running", !.by = p]
  /\ UNCHANGED <<file, control, installed, stopping, command, grants, wanted, down, counters>>

\* The run of the job is ended, wherever it is.
EndJob(loaded, state) ==
  /\ job' = [loaded |-> loaded, state |-> state, by |-> None]
  /\ run' = [p \in Run |-> IF p = job.by THEN Idle ELSE run[p]]
  /\ stopping' = stopping \ {job.by}
  /\ control' \in Leaves(Run \cap {job.by})

-----------------------------------------------------------------------------
(* run_managed_service, run_service *)

RunByHand(p, settings) ==
  /\ Input
  /\ Begin(p, FALSE, settings)
  /\ UNCHANGED <<file, control, installed, job, stopping, command, grants, wanted, down>>

\* p goes on as r says, or it returns an error.
Goes(p, r) == run' = [run EXCEPT ![p] = r] /\ UNCHANGED <<job, stopping, control>>
Moves(p, stage) == Goes(p, [run[p] EXCEPT !.stage = stage])
Fails(p) == Exit(p, FALSE) /\ UNCHANGED file
ElseSame == UNCHANGED <<installed, command, history, counters>>

\* Mutant of Configure: only the supervised runs look at the settings.
ConfigureManaged(p) ==
  /\ At(p, "configuring")
  /\ IF run[p].managed /\ file.config \notin Settings
     THEN Fails(p)
     ELSE /\ Goes(p, [run[p] EXCEPT !.stage = "looking", !.checked = file.config # None,
                        !.settings = IF run[p].managed THEN file.config ELSE @])
          /\ UNCHANGED file
  /\ ElseSame

\* A run by hand must use the installed settings, if there are any.
Configure(p) ==
  /\ At(p, "configuring")
  /\ IF \/ file.config = Empty
        \/ file.config = None /\ run[p].managed
        \/ file.config # None /\ ~run[p].managed /\ file.config # run[p].settings
     THEN Fails(p)
     ELSE /\ Goes(p, [run[p] EXCEPT !.stage = "looking", !.checked = file.config # None,
                        !.settings = IF run[p].managed THEN file.config ELSE @])
          /\ UNCHANGED file
  /\ ElseSame

\* clear_stale_control, in ensure_available and again in bind_at_path
Look(p) ==
  /\ At(p, "looking") \/ At(p, "claiming")
  /\ IF Replies \/ control = Taken
     THEN Fails(p)
     ELSE /\ Moves(p, IF At(p, "looking")
                      THEN IF control = None THEN "identifying" ELSE "removing"
                      ELSE IF control = None THEN "entering" ELSE "clearing")
          /\ UNCHANGED file
  /\ ElseSame

\* remove_file: an error if there is none any more
RemoveStale(p) ==
  /\ At(p, "removing") \/ At(p, "clearing")
  /\ IF control = None
     THEN Fails(p)
     ELSE /\ control' = None
          /\ run' = [run EXCEPT ![p].stage =
                       IF At(p, "removing") THEN "identifying" ELSE "entering"]
          /\ UNCHANGED <<file, job, stopping>>
  /\ ElseSame

\* load_or_create_identity
Identify(p) ==
  /\ At(p, "identifying")
  /\ \/ file.key = Empty /\ Fails(p)
     \/ /\ file.key = None
        /\ \E key \in Key : Goes(p, [run[p] EXCEPT !.stage = "creatingKey", !.key = key])
        /\ UNCHANGED file
     \/ /\ file.key \in Key
        /\ Goes(p, [run[p] EXCEPT !.stage = "dialing", !.key = file.key])
        /\ UNCHANGED file
  /\ ElseSame

\* Mutant of CreateKey: the file is created whether it is there or not.
CreateKeyAgain(p) ==
  /\ At(p, "creatingKey")
  /\ file' = [file EXCEPT !.key = Empty]
  /\ Moves(p, "writingKey")
  /\ ElseSame

\* write_private_file: create_new
CreateKey(p) ==
  /\ At(p, "creatingKey")
  /\ IF file.key # None
     THEN Fails(p)
     ELSE /\ file' = [file EXCEPT !.key = Empty]
          /\ Moves(p, "writingKey")
  /\ ElseSame

WriteKey(p) ==
  /\ At(p, "writingKey")
  /\ file' = [file EXCEPT !.key = run[p].key]
  /\ Moves(p, "dialing")
  /\ ElseSame

\* bind_service_endpoint: the pinned relay, or the one Iroh selects
Dial(p) ==
  /\ At(p, "dialing")
  /\ IF file.relay = Empty
     THEN Fails(p)
     ELSE /\ \E relay \in IF file.relay = None THEN Relay ELSE {file.relay} :
               Goes(p, [run[p] EXCEPT !.stage = "pinning", !.relay = relay])
          /\ UNCHANGED file
  /\ ElseSame

\* A file that has appeared since is left as it is, and not read.
PinRelay(p) ==
  /\ At(p, "pinning")
  /\ IF file.relay # None
     THEN /\ Moves(p, "claiming")
          /\ UNCHANGED file
     ELSE /\ file' = [file EXCEPT !.relay = Empty]
          /\ Moves(p, "writingRelay")
  /\ ElseSame

WriteRelay(p) ==
  /\ At(p, "writingRelay")
  /\ file' = [file EXCEPT !.relay = run[p].relay]
  /\ Moves(p, "claiming")
  /\ ElseSame

\* The listener is bound; create_new creates the control file if there is none.
Enter(p) ==
  /\ At(p, "entering")
  /\ IF control # None
     THEN Fails(p)
     ELSE /\ control' = p
          /\ run' = [run EXCEPT ![p].stage = "announcing"]
          /\ UNCHANGED <<file, job, stopping>>
  /\ ElseSame

\* The file p writes to is the one it created, at the path still or not.
Announce(p) ==
  /\ At(p, "announcing")
  /\ Moves(p, "serving")
  /\ UNCHANGED file
  /\ ElseSame

\* A browser is admitted or resumed, and is given a grant of this issuer.
Issue(p) ==
  /\ Serving(p)
  /\ grants' = grants \cup {[key |-> run[p].key, relay |-> run[p].relay,
                             settings |-> run[p].settings, checked |-> run[p].checked]}
  /\ UNCHANGED <<file, control, installed, job, run, stopping, command, wanted, down,
                 overlapped, counters>>

\* The loop gets to the Stop in its socket.
HandleStop(p) ==
  /\ p \in stopping
  /\ Exit(p, TRUE)
  /\ UNCHANGED file
  /\ ElseSame

\* Ctrl+C
StopByHand(p) ==
  /\ Serving(p) /\ ~run[p].managed
  /\ Exit(p, TRUE)
  /\ UNCHANGED file
  /\ ElseSame

\* The application or the relay does not answer, a shutdown fails, or a kill.
Die(p) ==
  /\ run[p] # Idle
  /\ Fault
  /\ Exit(p, FALSE)
  /\ UNCHANGED <<file, installed, command, history>>

-----------------------------------------------------------------------------
(* The commands *)

Has(o, step) == command[o].todo # <<>> /\ Head(command[o].todo) = step
Advance(o) == command' = [command EXCEPT ![o].todo = Tail(@)]
End(o) == command' = [command EXCEPT ![o] = Quiet]

Starts == {"install", "start", "restart"}

\* install begins with ensure_available: its check, and its removal of a file
\* that is stale, are one step here, as they are two in a run.
Give(o, name, settings) ==
  /\ command[o].todo = <<>>
  /\ Input
  /\ name = "install" => ~Replies /\ control # Taken
  /\ name \in {"start", "uninstall"} => definition
  /\ command' = [command EXCEPT ![o] =
       [name |-> name, settings |-> settings,
        todo |-> IF name = "stop" /\ ~definition THEN <<"asking">> ELSE Steps[name]]]
  /\ down' = IF name \in Starts THEN "no" ELSE down
  /\ control' = IF name = "install" THEN None ELSE control
  /\ overlapped' = (overlapped
       \/ (control' # control /\ \E q \in Run : run[q].stage \in Starting))
  /\ UNCHANGED <<file, installed, job, run, stopping, grants, wanted>>

\* Mutant of SaveConfig: the settings of the latest install are kept.
SaveConfigAgain(o) ==
  /\ Has(o, "saving")
  /\ file' = [file EXCEPT !.config = Empty]
  /\ command' = [command EXCEPT ![o].todo = <<"writing">> \o Tail(@)]
  /\ UNCHANGED <<control, installed, job, run, stopping, history, counters>>

\* save_managed_config_at: other settings are an error.
SaveConfig(o) ==
  /\ Has(o, "saving")
  /\ IF file.config = None
     THEN /\ file' = [file EXCEPT !.config = Empty]
          /\ command' = [command EXCEPT ![o].todo = <<"writing">> \o Tail(@)]
     ELSE /\ IF file.config = command[o].settings THEN Advance(o) ELSE End(o)
          /\ UNCHANGED file
  /\ UNCHANGED <<control, installed, job, run, stopping, history, counters>>

WriteConfig(o) ==
  /\ Has(o, "writing")
  /\ file' = [file EXCEPT !.config = command[o].settings]
  /\ Advance(o)
  /\ UNCHANGED <<control, installed, job, run, stopping, history, counters>>

\* write_definition: a temporary file that is renamed
Define(o) ==
  /\ Has(o, "defining")
  /\ definition' = TRUE
  /\ Advance(o)
  /\ UNCHANGED <<file, control, enabled, job, run, stopping, history, counters>>

\* The service that answers gets a Stop, whether it was waited for or not.
Ask(o) ==
  /\ Has(o, "asking")
  /\ stopping' = stopping \cup {p \in Run : Serving(p) /\ control = p}
  /\ wanted' = FALSE
  /\ Advance(o)
  /\ UNCHANGED <<file, control, installed, job, run, grants, down, overlapped, counters>>

\* `systemctl enable`, and its counterpart; either needs the unit file.
Enable(o) ==
  /\ Has(o, "enabling") \/ Has(o, "disabling")
  /\ IF definition THEN enabled' = Has(o, "enabling") /\ Advance(o)
                   ELSE End(o) /\ UNCHANGED enabled
  /\ UNCHANGED <<file, control, definition, job, run, stopping, history, counters>>

(***************************************************************************)
(* native_service::install, start and restart come to start the job.       *)
(* launchd takes no definition twice, and otherwise kicks the job it has.  *)
(***************************************************************************)
Activate(o) ==
  /\ Has(o, "activating")
  /\ IF ~definition \/ (Platform = "launchd" /\ command[o].name = "install" /\ job.loaded)
     THEN End(o) /\ UNCHANGED <<control, job, run, stopping, wanted>>
     ELSE /\ IF command[o].name = "start" /\ job.loaded /\ job.state # "inactive"
             THEN UNCHANGED <<control, job, run, stopping>>
             ELSE EndJob(TRUE, "due")
          /\ wanted' = (job'.by \notin stopping')
          /\ Advance(o)
  /\ UNCHANGED <<file, installed, grants, down, overlapped, counters>>

AloneWith(o) == \A other \in Operator \ {o} : command[other].name \notin Starts

\* require_definition: not asked for before launchd's bootout in install, and
\* long before the second half of `disable --now`
Unneeded == {<<"install", "launchd">>, <<"uninstall", "systemd">>}

\* Mutant of Deactivate: nothing is left to do when the service has stopped.
DeactivateRunning(o) ==
  /\ Has(o, "deactivating")
  /\ wanted' = FALSE
  /\ down' = IF command[o].name = "stop" /\ AloneWith(o) THEN "stopped" ELSE down
  /\ Advance(o)
  /\ UNCHANGED <<file, control, installed, job, run, stopping, grants, overlapped, counters>>

\* launchd's bootout; systemd's stop, also as the second half of `disable --now`
Deactivate(o) ==
  /\ Has(o, "deactivating")
  /\ IF definition \/ <<command[o].name, Platform>> \in Unneeded
     THEN /\ EndJob(job.loaded /\ Platform = "systemd", "inactive")
          /\ wanted' = FALSE
          /\ down' = IF command[o].name = "stop" /\ AloneWith(o) THEN "stopped" ELSE down
          /\ Advance(o)
     ELSE End(o) /\ UNCHANGED <<control, job, run, stopping, wanted, down>>
  /\ UNCHANGED <<file, installed, grants, overlapped, counters>>

\* The result of `systemctl disable --now` is ignored, any other one is not.
ToolFails(o) ==
  /\ \E tool \in Tools : Has(o, tool)
  /\ Fault
  /\ IF Platform = "systemd" /\ (Has(o, "disabling") \/ Has(o, "deactivating"))
                            /\ command[o].name = "uninstall"
     THEN command' = [command EXCEPT ![o].todo = <<"removing", "reloading">>]
     ELSE End(o)
  /\ UNCHANGED <<file, control, installed, job, run, stopping, history>>

Remove(o) ==
  /\ Has(o, "removing")
  /\ definition' = FALSE
  /\ IF definition THEN Advance(o) ELSE End(o)
  /\ UNCHANGED <<file, control, enabled, job, run, stopping, history, counters>>

\* systemd reads its units again; launchd has forgotten the job already.
Reload(o) ==
  /\ Has(o, "reloading")
  /\ job' = [job EXCEPT !.loaded = @ /\ definition]
  /\ IF command[o].name = "uninstall"
     THEN /\ down' = IF AloneWith(o) /\ ~definition THEN "uninstalled" ELSE down
          /\ wanted' = FALSE
          /\ End(o)
     ELSE Advance(o) /\ UNCHANGED <<down, wanted>>
  /\ UNCHANGED <<file, control, installed, run, stopping, grants, overlapped, counters>>

\* await_service_ready: 45 seconds, and any service of that name will do
Wait(o) ==
  /\ Has(o, "waiting")
  /\ End(o)
  /\ UNCHANGED <<file, control, installed, job, run, stopping, history, counters>>

\* Ctrl+C
Abandon(o) ==
  /\ command[o].todo # <<>>
  /\ End(o)
  /\ UNCHANGED <<file, control, installed, job, run, stopping, history, counters>>

\* Power is lost, or the user logs out and in again.
Reboot ==
  LET starts == definition /\ (enabled \/ Platform = "launchd")
  IN /\ Fault
     /\ run' = [p \in Run |-> Idle]
     /\ control' \in Leaves(Run)
     /\ stopping' = {}
     /\ command' = [o \in Operator |-> Quiet]
     /\ job' = [loaded |-> definition, state |-> IF starts THEN "due" ELSE "inactive",
                by |-> None]
     /\ wanted' = starts
     /\ down' = IF down = "stopped" THEN "no" ELSE down
     /\ UNCHANGED <<file, installed, grants, overlapped>>

\* Any program may be given the port of a run that is gone, and let it go again.
PortChanges ==
  /\ control \in {Left, Taken}
  /\ control' = IF control = Left THEN Taken ELSE Left
  /\ UNCHANGED <<file, installed, job, run, stopping, command, history, counters>>

Proceed(p) ==
  \/ Configure(p) \/ Look(p) \/ RemoveStale(p) \/ Identify(p) \/ CreateKey(p) \/ WriteKey(p)
  \/ Dial(p) \/ PinRelay(p) \/ WriteRelay(p) \/ Enter(p) \/ Announce(p)

Progress(o) ==
  \/ SaveConfig(o) \/ WriteConfig(o) \/ Define(o) \/ Ask(o) \/ Enable(o) \/ Activate(o)
  \/ Deactivate(o) \/ Remove(o) \/ Reload(o) \/ Wait(o)

ManagedNext ==
  \/ \E p \in Run :
       \/ Spawn(p) \/ Proceed(p) \/ Issue(p)
       \/ HandleStop(p) \/ StopByHand(p) \/ Die(p)
       \/ \E settings \in Settings : RunByHand(p, settings)
  \/ \E o \in Operator :
       \/ \E settings \in Settings : Give(o, "install", settings)
       \/ \E name \in DOMAIN Steps \ {"install"} : Give(o, name, None)
       \/ Progress(o) \/ ToolFails(o) \/ Abandon(o)
  \/ Reboot \/ PortChanges

(***************************************************************************)
(* Runs that start come to an end of it, because every wait in them is     *)
(* limited; the supervisor does its work; commands that are given are not  *)
(* suspended.                                                              *)
(***************************************************************************)
ManagedFairness ==
  /\ \A p \in Run : WF_managedVars(Proceed(p)) /\ WF_managedVars(HandleStop(p))
  /\ WF_managedVars(\E p \in Run : Spawn(p))
  /\ \A o \in Operator : WF_managedVars(Progress(o))

ManagedSpec == ManagedInit /\ [][ManagedNext]_managedVars /\ ManagedFairness

-----------------------------------------------------------------------------
(* Properties *)

(***************************************************************************)
(* "service ... must use its installed settings to preserve existing       *)
(* browser access" (run_service), and "the selected relay [is] pinned"     *)
(* (docs/cli.md): whatever was installed, stopped, killed or started by    *)
(* hand before, the service that answers can resume the grants that were   *)
(* given before it, and it uses the installed settings once they have been *)
(* used, unless a run was started, or an install given, while another run  *)
(* was starting: two first starts may each select a relay and pin one.     *)
(***************************************************************************)
ResumableUnlessOverlapped ==
  ~overlapped =>
    \A p \in Run, g \in grants :
      Serving(p) => /\ g.relay = run[p].relay
                    /\ g.checked => g.settings = run[p].settings

(***************************************************************************)
(* Every service that answers has the identity of the ones before it, also *)
(* when any number of them were started at once (load_or_create_identity). *)
(***************************************************************************)
IdentityStays == \A p \in Run, g \in grants : Serving(p) => g.key = run[p].key

(***************************************************************************)
(* "`service stop` leaves the service installed, while `service uninstall` *)
(* removes automatic startup" (docs/cli.md:162): once either has           *)
(* succeeded, the supervisor starts nothing, even when the run it had      *)
(* ended badly, until the next start, and for the first the next login.    *)
(***************************************************************************)
StaysDown ==
  [][down # "no" /\ down' # "no" => ~(job.by = None /\ job'.by # None)]_managedVars

(***************************************************************************)
(* The definition is only ever there with the settings it starts: an       *)
(* install that fails or is killed at any step leaves nothing that the     *)
(* next login would start in vain.                                         *)
(***************************************************************************)
DefinedIsConfigured == definition => file.config \in Settings

(***************************************************************************)
(* "The site returns after failures" (README.md): a service that was       *)
(* started, or is there at login, comes to serve after any number of       *)
(* kills, failing starts and reboots, unless an operator asks for a stop,  *)
(* or a kill between the creation of a file and the writing of it left     *)
(* one that no later start can read, or a stranger has the port of the     *)
(* control file of the last run.                                           *)
(***************************************************************************)
Torn == Empty \in {file.key, file.relay}
        /\ \A p \in Run : run[p].stage \notin {"writingKey", "writingRelay"}

SiteReturns ==
  wanted ~> ((\E p \in Run : Serving(p)) \/ Torn \/ ~wanted \/ control = Taken)
=============================================================================
