--------------------------- MODULE ServiceControl ---------------------------
(***************************************************************************)
(* One service name, several processes: how run_service                    *)
(* (crates/urspace-host/src/main.rs) claims a name through its control     *)
(* file (ControlServer and clear_stale_control in service.rs), and what    *)
(* that means for the authorization journal the processes share            *)
(* (CapabilityRegistry::open in lib.rs).                                   *)
(*                                                                         *)
(* Processes start at any moment, also while another one is starting: the  *)
(* supervisor restarts a service while a user runs it by hand.  A process  *)
(* here is one run of the program, so it never starts again.  Every file   *)
(* system call is a step of its own.                                       *)
(*                                                                         *)
(* The journal is the sequence of the lines in the file, numbered in the   *)
(* order in which they were acknowledged; lines torn by a crash are the    *)
(* business of CapabilityRegistry.                                         *)
(***************************************************************************)
EXTENDS Naturals, Sequences

CONSTANTS
  Process,
  None,
  MaxLines    \* bound: lines acknowledged in one behaviour

ASSUME ControlAssumption ==
  /\ None \notin [by : Process, written : BOOLEAN]
  /\ MaxLines \in Nat

VARIABLES
  at,         \* at[p]: where process p is
  listening,  \* processes whose control listener is known to others
  control,    \* the control file: who created it, and whether it is written yet
  taken,      \* whether a stranger listens on the port the control file names
  journal,    \* the lines in the journal file
  replayed,   \* replayed[p]: how many lines process p has replayed
  appended,   \* how many lines have been acknowledged
  overlapped  \* history: whether a process has started while another was starting

controlVars == <<at, listening, control, taken, journal, replayed, appended, overlapped>>

(***************************************************************************)
(* checking, removing:  ensure_available, before and after it finds the    *)
(*                      control file stale                                 *)
(* replaying, opening:  replay_registry_journal, open_private_journal      *)
(* claiming, clearing:  bind_at_path does the same check again             *)
(* creating, writing:   write_private_new                                  *)
(* serving:             run_service is in its loop                         *)
(* leaving:             Drop has found its own token in the control file   *)
(* refused:             another process is starting or running             *)
(***************************************************************************)
Starting == {"checking", "removing", "replaying", "opening", "claiming",
             "clearing", "creating", "writing"}
Owning == {"serving", "leaving"}

\* Mutant of Stale: a control file is never taken for a stale one.
NeverStale == [checking |-> "refused", claiming |-> "refused"]

\* Where a start goes on when the name is clear, and when the file is stale.
Cleared == [checking |-> "replaying", removing |-> "replaying",
            claiming |-> "creating", clearing |-> "creating"]
Stale == [checking |-> "removing", claiming |-> "clearing"]

Stage == {"off", "refused", "gone"} \cup Starting \cup Owning

\* A line the program did not write: zeros, where a file was extended.
Zeros == 0

ControlTypeOK ==
  /\ at \in [Process -> Stage]
  /\ listening \in SUBSET Process
  /\ control \in [by : Process, written : BOOLEAN] \cup {None}
  /\ taken \in BOOLEAN
  /\ journal \in Seq(0..MaxLines) /\ Len(journal) <= MaxLines
  /\ replayed \in [Process -> 0..MaxLines]
  /\ appended \in 0..MaxLines
  /\ overlapped \in BOOLEAN

ControlInit ==
  /\ at = [p \in Process |-> "off"]
  /\ listening = {}
  /\ control = None
  /\ taken = FALSE
  /\ journal = <<>>
  /\ replayed = [p \in Process |-> 0]
  /\ appended = 0
  /\ overlapped = FALSE

Goto(p, stage) == at' = [at EXCEPT ![p] = stage]

\* Mutant of Answers: a process that is slow to answer is taken for a dead one.
AnswersNever == control # None /\ ~control.written

\* request_at_path or endpoint_is_listening succeeds: it is enough that somebody
\* accepts a connection on the port in the file.
Answers == control # None /\ control.written /\ (control.by \in listening \/ taken)

-----------------------------------------------------------------------------
(* Start *)

Start(p) ==
  /\ at[p] = "off"
  /\ Goto(p, "checking")
  /\ overlapped' = (overlapped \/ \E q \in Process : at[q] \in Starting)
  /\ UNCHANGED <<listening, control, taken, journal, replayed, appended>>

(***************************************************************************)
(* clear_stale_control, called by ensure_available first and by            *)
(* bind_at_path once the endpoint is online: a file that names a process   *)
(* that answers refuses the start; any other file is stale.                *)
(***************************************************************************)
CheckControl(p) ==
  /\ at[p] \in {"checking", "claiming"}
  /\ Goto(p, IF control = None THEN Cleared[at[p]]
             ELSE IF Answers THEN "refused" ELSE Stale[at[p]])
  /\ UNCHANGED <<listening, control, taken, journal, replayed, appended, overlapped>>

\* remove_file: an error, and the start ends, if there is no file any more
RemoveStale(p) ==
  /\ at[p] \in {"removing", "clearing"}
  /\ Goto(p, IF control = None THEN "refused" ELSE Cleared[at[p]])
  /\ control' = None
  /\ taken' = FALSE
  /\ UNCHANGED <<listening, journal, replayed, appended, overlapped>>

\* Mutant of Replay: the last complete line is not counted.
ReplayMissesLast(p) ==
  /\ at[p] = "replaying"
  /\ replayed' = [replayed EXCEPT ![p] = IF journal = <<>> THEN 0 ELSE Len(journal) - 1]
  /\ Goto(p, "opening")
  /\ UNCHANGED <<listening, control, taken, journal, appended, overlapped>>

Replay(p) ==
  /\ at[p] = "replaying"
  /\ replayed' = [replayed EXCEPT ![p] = Len(journal)]
  /\ Goto(p, "opening")
  /\ UNCHANGED <<listening, control, taken, journal, appended, overlapped>>

\* set_len to what was replayed: cuts a longer file, extends a shorter one
OpenJournal(p) ==
  /\ at[p] = "opening"
  /\ journal' = [n \in 1..replayed[p] |->
                   IF n <= Len(journal) THEN journal[n] ELSE Zeros]
  /\ Goto(p, "claiming")
  /\ UNCHANGED <<listening, control, taken, replayed, appended, overlapped>>

\* The listener is bound; create_new creates the file if there is none.
CreateControl(p) ==
  /\ at[p] = "creating"
  /\ IF control = None
     THEN /\ control' = [by |-> p, written |-> FALSE]
          /\ listening' = listening \cup {p}
          /\ Goto(p, "writing")
     ELSE /\ Goto(p, "refused")
          /\ UNCHANGED <<listening, control>>
  /\ UNCHANGED <<taken, journal, replayed, appended, overlapped>>

\* The file p writes to is the one it created, at the path still or not.
WriteControl(p) ==
  /\ at[p] = "writing"
  /\ control' = IF control # None /\ control.by = p
                THEN [control EXCEPT !.written = TRUE] ELSE control
  /\ Goto(p, "serving")
  /\ UNCHANGED <<listening, taken, journal, replayed, appended, overlapped>>

-----------------------------------------------------------------------------
(* Run and leave *)

\* append_event: the file is open for append
AppendLine(p) ==
  /\ at[p] = "serving"
  /\ appended < MaxLines
  /\ Len(journal) < MaxLines
  /\ appended' = appended + 1
  /\ journal' = Append(journal, appended + 1)
  /\ UNCHANGED <<at, listening, control, taken, replayed, overlapped>>

OwnsFile(p) == control # None /\ control.by = p

\* run_service returns; Drop reads the control file.
Stop(p) ==
  /\ at[p] = "serving"
  /\ Goto(p, IF OwnsFile(p) THEN "leaving" ELSE "gone")
  /\ listening' = IF OwnsFile(p) THEN listening ELSE listening \ {p}
  /\ UNCHANGED <<control, taken, journal, replayed, appended, overlapped>>

\* Drop removes the file and the listener closes.
RemoveOwn(p) ==
  /\ at[p] = "leaving"
  /\ control' = None
  /\ taken' = FALSE
  /\ listening' = listening \ {p}
  /\ Goto(p, "gone")
  /\ UNCHANGED <<journal, replayed, appended, overlapped>>

\* Killed: nothing is cleaned up.
Kill(p) ==
  /\ at[p] \in Starting \cup Owning
  /\ listening' = listening \ {p}
  /\ Goto(p, "gone")
  /\ UNCHANGED <<control, taken, journal, replayed, appended, overlapped>>

(***************************************************************************)
(* The port of a listener that is closed is free: any other program of the *)
(* machine may be given it, keep it for as long as it likes, and let go.   *)
(***************************************************************************)
PortChanges ==
  /\ control # None /\ control.by \notin listening
  /\ taken' = ~taken
  /\ UNCHANGED <<at, listening, control, journal, replayed, appended, overlapped>>

ControlNext ==
  \/ \E p \in Process :
       \/ Start(p) \/ CheckControl(p) \/ RemoveStale(p)
       \/ Replay(p) \/ OpenJournal(p) \/ CreateControl(p) \/ WriteControl(p)
       \/ AppendLine(p) \/ Stop(p) \/ RemoveOwn(p) \/ Kill(p)
  \/ PortChanges

ControlSpec == ControlInit /\ [][ControlNext]_controlVars

-----------------------------------------------------------------------------
(* Properties *)

\* At most one process serves under the name.
OneOwner ==
  \A p, q \in Process : at[p] \in Owning /\ at[q] \in Owning => p = q

(***************************************************************************)
(* "Each authorization change is appended and synced to disk before it     *)
(* takes effect" (docs/cli.md:113): a line that was acknowledged stays in  *)
(* the journal, whoever starts, stops or is killed after it was written,   *)
(* and in the order in which it was written.                               *)
(***************************************************************************)
AcknowledgedLinesSurvive == journal = [n \in 1..appended |-> n]

(***************************************************************************)
(* What "never remove its token file and let a second process claim the    *)
(* name" (clear_stale_control) amounts to.  Two processes serve under one  *)
(* name only if one of them, or one before them, was started while another *)
(* was starting; a kill, a slow answer, a stale file, or any order of      *)
(* starts that come one after the other, never leads there.                *)
(***************************************************************************)
OneOwnerUnlessOverlapped == overlapped \/ OneOwner

(***************************************************************************)
(* AcknowledgedLinesSurvive, as far as it holds: lines are only lost once  *)
(* starts have overlapped, when one of them cuts the journal to a length   *)
(* it replayed before another appended (open_private_journal).             *)
(***************************************************************************)
LinesSurviveUnlessOverlapped == overlapped \/ AcknowledgedLinesSurvive

(***************************************************************************)
(* The control file of a process that listens, or is completing its start, *)
(* is only ever removed by that process, unless starts have overlapped:    *)
(* clear_stale_control takes a file that is not written yet for a stale    *)
(* one.                                                                    *)
(***************************************************************************)
LiveClaimIsKept ==
  [][~overlapped' =>
       \A p \in Process :
         OwnsFile(p) /\ p \in listening /\ at'[p] # "gone" => OwnsFile(p)']_controlVars

(***************************************************************************)
(* A control file left behind locks the name only as long as a stranger    *)
(* has the port it names.  Apart from that a start is refused only while   *)
(* another process is there, or once starts have overlapped, when one may  *)
(* find its file removed or its place taken (clear_stale_control and       *)
(* write_private_new).                                                     *)
(***************************************************************************)
RefusedOnlyByAnother ==
  [][\A p \in Process :
       at[p] # "refused" /\ at'[p] = "refused"
         => \/ \E q \in Process \ {p} : at[q] \in Starting \cup Owning
            \/ taken
            \/ overlapped]_controlVars
=============================================================================
