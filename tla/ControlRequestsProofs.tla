------------------------ MODULE ControlRequestsProofs -----------------------
(***************************************************************************)
(* Proofs about ServiceControl and ControlRequests, for any number of      *)
(* processes, operators and lines.                                         *)
(*                                                                         *)
(* Until a process has started while another was starting, one process     *)
(* serves under a name, its control file stays, the journal keeps what was *)
(* acknowledged, and a file left behind refuses a start only while a       *)
(* stranger has its port.  With its requests, a named service is still     *)
(* that service, and the commands of an operator are not reordered.        *)
(***************************************************************************)
EXTENDS ControlRequests, SequenceTheorems, TLAPS

-----------------------------------------------------------------------------
(* The service name: the inductive invariant *)

\* A process past its first check; nobody serves while there is one.
Claiming == Starting \ {"checking"}

\* Who listens, and whose file it is.
ClaimsAreOwn ==
  /\ \A p \in Process : at[p] \in Owning => OwnsFile(p) /\ control.written /\ p \in listening
  /\ \A p \in Process : at[p] = "writing" => OwnsFile(p) /\ p \in listening
  /\ \A p \in listening : at[p] = "writing" \/ at[p] \in Owning

\* Nothing a start has found out is stale when it is used.
StartsAreAlone ==
  /\ \A p, q \in Process : at[p] \in Starting /\ at[q] \in Starting => p = q
  /\ \A p, q \in Process : at[p] \in Claiming => at[q] \notin Owning
  /\ \A p \in Process : at[p] \in {"removing", "clearing"} => control # None
  /\ \A p \in Process : at[p] = "creating" => control = None
  /\ \A p \in Process : at[p] = "opening" => replayed[p] = appended

\* What holds until starts overlap
Orderly == ClaimsAreOwn /\ StartsAreAlone /\ AcknowledgedLinesSurvive

\* What holds whoever starts when: only a process with a claim listens.
ListenersHoldOn == \A p \in listening : at[p] = "writing" \/ at[p] \in Owning

ControlInvariant ==
  /\ ControlTypeOK
  /\ ListenersHoldOn
  /\ ~overlapped => Orderly

\* Every process starts off; nothing is there.
LEMMA ControlInitially ==
  ASSUME ControlInit
  PROVE  ControlInvariant
<1>1. ControlTypeOK
  <2>1. <<>> \in Seq(0..MaxLines) /\ Len(<<>>) <= MaxLines /\ 0 \in 0..MaxLines
    BY ControlAssumption
  <2> QED BY <2>1 DEF ControlInit, ControlTypeOK, Stage, Starting, Owning
<1>2. ClaimsAreOwn /\ StartsAreAlone
  BY DEF ControlInit, ClaimsAreOwn, StartsAreAlone, Starting, Claiming, Owning
<1>3. AcknowledgedLinesSurvive
  BY DEF ControlInit, AcknowledgedLinesSurvive
<1>4. ListenersHoldOn
  BY DEF ControlInit, ListenersHoldOn
<1> QED BY <1>1, <1>2, <1>3, <1>4 DEF ControlInvariant, Orderly

-----------------------------------------------------------------------------
(* The service name: steps *)

\* Where starts have not overlapped after a step, they had not before it, and
\* a process that starts is the only one that is starting.
LEMMA OverlapStays ==
  ASSUME ControlInvariant, [ControlNext]_controlVars, ~overlapped'
  PROVE  /\ ~overlapped
         /\ ControlTypeOK /\ ClaimsAreOwn /\ StartsAreAlone /\ AcknowledgedLinesSurvive
         /\ \A p \in Process : Start(p) => \A q \in Process : at[q] \notin Starting
<1>1. ~overlapped
  BY DEF ControlNext, controlVars, Start, CheckControl, RemoveStale, Replay, OpenJournal,
         CreateControl, WriteControl, AppendLine, Stop, RemoveOwn, Kill, PortChanges
<1>2. \A p \in Process : Start(p) => \A q \in Process : at[q] \notin Starting
  BY DEF Start
<1> QED BY <1>1, <1>2 DEF ControlInvariant, Orderly

\* The acknowledged lines are a sequence, as long as there are lines.
LEMMA LinesAreSequence ==
  ASSUME NEW count \in 0..MaxLines
  PROVE  /\ [n \in 1..count |-> n] \in Seq(0..MaxLines)
         /\ Len([n \in 1..count |-> n]) = count
         /\ count < MaxLines =>
              Append([n \in 1..count |-> n], count + 1) = [n \in 1..(count + 1) |-> n]
BY ControlAssumption

\* What a start replayed is what the journal holds when it opens it.
LEMMA OpenKeepsLines ==
  ASSUME ControlInvariant, ~overlapped, NEW p \in Process, OpenJournal(p)
  PROVE  journal' = journal
<1>1. replayed[p] = appended /\ appended \in 0..MaxLines
  BY DEF ControlInvariant, Orderly, StartsAreAlone, ControlTypeOK, OpenJournal
<1>2. journal = [n \in 1..appended |-> n] /\ Len(journal) = appended
  BY <1>1, LinesAreSequence DEF ControlInvariant, Orderly, AcknowledgedLinesSurvive
<1>3. \A n \in 1..appended : n <= Len(journal) /\ journal[n] = n
  BY <1>1, <1>2, ControlAssumption
<1> QED BY <1>1, <1>2, <1>3 DEF OpenJournal

\* Acknowledged lines survive a step.
LEMMA LinesStep ==
  ASSUME ControlInvariant, [ControlNext]_controlVars, ~overlapped'
  PROVE  AcknowledgedLinesSurvive'
<1>0. ~overlapped /\ journal = [n \in 1..appended |-> n] /\ appended \in 0..MaxLines
  BY OverlapStays DEF AcknowledgedLinesSurvive, ControlTypeOK
<1>1. ASSUME NEW p \in Process, OpenJournal(p)
      PROVE  AcknowledgedLinesSurvive'
  BY <1>0, <1>1, OpenKeepsLines DEF OpenJournal, AcknowledgedLinesSurvive
<1>2. ASSUME NEW p \in Process, AppendLine(p)
      PROVE  AcknowledgedLinesSurvive'
  BY <1>0, <1>2, LinesAreSequence DEF AppendLine, AcknowledgedLinesSurvive
<1>3. CASE UNCHANGED <<journal, appended>>
  BY <1>0, <1>3 DEF AcknowledgedLinesSurvive
<1> QED
  BY <1>1, <1>2, <1>3
     DEF ControlNext, controlVars, Start, CheckControl, RemoveStale, Replay, CreateControl,
         WriteControl, Stop, RemoveOwn, Kill, PortChanges

\* The next stages of a start, which are stages.
LEMMA GoesOn ==
  /\ Cleared["checking"] = "replaying" /\ Cleared["removing"] = "replaying"
  /\ Cleared["claiming"] = "creating" /\ Cleared["clearing"] = "creating"
  /\ Stale["checking"] = "removing" /\ Stale["claiming"] = "clearing"
  /\ \A stage \in {"checking", "removing", "claiming", "clearing"} : Cleared[stage] \in Starting
  /\ \A stage \in {"checking", "claiming"} : Stale[stage] \in Starting
BY DEF Cleared, Stale, Starting

\* Type correctness is kept.
LEMMA TypeStep ==
  ASSUME ControlInvariant, [ControlNext]_controlVars
  PROVE  ControlTypeOK'
<1> USE DEF ControlTypeOK, Stage, Starting, Owning, Goto
<1>0. ControlTypeOK
  BY DEF ControlInvariant
<1>1. /\ appended' \in 0..MaxLines
      /\ journal' \in Seq(0..MaxLines) /\ Len(journal') <= MaxLines
      /\ overlapped' \in BOOLEAN /\ taken' \in BOOLEAN
  <2>1. appended' \in 0..MaxLines
    BY <1>0, ControlAssumption
       DEF ControlNext, controlVars, Start, CheckControl, RemoveStale, Replay, OpenJournal,
           CreateControl, WriteControl, AppendLine, Stop, RemoveOwn, Kill, PortChanges
  <2>2. overlapped' \in BOOLEAN /\ taken' \in BOOLEAN
    BY <1>0
       DEF ControlNext, controlVars, Start, CheckControl, RemoveStale, Replay, OpenJournal,
           CreateControl, WriteControl, AppendLine, Stop, RemoveOwn, Kill, PortChanges
  <2>3. ASSUME NEW p \in Process, OpenJournal(p)
        PROVE  journal' \in Seq(0..MaxLines) /\ Len(journal') <= MaxLines
    <3>1. replayed[p] \in 0..MaxLines
      BY <1>0
    <3>2. \A n \in 1..Len(journal) : journal[n] \in 0..MaxLines
      <4>1. journal \in Seq(0..MaxLines)
        BY <1>0
      <4> QED BY <4>1, ElementOfSeq
    <3>3. \A n \in 1..replayed[p] :
            (IF n <= Len(journal) THEN journal[n] ELSE Zeros) \in 0..MaxLines
      BY <1>0, <3>1, <3>2, ControlAssumption DEF Zeros
    <3>4. journal' = [n \in 1..replayed[p] |-> IF n <= Len(journal) THEN journal[n] ELSE Zeros]
      BY <2>3 DEF OpenJournal
    <3> QED BY <3>1, <3>3, <3>4, ControlAssumption
  <2>4. ASSUME NEW p \in Process, AppendLine(p)
        PROVE  journal' \in Seq(0..MaxLines) /\ Len(journal') <= MaxLines
    <3>1. appended + 1 \in 0..MaxLines /\ Len(journal) + 1 <= MaxLines
      BY <1>0, <2>4, ControlAssumption DEF AppendLine
    <3>2. journal' = Append(journal, appended + 1)
      BY <2>4 DEF AppendLine
    <3>3. journal \in Seq(0..MaxLines)
      BY <1>0
    <3> QED BY <3>1, <3>2, <3>3, AppendProperties
  <2>5. CASE UNCHANGED journal
    BY <1>0, <2>1, <2>2, <2>5
  <2> QED
    BY <2>1, <2>2, <2>3, <2>4, <2>5
       DEF ControlNext, controlVars, Start, CheckControl, RemoveStale, Replay,
           CreateControl, WriteControl, Stop, RemoveOwn, Kill, PortChanges
<1>2. Len(journal) \in 0..MaxLines
  BY <1>0
<1>3. ASSUME NEW p \in Process, Start(p) \/ CheckControl(p) \/ RemoveStale(p)
      PROVE  ControlTypeOK'
  <2>1. \E stage \in Stage : at' = [at EXCEPT ![p] = stage]
    BY <1>3, GoesOn DEF Start, CheckControl, RemoveStale
  <2>2. at' \in [Process -> Stage]
    BY <1>0, <2>1
  <2>3. control' \in {control, None} /\ UNCHANGED <<listening, replayed>>
    BY <1>3 DEF Start, CheckControl, RemoveStale
  <2> QED BY <1>0, <1>1, <2>2, <2>3
<1>4. ASSUME NEW p \in Process, Replay(p) \/ OpenJournal(p) \/ AppendLine(p)
      PROVE  ControlTypeOK'
  <2>1. replayed' \in [Process -> 0..MaxLines]
    BY <1>0, <1>2, <1>4 DEF Replay, OpenJournal, AppendLine
  <2>2. at' \in [Process -> Stage] /\ UNCHANGED <<listening, control>>
    BY <1>0, <1>4 DEF Replay, OpenJournal, AppendLine
  <2> QED BY <1>0, <1>1, <2>1, <2>2
<1>5. ASSUME NEW p \in Process, CreateControl(p) \/ WriteControl(p)
      PROVE  ControlTypeOK'
  <2>1. control' \in [by : Process, written : BOOLEAN] \cup {None}
    <3>1. CASE CreateControl(p)
      <4>1. control' \in {control, [by |-> p, written |-> FALSE]}
        BY <3>1 DEF CreateControl
      <4>2. [by |-> p, written |-> FALSE] \in [by : Process, written : BOOLEAN]
        OBVIOUS
      <4> QED BY <1>0, <4>1, <4>2
    <3>2. CASE WriteControl(p)
      <4>1. CASE control # None /\ control.by = p
        <5>1. control \in [by : Process, written : BOOLEAN]
          BY <1>0, <4>1
        <5>2. control' = [control EXCEPT !.written = TRUE]
          BY <3>2, <4>1 DEF WriteControl
        <5> QED BY <5>1, <5>2
      <4>2. CASE ~(control # None /\ control.by = p)
        BY <1>0, <3>2, <4>2 DEF WriteControl
      <4> QED BY <4>1, <4>2
    <3> QED BY <1>5, <3>1, <3>2
  <2> QED BY <1>0, <1>1, <1>5, <2>1 DEF CreateControl, WriteControl
<1>6. ASSUME NEW p \in Process, Stop(p) \/ RemoveOwn(p) \/ Kill(p)
      PROVE  ControlTypeOK'
  BY <1>0, <1>1, <1>6 DEF Stop, RemoveOwn, Kill
<1>7. CASE UNCHANGED controlVars \/ PortChanges
  BY <1>0, <1>1, <1>7 DEF controlVars, PortChanges
<1> QED BY <1>3, <1>4, <1>5, <1>6, <1>7 DEF ControlNext

\* Who listens after a step has a claim after it.
LEMMA ListenersStep ==
  ASSUME ControlInvariant, [ControlNext]_controlVars
  PROVE  ListenersHoldOn'
<1> USE DEF ListenersHoldOn, Owning, Goto, Stage, ControlTypeOK
<1>0. ControlTypeOK /\ ListenersHoldOn
  BY DEF ControlInvariant
<1>1. ASSUME NEW p \in Process, Start(p) \/ CheckControl(p) \/ RemoveStale(p)
      PROVE  ListenersHoldOn'
  <2>1. at[p] # "writing" /\ at[p] \notin Owning /\ UNCHANGED listening
    BY <1>1 DEF Start, CheckControl, RemoveStale
  <2>2. \A q \in Process \ {p} : at'[q] = at[q]
    BY <1>0, <1>1 DEF Start, CheckControl, RemoveStale
  <2> QED BY <1>0, <2>1, <2>2
<1>2. ASSUME NEW p \in Process, Replay(p) \/ OpenJournal(p) \/ AppendLine(p)
      PROVE  ListenersHoldOn'
  BY <1>0, <1>2 DEF Replay, OpenJournal, AppendLine
<1>3. ASSUME NEW p \in Process, CreateControl(p) \/ WriteControl(p)
      PROVE  ListenersHoldOn'
  BY <1>0, <1>3 DEF CreateControl, WriteControl
<1>4. ASSUME NEW p \in Process, Stop(p) \/ RemoveOwn(p) \/ Kill(p)
      PROVE  ListenersHoldOn'
  BY <1>0, <1>4 DEF Stop, RemoveOwn, Kill
<1>5. CASE UNCHANGED controlVars \/ PortChanges
  BY <1>0, <1>5 DEF controlVars, PortChanges
<1> QED BY <1>1, <1>2, <1>3, <1>4, <1>5 DEF ControlNext

\* A claim is only given up by the process that has it.
LEMMA ClaimsStep ==
  ASSUME ControlInvariant, [ControlNext]_controlVars, ~overlapped'
  PROVE  ClaimsAreOwn'
<1> USE DEF ClaimsAreOwn, OwnsFile, Starting, Claiming, Owning, Goto, Stage
<1>0. ControlTypeOK /\ ClaimsAreOwn /\ StartsAreAlone
  BY OverlapStays
<1>1. ASSUME NEW p \in Process, Start(p)
      PROVE  ClaimsAreOwn'
  BY <1>0, <1>1 DEF Start, ControlTypeOK
<1>2. ASSUME NEW p \in Process, CheckControl(p)
      PROVE  ClaimsAreOwn'
  BY <1>0, <1>2 DEF CheckControl, Cleared, Stale, ControlTypeOK
<1>3. ASSUME NEW p \in Process, RemoveStale(p)
      PROVE  ClaimsAreOwn'
  BY <1>0, <1>3 DEF RemoveStale, Cleared, ControlTypeOK, StartsAreAlone
<1>4. ASSUME NEW p \in Process, Replay(p) \/ OpenJournal(p) \/ AppendLine(p)
      PROVE  ClaimsAreOwn'
  BY <1>0, <1>4 DEF Replay, OpenJournal, AppendLine, ControlTypeOK
<1>5. ASSUME NEW p \in Process, CreateControl(p)
      PROVE  ClaimsAreOwn'
  <2>1. control = None /\ \A q \in Process : at[q] \notin Owning
    BY <1>0, <1>5 DEF CreateControl, StartsAreAlone
  <2>2. control' = [by |-> p, written |-> FALSE] /\ control' # None
    <3>1. control' = [by |-> p, written |-> FALSE]
      BY <1>5, <2>1 DEF CreateControl
    <3>2. control' \in [by : Process, written : BOOLEAN]
      BY <3>1
    <3> QED BY <3>1, <3>2, ControlAssumption
  <2>3. at' = [at EXCEPT ![p] = "writing"] /\ listening' = listening \cup {p}
    BY <1>5, <2>1 DEF CreateControl
  <2>4. \A q \in Process \ {p} : at[q] # "writing"
    BY <1>0, <1>5 DEF CreateControl, StartsAreAlone
  <2> QED BY <1>0, <2>1, <2>2, <2>3, <2>4 DEF ControlTypeOK
<1>6. ASSUME NEW p \in Process, WriteControl(p)
      PROVE  ClaimsAreOwn'
  <2>1. control # None /\ control.by = p /\ p \in listening
    BY <1>0, <1>6 DEF WriteControl
  <2>2. control' = [control EXCEPT !.written = TRUE]
    BY <1>6, <2>1 DEF WriteControl
  <2>3. control \in [by : Process, written : BOOLEAN]
    BY <1>0, <2>1 DEF ControlTypeOK
  <2>4. control'.by = p /\ control'.written /\ control' # None
    BY <2>1, <2>2, <2>3, ControlAssumption
  <2>5. at' = [at EXCEPT ![p] = "serving"] /\ listening' = listening
    BY <1>6 DEF WriteControl
  <2>6. \A q \in Process \ {p} : at[q] # "writing" /\ at[q] \notin Owning
    BY <1>0, <1>6 DEF WriteControl, StartsAreAlone
  <2> QED BY <1>0, <2>1, <2>4, <2>5, <2>6 DEF ControlTypeOK
<1>7. ASSUME NEW p \in Process, Stop(p)
      PROVE  ClaimsAreOwn'
  BY <1>0, <1>7 DEF Stop, ControlTypeOK
<1>8. ASSUME NEW p \in Process, RemoveOwn(p)
      PROVE  ClaimsAreOwn'
  BY <1>0, <1>8 DEF RemoveOwn, ControlTypeOK, StartsAreAlone
<1>9. ASSUME NEW p \in Process, Kill(p)
      PROVE  ClaimsAreOwn'
  BY <1>0, <1>9 DEF Kill, ControlTypeOK
<1>10. CASE UNCHANGED controlVars \/ PortChanges
  BY <1>0, <1>10 DEF controlVars, PortChanges
<1> QED BY <1>1, <1>2, <1>3, <1>4, <1>5, <1>6, <1>7, <1>8, <1>9, <1>10 DEF ControlNext

\* Until starts overlap, what a start has found out stays true.
LEMMA AloneStep ==
  ASSUME ControlInvariant, [ControlNext]_controlVars, ~overlapped'
  PROVE  StartsAreAlone'
<1> USE DEF StartsAreAlone, Starting, Claiming, Owning, Goto, Stage
<1>0. ControlTypeOK /\ ClaimsAreOwn /\ StartsAreAlone
  BY OverlapStays
<1>1. ASSUME NEW p \in Process, Start(p)
      PROVE  StartsAreAlone'
  <2>1. \A q \in Process : at[q] \notin Starting
    BY <1>1, OverlapStays
  <2> QED BY <1>0, <1>1, <2>1 DEF Start, ControlTypeOK
<1>2. ASSUME NEW p \in Process, CheckControl(p)
      PROVE  StartsAreAlone'
  <2>1. CASE control = None
    <3>1. \A q \in Process : at[q] \notin Owning
      BY <1>0, <2>1 DEF ClaimsAreOwn, OwnsFile
    <3>2. /\ at[p] = "checking" => at' = [at EXCEPT ![p] = "replaying"]
          /\ at[p] = "claiming" => at' = [at EXCEPT ![p] = "creating"]
      BY <1>2, <2>1, GoesOn DEF CheckControl
    <3> QED BY <1>0, <1>2, <2>1, <3>1, <3>2 DEF CheckControl, ControlTypeOK
  <2>2. CASE control # None /\ Answers
    <3>1. at' = [at EXCEPT ![p] = "refused"] /\ UNCHANGED <<control, replayed, appended>>
      BY <1>2, <2>2 DEF CheckControl
    <3> QED BY <1>0, <3>1 DEF ControlTypeOK
  <2>3. CASE control # None /\ ~Answers
    <3>1. \A q \in Process : at[q] \notin Owning
      BY <1>0, <2>3 DEF ClaimsAreOwn, OwnsFile, Answers
    <3>2. /\ at[p] = "checking" => at' = [at EXCEPT ![p] = "removing"]
          /\ at[p] = "claiming" => at' = [at EXCEPT ![p] = "clearing"]
      BY <1>2, <2>3, GoesOn DEF CheckControl
    <3> QED BY <1>0, <1>2, <2>3, <3>1, <3>2 DEF CheckControl, ControlTypeOK
  <2> QED BY <2>1, <2>2, <2>3
<1>3. ASSUME NEW p \in Process, RemoveStale(p)
      PROVE  StartsAreAlone'
  <2>1. /\ at[p] = "removing" => at' = [at EXCEPT ![p] = "replaying"]
        /\ at[p] = "clearing" => at' = [at EXCEPT ![p] = "creating"]
    BY <1>0, <1>3, GoesOn DEF RemoveStale
  <2> QED BY <1>0, <1>3, <2>1 DEF RemoveStale, ControlTypeOK
<1>4. ASSUME NEW p \in Process, Replay(p)
      PROVE  StartsAreAlone'
  <2>1. Len(journal) = appended
    BY <1>0, OverlapStays, LinesAreSequence DEF AcknowledgedLinesSurvive, ControlTypeOK
  <2> QED BY <1>0, <1>4, <2>1 DEF Replay, ControlTypeOK
<1>5. ASSUME NEW p \in Process, OpenJournal(p)
      PROVE  StartsAreAlone'
  BY <1>0, <1>5 DEF OpenJournal, ControlTypeOK
<1>6. ASSUME NEW p \in Process, CreateControl(p) \/ WriteControl(p)
      PROVE  StartsAreAlone'
  <2>1. \A q \in Process \ {p} : at[q] \notin Starting
    BY <1>0, <1>6 DEF CreateControl, WriteControl
  <2>2. \A q \in Process \ {p} : at'[q] = at[q]
    BY <1>0, <1>6 DEF CreateControl, WriteControl, ControlTypeOK
  <2>3. at'[p] \in {"writing", "refused", "serving"}
    BY <1>0, <1>6 DEF CreateControl, WriteControl, ControlTypeOK
  <2>4. \A q \in Process : at[q] \notin Owning
    BY <1>0, <1>6 DEF CreateControl, WriteControl
  <2> QED BY <2>1, <2>2, <2>3, <2>4
<1>7. ASSUME NEW p \in Process, AppendLine(p)
      PROVE  StartsAreAlone'
  BY <1>0, <1>7 DEF AppendLine, ControlTypeOK
<1>8. ASSUME NEW p \in Process, Stop(p) \/ RemoveOwn(p)
      PROVE  StartsAreAlone'
  <2>1. at[p] \in Owning /\ (\A q \in Process : at[q] \notin Claiming)
    BY <1>0, <1>8 DEF Stop, RemoveOwn
  <2>2. \A q \in Process \ {p} : at'[q] = at[q]
    BY <1>0, <1>8 DEF Stop, RemoveOwn, ControlTypeOK
  <2>3. at'[p] \in {"leaving", "gone"}
    BY <1>0, <1>8 DEF Stop, RemoveOwn, ControlTypeOK
  <2> QED BY <1>0, <2>1, <2>2, <2>3
<1>9. ASSUME NEW p \in Process, Kill(p)
      PROVE  StartsAreAlone'
  BY <1>0, <1>9 DEF Kill, ControlTypeOK
<1>10. CASE UNCHANGED controlVars \/ PortChanges
  BY <1>0, <1>10 DEF controlVars, PortChanges
<1> QED BY <1>1, <1>2, <1>3, <1>4, <1>5, <1>6, <1>7, <1>8, <1>9, <1>10 DEF ControlNext

-----------------------------------------------------------------------------
(* The service name: what holds for every instance *)

(***************************************************************************)
(* The invariant holds whoever starts, stops or is killed, and whoever     *)
(* takes a port (run_service claims the name step by step, ControlServer   *)
(* and clear_stale_control).  Most of it is lost once starts have          *)
(* overlapped: a start then acts on what it found before the other's step. *)
(***************************************************************************)
THEOREM ControlInvariantHolds == ControlSpec => []ControlInvariant
<1>1. ControlInit => ControlInvariant
  BY ControlInitially
<1>2. ControlInvariant /\ [ControlNext]_controlVars => ControlInvariant'
  <2> SUFFICES ASSUME ControlInvariant, [ControlNext]_controlVars
               PROVE  ControlInvariant'
    OBVIOUS
  <2>1. ~overlapped' => Orderly'
    BY ClaimsStep, AloneStep, LinesStep DEF Orderly
  <2> QED BY <2>1, TypeStep, ListenersStep DEF ControlInvariant
<1> QED BY <1>1, <1>2, PTL DEF ControlSpec

(***************************************************************************)
(* One process serves under the name, until a process has started while    *)
(* another was starting: it owns the control file, which is one            *)
(* (clear_stale_control, write_private_new).                               *)
(***************************************************************************)
THEOREM OneOwnerHolds == ControlSpec => []OneOwnerUnlessOverlapped
<1>1. ControlInvariant => OneOwnerUnlessOverlapped
  BY DEF ControlInvariant, Orderly, ClaimsAreOwn, OwnsFile, OneOwner, OneOwnerUnlessOverlapped
<1> QED BY <1>1, ControlInvariantHolds, PTL

(***************************************************************************)
(* The journal holds every acknowledged line, whoever starts, stops or is  *)
(* killed, until starts have overlapped: what a start replayed is what it  *)
(* opens (replay_registry_journal, open_private_journal).                  *)
(***************************************************************************)
THEOREM LinesSurvive == ControlSpec => []LinesSurviveUnlessOverlapped
<1>1. ControlInvariant => LinesSurviveUnlessOverlapped
  BY DEF ControlInvariant, Orderly, LinesSurviveUnlessOverlapped
<1> QED BY <1>1, ControlInvariantHolds, PTL

(***************************************************************************)
(* The control file of a process that listens is removed by that process   *)
(* only, until starts have overlapped (clear_stale_control).               *)
(***************************************************************************)
THEOREM ClaimIsKept == ControlSpec => LiveClaimIsKept
<1> DEFINE Kept == ~overlapped' => \A p \in Process :
      (OwnsFile(p) /\ p \in listening /\ at'[p] # "gone") => OwnsFile(p)'
<1>1. ControlInvariant /\ [ControlNext]_controlVars => [Kept]_controlVars
  <2> SUFFICES ASSUME ControlInvariant, ControlNext, ~overlapped', NEW p \in Process,
                      OwnsFile(p), p \in listening, at'[p] # "gone"
               PROVE  OwnsFile(p)'
    BY DEF controlVars
  <2>0. ControlTypeOK /\ ClaimsAreOwn /\ StartsAreAlone
    BY OverlapStays
  <2>1. ASSUME NEW q \in Process, RemoveStale(q)
        PROVE  FALSE
    BY <2>0, <2>1 DEF RemoveStale, ClaimsAreOwn, StartsAreAlone, Starting, Claiming, Owning
  <2>2. ASSUME NEW q \in Process, CreateControl(q)
        PROVE  OwnsFile(p)'
    BY <2>2 DEF CreateControl, OwnsFile
  <2>3. ASSUME NEW q \in Process, WriteControl(q)
        PROVE  OwnsFile(p)'
    <3>1. control # None /\ control.by = q /\ p = q
      BY <2>0, <2>3 DEF WriteControl, ClaimsAreOwn, OwnsFile
    <3> QED BY <2>0, <2>3, <3>1, ClaimsStep DEF WriteControl, ClaimsAreOwn, ControlTypeOK,
               Goto, Owning, ControlInvariant
  <2>4. ASSUME NEW q \in Process, RemoveOwn(q)
        PROVE  FALSE
    BY <2>0, <2>4 DEF RemoveOwn, ClaimsAreOwn, OwnsFile, Owning, Goto, ControlTypeOK
  <2>5. CASE UNCHANGED control
    BY <2>5 DEF OwnsFile
  <2> QED
    BY <2>1, <2>2, <2>3, <2>4, <2>5
       DEF ControlNext, Start, CheckControl, Replay, OpenJournal, AppendLine, Stop, Kill, PortChanges
<1> QED BY <1>1, ControlInvariantHolds, PTL DEF ControlSpec, LiveClaimIsKept

(***************************************************************************)
(* A start is refused only while another process starts or serves, while a *)
(* stranger has the port of a file left behind, or once starts have        *)
(* overlapped (clear_stale_control, endpoint_is_listening).                *)
(***************************************************************************)
THEOREM NameIsNeverLocked == ControlSpec => RefusedOnlyByAnother
<1> DEFINE ByAnother == \A p \in Process :
      at[p] # "refused" /\ at'[p] = "refused"
        => \/ \E q \in Process \ {p} : at[q] \in Starting \cup Owning
           \/ taken
           \/ overlapped
<1>1. ControlInvariant /\ [ControlNext]_controlVars => [ByAnother]_controlVars
  <2> SUFFICES ASSUME ControlInvariant, ControlNext, NEW p \in Process, ~taken, ~overlapped,
                      at[p] # "refused", at'[p] = "refused"
               PROVE  \E q \in Process \ {p} : at[q] \in Starting \cup Owning
    BY DEF controlVars
  <2>0. ControlTypeOK /\ ListenersHoldOn /\ StartsAreAlone
    BY DEF ControlInvariant, Orderly
  <2>1. CASE CheckControl(p)
    <3>1. control # None /\ control.by \in listening
      BY <2>0, <2>1 DEF CheckControl, Goto, ControlTypeOK, Cleared, Stale, Answers
    <3>2. control.by \in Process /\ at[control.by] \in Starting \cup Owning
      BY <2>0, <3>1 DEF ListenersHoldOn, ControlTypeOK, Starting
    <3>3. control.by # p
      BY <2>0, <2>1, <3>1 DEF ListenersHoldOn, CheckControl, Owning
    <3> QED BY <3>2, <3>3
  <2>2. CASE RemoveStale(p) \/ CreateControl(p)
    BY <2>0, <2>2 DEF RemoveStale, CreateControl, Goto, ControlTypeOK, Cleared, StartsAreAlone
  <2>3. CASE ~(CheckControl(p) \/ RemoveStale(p) \/ CreateControl(p))
    BY <2>0, <2>3
       DEF ControlNext, Start, CheckControl, RemoveStale, Replay, OpenJournal, CreateControl,
           WriteControl, AppendLine, Stop, RemoveOwn, Kill, PortChanges, Goto, ControlTypeOK
  <2> QED BY <2>1, <2>2, <2>3
<1> QED BY <1>1, ControlInvariantHolds, PTL DEF ControlSpec, RefusedOnlyByAnother

-----------------------------------------------------------------------------
(* Requests: a step of the service with its requests *)

\* A step of the service with its requests is one of ServiceControl, or none.
LEMMA RequestStepIsControlStep ==
  ASSUME [RequestNext]_serviceVars
  PROVE  [ControlNext]_controlVars
<1>1. ASSUME NEW o \in Operator,
             \/ \E action \in Action : ReadEndpoint(o, action)
             \/ \E p \in Process : Connect(o, p)
             \/ Send(o) \/ GiveUp(o)
      PROVE  UNCHANGED controlVars
  BY <1>1 DEF ReadEndpoint, Connect, Send, GiveUp
<1>2. ASSUME NEW p \in Process, Claim(p)
      PROVE  ControlNext
  BY <1>2 DEF Claim, ControlNext
<1>3. ASSUME NEW p \in Process, Accept(p) \/ ReadRequest(p) \/ ReadFails(p)
      PROVE  UNCHANGED controlVars
  BY <1>3 DEF Accept, ReadRequest, ReadFails
<1>4. ASSUME NEW p \in Process, Handle(p) \/ Respond(p)
      PROVE  ControlNext \/ UNCHANGED controlVars
  BY <1>4 DEF Handle, Respond, ControlNext
<1>5. ASSUME NEW p \in Process, Leave(p) \/ Withdraw(p) \/ Killed(p)
      PROVE  ControlNext
  BY <1>5 DEF Leave, Withdraw, Killed, ControlNext
<1>6. CASE UNCHANGED serviceVars \/ PortChanges
  BY <1>6 DEF serviceVars, ControlNext
<1> QED BY <1>1, <1>2, <1>3, <1>4, <1>5, <1>6 DEF RequestNext, Serve

(***************************************************************************)
(* Nothing operators send makes a service do what ServiceControl does not  *)
(* allow: the loop of run_service implements it.  So one owner, the        *)
(* surviving lines and the free name carry over.                           *)
(***************************************************************************)
THEOREM RequestsImplementControl == RequestSpec => ControlSpec
<1>1. RequestInit => ControlInit
  BY DEF RequestInit
<1> QED BY <1>1, RequestStepIsControlStep, PTL DEF RequestSpec, ControlSpec

-----------------------------------------------------------------------------
(* Requests: the inductive invariant *)

CallRecord == [stage : CallStage, request : Request \cup {None}]
ServiceTask == [step : TaskStep, request : Request \cup {None}]

\* The types of what requests add
RequestTypes ==
  /\ calls \in 0..MaxCalls
  /\ caller \in [Operator -> CallRecord]
  /\ backlog \in [Process -> Seq(Request)]
  /\ sent \in SUBSET Request
  /\ task \in [Process -> ServiceTask]
  /\ done \in [Process -> [Operator -> 0..MaxCalls]]
  /\ \A p \in Process :
       /\ task[p] # Resting => at[p] = "serving"
       /\ backlog[p] # <<>> => p \in listening

\* A call and a task have a request, a call one of its own.
Carried ==
  /\ \A o \in Operator : caller[o].stage # "away" =>
       caller[o].request \in Request /\ caller[o].request.by = o
  /\ \A p \in Process : task[p].step # "idle" => task[p].request \in Request

\* What p has before it was not handled, by p or, until starts overlap, by any.
Unhandled(p, r) ==
  /\ r.nth <= calls
  /\ \A q \in Process : q = p \/ ~overlapped => done[q][r.by] < r.nth
Earlier(r, s) == r.by = s.by => r.nth < s.nth
Queue(p) == 1..Len(backlog[p])

\* What a service has before it, it handles in the order of the calls.
Ordered(p) ==
  /\ \A n, m \in Queue(p) : n < m => Earlier(backlog[p][n], backlog[p][m])
  /\ \A n \in Queue(p) : Unhandled(p, backlog[p][n])
  /\ task[p].step # "idle" =>
       /\ task[p].request.nth <= calls
       /\ \A n \in Queue(p) : Earlier(task[p].request, backlog[p][n])
  /\ task[p].step \in {"reading", "handling"} => Unhandled(p, task[p].request)

\* A call that connects is later than everything on its way.
Newest(o) ==
  caller[o].stage = "connecting" =>
    /\ caller[o].request.nth <= calls
    /\ \A p \in Process :
         /\ done[p][o] < caller[o].request.nth
         /\ \A n \in Queue(p) : Earlier(backlog[p][n], caller[o].request)
         /\ task[p].step # "idle" => Earlier(task[p].request, caller[o].request)

RequestInvariant ==
  /\ RequestTypes
  /\ Carried
  /\ \A p \in Process : Ordered(p)
  /\ \A o \in Operator : Newest(o) /\ \A p \in Process : done[p][o] <= calls

\* Nobody calls at first.
LEMMA RequestInitially ==
  ASSUME RequestInit
  PROVE  RequestInvariant
<1>1. /\ calls = 0 /\ 0 \in 0..MaxCalls
      /\ \A o \in Operator : caller[o] = Away
      /\ \A p \in Process, o \in Operator : done[p][o] = 0
      /\ \A p \in Process : backlog[p] = <<>> /\ task[p] = Resting
  BY RequestAssumption DEF RequestInit
<1>2. Away \in CallRecord /\ Resting \in ServiceTask
  BY DEF Away, Resting, CallRecord, ServiceTask, CallStage, TaskStep
<1>3. RequestTypes
  BY <1>1, <1>2 DEF RequestInit, RequestTypes
<1>4. Carried /\ (\A p \in Process : Ordered(p)) /\ (\A o \in Operator : Newest(o) /\ \A p \in Process : done[p][o] <= calls)
  BY <1>1 DEF Carried, Ordered, Newest, Queue, Away, Resting
<1> QED BY <1>3, <1>4 DEF RequestInvariant

\* Until starts overlap one process listens, so only one has anything before it.
LEMMA OneIsCalled ==
  ASSUME ControlInvariant, ~overlapped, RequestTypes, NEW p \in Process, NEW q \in Process \ {p},
         p \in listening \/ at[p] = "serving"
  PROVE  backlog[q] = <<>> /\ task[q] = Resting /\ Queue(q) = {}
<1>1. p \in listening /\ OwnsFile(p)
  BY DEF ControlInvariant, Orderly, ClaimsAreOwn, Owning
<1>2. q \notin listening /\ at[q] # "serving"
  BY <1>1 DEF ControlInvariant, Orderly, ClaimsAreOwn, Owning, OwnsFile
<1> QED BY <1>2 DEF RequestTypes, Queue

-----------------------------------------------------------------------------
(* Requests: steps *)

\* Where backlogs and tasks are kept or dropped, and no call begins to connect.
Keeping ==
  /\ UNCHANGED <<calls, done>> /\ sent' \in SUBSET Request
  /\ overlapped => overlapped'
  /\ caller' \in [Operator -> CallRecord]
  /\ \A o \in Operator :
       \/ caller'[o] = caller[o]
       \/ caller'[o].stage = "away"
       \/ /\ caller'[o].stage # "connecting" /\ caller[o].stage # "away"
          /\ caller'[o].request = caller[o].request
  /\ backlog' = [q \in Process |-> backlog'[q]] /\ task' = [q \in Process |-> task'[q]]
  /\ \A q \in Process :
       /\ backlog'[q] \in {backlog[q], <<>>} /\ task'[q] \in {task[q], Resting}
       /\ task'[q] # Resting => at'[q] = "serving"
       /\ backlog'[q] # <<>> => q \in listening'

\* Nothing that is only kept or dropped gets out of order.
LEMMA KeepingStep ==
  ASSUME RequestInvariant, Keeping
  PROVE  RequestInvariant'
<1> USE DEF RequestInvariant
<1>1. RequestTypes'
  <2>1. Resting \in ServiceTask
    BY DEF Resting, ServiceTask, TaskStep
  <2>2. backlog' \in [Process -> Seq(Request)]
    <3>1. <<>> \in Seq(Request)
      OBVIOUS
    <3>2. \A q \in Process : backlog[q] \in Seq(Request)
      BY DEF RequestTypes
    <3>3. \A q \in Process : backlog'[q] = backlog[q] \/ backlog'[q] = <<>>
      BY DEF Keeping
    <3>4. \A q \in Process : backlog'[q] \in Seq(Request)
      BY <3>1, <3>2, <3>3
    <3> QED BY <3>4 DEF Keeping
  <2>3. task' \in [Process -> ServiceTask]
    BY <2>1 DEF Keeping, RequestTypes
  <2> QED BY <2>2, <2>3 DEF Keeping, RequestTypes
<1>2. Carried'
  BY DEF Keeping, Carried, Resting
<1>3. \A p \in Process : Ordered(p)'
  <2> TAKE p \in Process
  <2>1. /\ backlog'[p] = backlog[p] \/ backlog'[p] = <<>>
        /\ task'[p] = task[p] \/ task'[p].step = "idle"
        /\ Ordered(p) /\ calls' = calls /\ done' = done /\ (overlapped => overlapped')
    BY DEF Keeping, Resting
  <2>2. CASE backlog'[p] = backlog[p]
    BY <2>1, <2>2 DEF Ordered, Queue, Unhandled
  <2>3. CASE backlog'[p] = <<>>
    <3>1. Queue(p)' = {}
      BY <2>3 DEF Queue
    <3> QED BY <2>1, <3>1 DEF Ordered, Unhandled
  <2> QED BY <2>1, <2>2, <2>3
<1>4. \A o \in Operator : Newest(o)' /\ \A p \in Process : done'[p][o] <= calls'
  <2> TAKE o \in Operator
  <2>1. calls' = calls /\ done' = done /\ Newest(o) /\ \A p \in Process : done[p][o] <= calls
    BY DEF Keeping
  <2>2. ASSUME caller'[o].stage = "connecting"
        PROVE  caller'[o] = caller[o]
    BY <2>2 DEF Keeping
  <2>3. \A p \in Process : /\ backlog'[p] = backlog[p] \/ Queue(p)' = {}
                           /\ task'[p] = task[p] \/ task'[p].step = "idle"
    BY DEF Keeping, Resting, Queue
  <2> QED BY <2>1, <2>2, <2>3 DEF Newest, Queue
<1> QED BY <1>1, <1>2, <1>3, <1>4

\* What a service that stops or is killed had before it is dropped, or kept.
LEMMA HushKeeps ==
  ASSUME ControlInvariant, RequestInvariant, NEW p \in Process, Hush(p),
         Stop(p) \/ Kill(p) \/ RemoveOwn(p), UNCHANGED <<calls, done>>,
         caller' \in [Operator -> CallRecord],
         \A o \in Operator : caller'[o] = caller[o] \/ caller'[o].stage = "away"
  PROVE  Keeping
<1>0. /\ backlog \in [Process -> Seq(Request)] /\ task \in [Process -> ServiceTask]
      /\ sent \in SUBSET Request /\ at \in [Process -> Stage]
  BY DEF RequestInvariant, RequestTypes, ControlInvariant, ControlTypeOK
<1>1. /\ listening' = listening \/ listening' = listening \ {p}
      /\ \A q \in Process \ {p} : at'[q] = at[q]
  BY <1>0 DEF Stop, Kill, RemoveOwn, Goto
<1>5. overlapped' = overlapped
  BY DEF Stop, Kill, RemoveOwn
<1>2. /\ task' = [task EXCEPT ![p] = Resting] /\ sent' \in SUBSET Request
      /\ backlog' = IF p \in listening' THEN backlog ELSE [backlog EXCEPT ![p] = <<>>]
  BY <1>0 DEF Hush
<1>3. \A q \in Process : /\ backlog'[q] \in {backlog[q], <<>>} /\ task'[q] \in {task[q], Resting}
                         /\ task'[q] # Resting => at'[q] = "serving"
                         /\ backlog'[q] # <<>> => q \in listening'
  BY <1>0, <1>1, <1>2 DEF RequestInvariant, RequestTypes
<1>4. backlog' = [q \in Process |-> backlog'[q]] /\ task' = [q \in Process |-> task'[q]]
  BY <1>0, <1>2
<1> QED BY <1>2, <1>3, <1>4, <1>5 DEF Keeping

\* Starting, or hanging up, does not disturb what others have before them.
LEMMA ClaimKeeps ==
  ASSUME ControlInvariant, RequestInvariant, NEW p \in Process, Claim(p)
  PROVE  Keeping
<1>0. /\ backlog \in [Process -> Seq(Request)] /\ task \in [Process -> ServiceTask]
      /\ sent \in SUBSET Request /\ at \in [Process -> Stage]
      /\ caller \in [Operator -> CallRecord]
      /\ UNCHANGED requestVars
  BY DEF RequestInvariant, RequestTypes, ControlInvariant, ControlTypeOK, Claim
<1>1. /\ at[p] # "serving" /\ listening \subseteq listening'
      /\ \A q \in Process \ {p} : at'[q] = at[q]
      /\ overlapped => overlapped'
  <2>1. CASE Start(p) \/ CheckControl(p) \/ RemoveStale(p)
    <3>1. at[p] # "serving" /\ UNCHANGED listening
      BY <2>1 DEF Start, CheckControl, RemoveStale
    <3>2. \A q \in Process \ {p} : at'[q] = at[q]
      BY <1>0, <2>1 DEF Start, CheckControl, RemoveStale, Goto
    <3>3. overlapped => overlapped'
      BY <2>1, Zenon DEF Start, CheckControl, RemoveStale
    <3> QED BY <3>1, <3>2, <3>3
  <2>2. CASE Replay(p) \/ OpenJournal(p) \/ WriteControl(p)
    BY <1>0, <2>2 DEF Replay, OpenJournal, WriteControl, Goto
  <2>3. CASE CreateControl(p)
    BY <1>0, <2>3 DEF CreateControl, Goto
  <2> QED BY <2>1, <2>2, <2>3 DEF Claim
<1>2. \A q \in Process : /\ task[q] # Resting => at'[q] = "serving"
                         /\ backlog[q] # <<>> => q \in listening'
  BY <1>1 DEF RequestInvariant, RequestTypes
<1>3. /\ UNCHANGED <<calls, done, sent, caller, backlog, task>>
      /\ backlog = [q \in Process |-> backlog[q]] /\ task = [q \in Process |-> task[q]]
  BY <1>0 DEF requestVars
<1> QED BY <1>0, <1>1, <1>2, <1>3 DEF Keeping

\* Whoever answers, or goes away, leaves at most one caller less.
LEMMA HearTypes ==
  ASSUME RequestInvariant, NEW r, Hear(r)
  PROVE  /\ caller' \in [Operator -> CallRecord]
         /\ \A o \in Operator : caller'[o] = caller[o] \/ caller'[o].stage = "away"
<1>1. caller \in [Operator -> CallRecord] /\ Away \in CallRecord
  BY DEF RequestInvariant, RequestTypes, Away, CallRecord, CallStage
<1> QED BY <1>1 DEF Hear, EndCall, Away

\* Steps that only take something away, or only change where a caller is
LEMMA LetGoKeeps ==
  ASSUME ControlInvariant, RequestInvariant
  PROVE  /\ \A o \in Operator : Send(o) \/ GiveUp(o) => Keeping
         /\ \A p \in Process : ReadFails(p) \/ Respond(p) \/ Leave(p) \/ Withdraw(p) \/ Killed(p)
              => Keeping
         /\ UNCHANGED serviceVars \/ (PortChanges /\ UNCHANGED requestVars) => Keeping
<1>0. /\ backlog \in [Process -> Seq(Request)] /\ task \in [Process -> ServiceTask]
      /\ sent \in SUBSET Request /\ caller \in [Operator -> CallRecord]
      /\ \A q \in Process : /\ task[q] # Resting => at[q] = "serving"
                            /\ backlog[q] # <<>> => q \in listening
  BY DEF RequestInvariant, RequestTypes
<1>1. ASSUME NEW o \in Operator, Send(o)
      PROVE  Keeping
  <2>1. caller[o].request \in Request /\ [caller[o] EXCEPT !.stage = "waiting"] \in CallRecord
    BY <1>0, <1>1 DEF Send, RequestInvariant, Carried, CallRecord, CallStage
  <2>2. /\ caller' = [caller EXCEPT ![o] = [caller[o] EXCEPT !.stage = "waiting"]]
        /\ caller[o].stage = "sending" /\ sent' = sent \cup {caller[o].request}
        /\ UNCHANGED <<controlVars, calls, backlog, task, done>>
    BY <1>0, <1>1 DEF Send, MoveCall
  <2> QED BY <1>0, <2>1, <2>2 DEF Keeping, controlVars, CallRecord
<1>2. ASSUME NEW o \in Operator, GiveUp(o)
      PROVE  Keeping
  <2>1. /\ caller' = [caller EXCEPT ![o] = Away] /\ Away \in CallRecord /\ Away.stage = "away"
        /\ UNCHANGED <<controlVars, calls, backlog, sent, task, done>>
    BY <1>2 DEF GiveUp, EndCall, Away, CallRecord, CallStage
  <2> QED BY <1>0, <2>1 DEF Keeping, controlVars
<1>3. ASSUME NEW p \in Process, ReadFails(p)
      PROVE  Keeping
  <2>1. /\ task' = [task EXCEPT ![p] = Resting] /\ Hear(task[p].request)
        /\ UNCHANGED <<controlVars, calls, backlog, sent, done>>
    BY <1>3 DEF ReadFails
  <2> QED BY <1>0, <2>1, HearTypes DEF Keeping, controlVars
<1>4. ASSUME NEW p \in Process, Respond(p)
      PROVE  Keeping
  <2>1. Hear(task[p].request) /\ UNCHANGED <<calls, done>>
    BY <1>4 DEF Respond
  <2>2. CASE task[p].request.action = "stop"
    BY <1>4, <2>1, <2>2, HearTypes, HushKeeps DEF Respond
  <2>3. CASE task[p].request.action # "stop"
    <3>1. task' = [task EXCEPT ![p] = Resting] /\ UNCHANGED <<controlVars, backlog, sent>>
      BY <1>4, <2>3 DEF Respond
    <3> QED BY <1>0, <2>1, <3>1, HearTypes DEF Keeping, controlVars
  <2> QED BY <2>2, <2>3
<1>5. ASSUME NEW p \in Process, Leave(p) \/ Withdraw(p) \/ Killed(p)
      PROVE  Keeping
  BY <1>0, <1>5, HushKeeps DEF Leave, Withdraw, Killed
<1>6. ASSUME UNCHANGED serviceVars \/ (PortChanges /\ UNCHANGED requestVars)
      PROVE  Keeping
  BY <1>0, <1>6 DEF Keeping, serviceVars, requestVars, controlVars, PortChanges
<1> QED BY <1>1, <1>2, <1>3, <1>4, <1>5, <1>6

\* What is on its way is a request, made by now.
LEMMA OnTheWay ==
  ASSUME RequestInvariant
  PROVE  /\ \A q \in Process : \A n \in Queue(q) :
              backlog[q][n] \in Request /\ backlog[q][n].nth \in 0..calls
         /\ \A q \in Process : task[q].step # "idle" =>
              task[q].request \in Request /\ task[q].request.nth \in 0..calls
         /\ \A o \in Operator : caller[o].stage = "connecting" =>
              /\ caller[o].request \in Request /\ caller[o].request.by = o
              /\ caller[o].request.nth \in 0..calls
         /\ calls \in Nat /\ MaxCalls \in Nat 
         /\ \A p \in Process, o \in Operator : done[p][o] \in 0..calls
<1> USE DEF RequestInvariant
<1>1. calls \in Nat /\ MaxCalls \in Nat /\ \A p \in Process, o \in Operator : done[p][o] \in 0..calls
  BY RequestAssumption DEF RequestTypes
<1>2. \A r \in Request : r.nth <= calls => r.nth \in 0..calls
  BY <1>1 DEF Request
<1>3. ASSUME NEW q \in Process, NEW n \in Queue(q)
      PROVE  backlog[q][n] \in Request /\ backlog[q][n].nth \in 0..calls
  <2>1. backlog[q] \in Seq(Request)
    BY DEF RequestTypes
  <2>2. backlog[q][n] \in Request
    BY <1>3, <2>1 DEF Queue
  <2>3. backlog[q][n].nth <= calls
    BY <1>3 DEF Ordered, Unhandled
  <2> QED BY <1>2, <2>2, <2>3
<1>4. ASSUME NEW q \in Process, task[q].step # "idle"
      PROVE  task[q].request \in Request /\ task[q].request.nth \in 0..calls
  BY <1>2, <1>4 DEF Ordered, Carried
<1>5. ASSUME NEW o \in Operator, caller[o].stage = "connecting"
      PROVE  /\ caller[o].request \in Request /\ caller[o].request.by = o
             /\ caller[o].request.nth \in 0..calls
  BY <1>2, <1>5 DEF Newest, Carried
<1> QED BY <1>1, <1>3, <1>4, <1>5

\* A call that begins is later than all others.
LEMMA ReadEndpointStep ==
  ASSUME RequestInvariant, NEW o \in Operator, NEW action \in Action, ReadEndpoint(o, action),
         ControlTypeOK
  PROVE  RequestInvariant'
<1> USE DEF RequestInvariant
<1> DEFINE r == [by |-> o, nth |-> calls + 1, action |-> action, token |-> control.by]
<1>0. /\ caller \in [Operator -> CallRecord] /\ calls \in 0..MaxCalls /\ calls < MaxCalls
      /\ MaxCalls \in Nat /\ done \in [Process -> [Operator -> 0..MaxCalls]]
      /\ control.by \in Process /\ calls + 1 \in 1..MaxCalls
  BY RequestAssumption DEF RequestTypes, ReadEndpoint, ControlTypeOK
<1>1. r \in Request
  BY <1>0, RequestAssumption DEF Request
<1>2. /\ caller' = [caller EXCEPT ![o] = [stage |-> "connecting", request |-> r]]
      /\ calls' = calls + 1
      /\ UNCHANGED <<at, listening, overlapped, backlog, sent, task, done>>
  BY DEF ReadEndpoint, controlVars
<1>3. r.nth = calls + 1 /\ r.by = o
  OBVIOUS
<1> HIDE DEF r
<1>4. RequestTypes'
  <2>1. [stage |-> "connecting", request |-> r] \in CallRecord
    BY <1>1 DEF CallRecord, CallStage
  <2> QED BY <1>0, <1>2, <2>1 DEF RequestTypes
<1>5. Carried'
  BY <1>0, <1>1, <1>2, <1>3 DEF Carried
<1>6. \A q \in Process : \A n \in Queue(q) : backlog[q][n].nth \in 0..calls
  BY OnTheWay
<1>7. \A q \in Process : task[q].step # "idle" => task[q].request.nth \in 0..calls
  BY OnTheWay
<1>8. \A p \in Process : Ordered(p)'
  <2> TAKE p \in Process
  <2>1. Queue(p)' = Queue(p) /\ backlog'[p] = backlog[p] /\ task'[p] = task[p] /\ done' = done
    BY <1>2 DEF Queue
  <2>2. \A n \in Queue(p) : Unhandled(p, backlog[p][n])'
    BY <1>0, <1>2, <1>6 DEF Ordered, Unhandled
  <2>3. task[p].step \in {"reading", "handling"} => Unhandled(p, task[p].request)'
    BY <1>0, <1>2, <1>7 DEF Ordered, Unhandled
  <2> QED BY <1>0, <1>2, <1>7, <2>1, <2>2, <2>3 DEF Ordered
<1>9. \A u \in Operator : Newest(u)' /\ \A q \in Process : done'[q][u] <= calls'
  <2> TAKE u \in Operator
  <2>1. \A q \in Process : done'[q][u] <= calls' /\ done[q][u] \in 0..calls /\ done'[q][u] = done[q][u]
    BY <1>0, <1>2, OnTheWay
  <2>2. CASE u = o
    <3>1. caller'[o].request = r
      BY <1>0, <1>2
    <3>2. r.nth <= calls' /\ \A q \in Process : done'[q][u] < r.nth
      BY <1>0, <1>2, <1>3, <2>1, <2>2
    <3>3. \A q \in Process : \A n \in Queue(q) : Earlier(backlog[q][n], r)
      BY <1>0, <1>3, <1>6 DEF Earlier
    <3>4. \A q \in Process : task[q].step # "idle" => Earlier(task[q].request, r)
      BY <1>0, <1>3, <1>7 DEF Earlier
    <3>5. /\ \A q \in Process : \A n \in Queue(q)' : Earlier(backlog'[q][n], caller'[u].request)
          /\ \A q \in Process : task'[q].step # "idle" => Earlier(task'[q].request, caller'[u].request)
      BY <1>2, <2>2, <3>1, <3>3, <3>4 DEF Queue
    <3> QED BY <2>1, <2>2, <3>1, <3>2, <3>5 DEF Newest, Earlier
  <2>3. CASE u # o
    <3>1. caller'[u] = caller[u]
      BY <1>0, <1>2, <2>3
    <3>2. ASSUME caller[u].stage = "connecting"
          PROVE  /\ caller'[u].request.nth <= calls'
                 /\ \A q \in Process : done'[q][u] < caller'[u].request.nth
      <4>1. Newest(u) /\ caller[u].request.nth \in 0..calls
        BY <3>2, OnTheWay
      <4> QED BY <1>0, <1>2, <2>1, <3>1, <3>2, <4>1 DEF Newest
    <3>3. Newest(u) /\ backlog' = backlog /\ task' = task
      BY <1>2
    <3> QED BY <2>1, <3>1, <3>2, <3>3 DEF Newest, Queue
  <2> QED BY <2>2, <2>3
<1> QED BY <1>4, <1>5, <1>8, <1>9

\* A connection waits behind those that were made before it.
LEMMA ConnectStep ==
  ASSUME RequestInvariant, NEW o \in Operator, NEW p \in Process, Connect(o, p)
  PROVE  RequestInvariant'
<1> USE DEF RequestInvariant
<1> DEFINE r == caller[o].request
<1> DEFINE old == backlog[p]
<1>0. /\ caller \in [Operator -> CallRecord] /\ backlog \in [Process -> Seq(Request)]
      /\ caller[o].stage = "connecting"
  BY DEF RequestTypes, Connect
<1>1. r \in Request /\ r.by = o /\ Unhandled(p, r)
  BY <1>0 DEF Carried, Newest, Unhandled
<1>2. /\ backlog' = [backlog EXCEPT ![p] = Append(old, r)] /\ p \in listening
      /\ caller' = [caller EXCEPT ![o] = [caller[o] EXCEPT !.stage = "sending"]]
      /\ UNCHANGED <<at, listening, overlapped, calls, sent, task, done>>
  BY <1>0 DEF Connect, MoveCall, controlVars
<1>3. /\ backlog'[p] \in Seq(Request) /\ backlog'[p] = Append(old, r) /\ Len(backlog'[p]) = Len(old) + 1
      /\ Len(old) \in Nat /\ backlog'[p][Len(old) + 1] = r
      /\ \A n \in 1..Len(old) : backlog'[p][n] = old[n]
      /\ \A q \in Process \ {p} : backlog'[q] = backlog[q]
  <2>1. old \in Seq(Request)
    BY <1>0
  <2> QED BY <1>0, <1>1, <1>2, <2>1, AppendProperties
<1>4. /\ caller'[o].stage = "sending" /\ caller'[o].request = r /\ caller'[o] \in CallRecord
      /\ \A u \in Operator \ {o} : caller'[u] = caller[u]
  <2>1. [caller[o] EXCEPT !.stage = "sending"] \in CallRecord
    BY <1>0 DEF CallRecord, CallStage
  <2> QED BY <1>0, <1>2, <2>1 DEF CallRecord
<1>5. RequestTypes'
  <2>1. backlog' \in [Process -> Seq(Request)]
    BY <1>0, <1>2, <1>3
  <2>2. caller' \in [Operator -> CallRecord]
    BY <1>0, <1>2, <1>4
  <2> QED BY <1>2, <1>3, <2>1, <2>2 DEF RequestTypes
<1>6. Carried'
  BY <1>1, <1>2, <1>4 DEF Carried
<1>7. \A q \in Process : Ordered(q)'
  <2> TAKE q \in Process
  <2>0. Ordered(q) /\ task' = task /\ done' = done /\ calls' = calls /\ overlapped' = overlapped
    BY <1>2
  <2>1. CASE q # p
    BY <1>3, <2>0, <2>1 DEF Ordered, Queue, Unhandled
  <2>2. CASE q = p
    <3>1. \A n \in Queue(p)' : n \in Queue(p) \/ n = Len(old) + 1
      BY <1>3 DEF Queue
    <3>2. \A n \in Queue(p) : backlog'[p][n] = backlog[p][n] /\ n < Len(old) + 1
      BY <1>3 DEF Queue
    <3>3. \A n \in Queue(p) : Earlier(backlog[p][n], r)
      BY <1>0 DEF Newest
    <3>4. \A n, m \in Queue(p)' : n < m => Earlier(backlog'[p][n], backlog'[p][m])
      <4> SUFFICES ASSUME NEW n \in Queue(p)', NEW m \in Queue(p)', n < m
                   PROVE  Earlier(backlog'[p][n], backlog'[p][m])
        OBVIOUS
      <4>1. n \in Queue(p)
        BY <1>3, <3>1 DEF Queue
      <4>2. CASE m \in Queue(p)
        BY <2>0, <2>2, <3>2, <4>1, <4>2 DEF Ordered
      <4>3. CASE m = Len(old) + 1
        BY <1>3, <3>2, <3>3, <4>1, <4>3
      <4> QED BY <3>1, <4>2, <4>3
    <3>5. \A n \in Queue(p)' : Unhandled(p, backlog'[p][n])
      BY <1>1, <1>3, <2>0, <2>2, <3>1, <3>2 DEF Ordered
    <3>6. task[p].step # "idle" => \A n \in Queue(p)' : Earlier(task[p].request, backlog'[p][n])
      <4>1. task[p].step # "idle" => Earlier(task[p].request, r)
        BY <1>0 DEF Newest
      <4> QED BY <1>3, <2>0, <2>2, <3>1, <3>2, <4>1 DEF Ordered
    <3> QED BY <2>0, <2>2, <3>4, <3>5, <3>6 DEF Ordered, Unhandled, Earlier
  <2> QED BY <2>1, <2>2
<1>8. \A u \in Operator : Newest(u)' /\ \A q \in Process : done'[q][u] <= calls'
  <2> TAKE u \in Operator
  <2>0. (\A q \in Process : done'[q][u] <= calls') /\ task' = task /\ done' = done /\ calls' = calls
    BY <1>2
  <2>1. CASE u = o
    BY <1>4, <2>0, <2>1 DEF Newest
  <2>2. CASE u # o
    <3>1. caller'[u] = caller[u] /\ Newest(u)
      BY <1>4, <2>2
    <3>2. ASSUME caller[u].stage = "connecting"
          PROVE  \A q \in Process : \A n \in Queue(q)' : Earlier(backlog'[q][n], caller[u].request)
      <4> TAKE q \in Process
      <4>1. CASE q # p
        BY <1>3, <3>1, <3>2, <4>1 DEF Newest, Queue
      <4>2. CASE q = p
        <5>1. \A n \in Queue(p)' : n \in 1..Len(old) \/ n = Len(old) + 1
          BY <1>3 DEF Queue
        <5>2. Earlier(r, caller[u].request)
          BY <1>1, <2>2, <3>2 DEF Earlier, Carried
        <5>3. \A n \in 1..Len(old) : Earlier(old[n], caller[u].request)
          BY <3>1, <3>2 DEF Newest, Queue
        <5> QED BY <1>3, <4>2, <5>1, <5>2, <5>3
      <4> QED BY <4>1, <4>2
    <3>3. caller[u].stage = "connecting" =>
            /\ caller'[u].request.nth <= calls'
            /\ \A q \in Process : done'[q][u] < caller'[u].request.nth
      BY <2>0, <3>1 DEF Newest
    <3> QED BY <2>0, <3>1, <3>2, <3>3 DEF Newest, Earlier
  <2> QED BY <2>1, <2>2
<1> QED BY <1>5, <1>6, <1>7, <1>8

\* The connection that was made first is read first.
LEMMA AcceptStep ==
  ASSUME RequestInvariant, NEW p \in Process, Accept(p)
  PROVE  RequestInvariant'
<1> USE DEF RequestInvariant
<1> DEFINE old == backlog[p]
<1> DEFINE r == old[1]
<1>0. /\ backlog \in [Process -> Seq(Request)] /\ task \in [Process -> ServiceTask]
      /\ old \in Seq(Request) /\ old # <<>> /\ Head(old) = r
      /\ at[p] = "serving" /\ task[p].step = "idle"
  BY DEF RequestTypes, Accept
<1>1. /\ task' = [task EXCEPT ![p] = [step |-> "reading", request |-> r]]
      /\ backlog' = [backlog EXCEPT ![p] = Tail(old)]
      /\ UNCHANGED <<at, listening, overlapped, calls, caller, sent, done>>
  BY <1>0 DEF Accept, controlVars
<1>2. /\ Tail(old) \in Seq(Request) /\ Len(old) \in Nat \ {0} /\ Len(Tail(old)) = Len(old) - 1
      /\ \A n \in 1..Len(Tail(old)) : Tail(old)[n] = old[n + 1]
  BY <1>0, HeadTailProperties, EmptySeq
<1>3. /\ 1 \in Queue(p) /\ \A n \in Queue(p)' : n + 1 \in Queue(p) /\ 1 < n + 1
      /\ \A n \in Queue(p)' : backlog'[p][n] = backlog[p][n + 1]
      /\ \A n, m \in Queue(p)' : n < m => n + 1 < m + 1
  BY <1>0, <1>1, <1>2 DEF Queue
<1>4. /\ r \in Request /\ r.nth <= calls /\ Unhandled(p, r) /\ r = backlog[p][1]
  <2>1. backlog[p][1] \in Request
    BY <1>3, OnTheWay
  <2> QED BY <1>3, <2>1 DEF Ordered, Unhandled
<1>5. /\ task'[p].step = "reading" /\ task'[p].request = r
      /\ \A q \in Process \ {p} : task'[q] = task[q] /\ backlog'[q] = backlog[q] /\ Queue(q)' = Queue(q)
  BY <1>0, <1>1 DEF Queue
<1>6. RequestTypes'
  <2>1. [step |-> "reading", request |-> r] \in ServiceTask
    BY <1>4 DEF ServiceTask, TaskStep
  <2> QED BY <1>0, <1>1, <1>2, <2>1 DEF RequestTypes
<1>7. Carried'
  BY <1>1, <1>4, <1>5 DEF Carried
<1>8. \A q \in Process : Ordered(q)'
  <2> TAKE q \in Process
  <2>0. Ordered(q) /\ done' = done /\ calls' = calls /\ overlapped' = overlapped
    BY <1>1
  <2>1. CASE q # p
    BY <1>5, <2>0, <2>1 DEF Ordered, Unhandled
  <2>2. CASE q = p
    <3>1. \A n, m \in Queue(p)' : n < m => Earlier(backlog'[p][n], backlog'[p][m])
      BY <1>3, <2>0, <2>2 DEF Ordered
    <3>2. \A n \in Queue(p)' : Unhandled(p, backlog'[p][n]) /\ Earlier(r, backlog'[p][n])
      BY <1>3, <1>4, <2>0, <2>2 DEF Ordered
    <3> QED BY <1>4, <1>5, <2>0, <2>2, <3>1, <3>2 DEF Ordered, Unhandled, Earlier
  <2> QED BY <2>1, <2>2
<1>9. \A u \in Operator : Newest(u)' /\ \A q \in Process : done'[q][u] <= calls'
  <2> TAKE u \in Operator
  <2>0. Newest(u) /\ done' = done /\ calls' = calls /\ caller' = caller
        /\ \A q \in Process : done'[q][u] <= calls'
    BY <1>1
  <2>1. ASSUME caller[u].stage = "connecting", NEW q \in Process
        PROVE  /\ \A n \in Queue(q)' : Earlier(backlog'[q][n], caller[u].request)
               /\ task'[q].step # "idle" => Earlier(task'[q].request, caller[u].request)
    <3>1. CASE q # p
      BY <1>5, <2>0, <2>1, <3>1 DEF Newest
    <3>2. CASE q = p
      BY <1>3, <1>4, <1>5, <2>0, <2>1, <3>2 DEF Newest
    <3> QED BY <3>1, <3>2
  <2> QED BY <2>0, <2>1 DEF Newest, Earlier
<1> QED BY <1>6, <1>7, <1>8, <1>9

\* A request is taken as it was sent, or answered at once.
LEMMA ReadRequestStep ==
  ASSUME RequestInvariant, NEW p \in Process, ReadRequest(p)
  PROVE  RequestInvariant'
<1> USE DEF RequestInvariant
<1>0. /\ backlog \in [Process -> Seq(Request)] /\ task \in [Process -> ServiceTask]
      /\ caller \in [Operator -> CallRecord] /\ sent \in SUBSET Request
      /\ \A q \in Process : /\ task[q] # Resting => at[q] = "serving"
                            /\ backlog[q] # <<>> => q \in listening
  BY DEF RequestTypes
<1>1. CASE task[p].request.token # p
  <2>1. /\ task' = [task EXCEPT ![p] = Resting] /\ Hear(task[p].request)
        /\ sent' = sent \ {task[p].request}
        /\ UNCHANGED <<at, listening, overlapped, calls, backlog, done>>
    BY <1>1 DEF ReadRequest, controlVars
  <2>2. Keeping
    BY <1>0, <2>1, HearTypes DEF Keeping
  <2> QED BY <2>2, KeepingStep
<1>2. CASE task[p].request.token = p
  <2>1. /\ task' = [task EXCEPT ![p] = [task[p] EXCEPT !.step = "handling"]]
        /\ task[p].step = "reading" /\ at[p] = "serving" /\ sent' = sent \ {task[p].request}
        /\ UNCHANGED <<at, listening, overlapped, calls, caller, backlog, done>>
    BY <1>0, <1>2 DEF ReadRequest, controlVars
  <2>2. /\ task'[p].step = "handling" /\ task'[p].request = task[p].request
        /\ task'[p] \in ServiceTask /\ \A q \in Process \ {p} : task'[q] = task[q]
    <3>1. task[p] \in ServiceTask
      BY <1>0
    <3>2. [task[p] EXCEPT !.step = "handling"] \in ServiceTask
      BY <3>1 DEF ServiceTask, TaskStep
    <3> QED BY <1>0, <2>1, <3>1, <3>2 DEF ServiceTask
  <2>3. RequestTypes'
    BY <1>0, <2>1, <2>2 DEF RequestTypes
  <2>4. Carried'
    BY <2>1, <2>2 DEF Carried
  <2>5. \A q \in Process : Ordered(q)'
    <3> TAKE q \in Process
    <3>1. Ordered(q) /\ backlog' = backlog /\ done' = done /\ calls' = calls /\ overlapped' = overlapped
      BY <2>1
    <3>2. CASE q = p
      <4>1. /\ task'[q].request = task[q].request
            /\ task[q].step = "reading" /\ task'[q].step = "handling"
        BY <2>1, <2>2, <3>2
      <4> QED BY <3>1, <4>1 DEF Ordered, Queue, Unhandled
    <3>3. CASE q # p
      <4>1. task'[q] = task[q]
        BY <2>2, <3>3
      <4> QED BY <3>1, <4>1 DEF Ordered, Queue, Unhandled
    <3> QED BY <3>2, <3>3
  <2>6. \A u \in Operator : Newest(u)' /\ \A q \in Process : done'[q][u] <= calls'
    <3> TAKE u \in Operator
    <3>1. \A q \in Process : /\ task'[q].request = task[q].request
                             /\ task'[q].step # "idle" => task[q].step # "idle"
      BY <2>1, <2>2
    <3> QED BY <2>1, <3>1 DEF Newest, Queue
  <2> QED BY <2>3, <2>4, <2>5, <2>6
<1> QED BY <1>1, <1>2

\* The request that is handled is earlier than all others of its operator.
LEMMA HandleStep ==
  ASSUME ControlInvariant, RequestInvariant, NEW p \in Process, Handle(p)
  PROVE  RequestInvariant'
<1> USE DEF RequestInvariant
<1> DEFINE r == task[p].request
<1>0. /\ task \in [Process -> ServiceTask] /\ done \in [Process -> [Operator -> 0..MaxCalls]]
      /\ at[p] = "serving" /\ task[p].step = "handling"
  BY DEF RequestTypes, Handle
<1>1. /\ r \in Request /\ r.by \in Operator /\ r.nth \in 0..MaxCalls /\ r.nth <= calls
      /\ calls \in Nat
  BY <1>0, OnTheWay DEF Request, Ordered
<1>2. /\ task' = [task EXCEPT ![p] = [task[p] EXCEPT !.step = "answering"]]
      /\ done' = [done EXCEPT ![p] = [done[p] EXCEPT ![r.by] = r.nth]]
      /\ UNCHANGED <<at, listening, overlapped, calls, caller, backlog, sent>>
  BY <1>0 DEF Handle, AppendLine, controlVars
<1>3. /\ task'[p].step = "answering" /\ task'[p].request = r /\ task'[p] \in ServiceTask
      /\ \A q \in Process \ {p} : task'[q] = task[q]
      /\ done'[p][r.by] = r.nth /\ \A u \in Operator \ {r.by} : done'[p][u] = done[p][u]
      /\ \A q \in Process \ {p} : done'[q] = done[q]
  <2>1. task[p] \in ServiceTask
    BY <1>0
  <2>2. [task[p] EXCEPT !.step = "answering"] \in ServiceTask
    BY <2>1 DEF ServiceTask, TaskStep
  <2> QED BY <1>0, <1>1, <1>2, <2>1, <2>2 DEF ServiceTask
<1>4. RequestTypes'
  BY <1>0, <1>1, <1>2, <1>3 DEF RequestTypes
<1>5. Carried'
  BY <1>1, <1>2, <1>3 DEF Carried
<1>6. \A s \in Request : Unhandled(p, s) /\ Earlier(r, s) => Unhandled(p, s)'
  <2> SUFFICES ASSUME NEW s \in Request, Unhandled(p, s), Earlier(r, s),
                      NEW q \in Process, q = p \/ ~overlapped
               PROVE  s.nth <= calls' /\ done'[q][s.by] < s.nth
    BY <1>2 DEF Unhandled
  <2>1. s.by \in Operator /\ done[q][s.by] < s.nth /\ s.nth <= calls
    BY DEF Unhandled, Request
  <2>2. CASE q = p /\ s.by = r.by
    BY <1>2, <1>3, <2>1, <2>2 DEF Earlier
  <2>3. CASE ~(q = p /\ s.by = r.by)
    BY <1>2, <1>3, <2>1, <2>3
  <2> QED BY <2>2, <2>3
<1>7. \A q \in Process : Ordered(q)'
  <2> TAKE q \in Process
  <2>0. Ordered(q) /\ backlog' = backlog /\ calls' = calls /\ Queue(q)' = Queue(q)
    BY <1>2 DEF Queue
  <2>1. CASE q = p
    <3>1. \A n \in Queue(p) : Unhandled(p, backlog[p][n])'
      BY <1>0, <1>6, <2>0, <2>1, OnTheWay DEF Ordered
    <3> QED BY <1>0, <1>1, <1>3, <2>0, <2>1, <3>1 DEF Ordered
  <2>2. CASE q # p /\ ~overlapped
    <3>1. task[q].step = "idle" /\ Queue(q) = {}
      BY <1>0, <2>2, OneIsCalled DEF Resting
    <3> QED BY <1>3, <2>0, <2>2, <3>1 DEF Ordered
  <2>3. CASE q # p /\ overlapped
    <3>1. \A s : Unhandled(q, s) => Unhandled(q, s)'
      BY <1>2, <1>3, <2>3 DEF Unhandled
    <3> QED BY <1>3, <2>0, <2>3, <3>1 DEF Ordered
  <2> QED BY <2>1, <2>2, <2>3
<1>8. \A u \in Operator : Newest(u)' /\ \A q \in Process : done'[q][u] <= calls'
  <2> TAKE u \in Operator
  <2>0. backlog' = backlog /\ calls' = calls /\ caller' = caller /\ Newest(u)
    BY <1>2
  <2>1. \A q \in Process : done'[q][u] <= calls'
    BY <1>1, <1>2, <1>3, OnTheWay
  <2>2. \A q \in Process : task'[q].request = task[q].request
                           /\ (task'[q].step # "idle" => task[q].step # "idle")
    BY <1>0, <1>3
  <2>3. ASSUME caller[u].stage = "connecting", NEW q \in Process
        PROVE  done'[q][u] < caller[u].request.nth
    <3>1. Earlier(r, caller[u].request) /\ done[q][u] < caller[u].request.nth
          /\ caller[u].request.by = u
      BY <1>0, <2>0, <2>3, OnTheWay DEF Newest
    <3>2. CASE q = p /\ r.by = u
      BY <1>3, <3>1, <3>2 DEF Earlier
    <3>3. CASE ~(q = p /\ r.by = u)
      BY <1>3, <3>1, <3>3
    <3> QED BY <3>2, <3>3
  <2> QED BY <2>0, <2>1, <2>2, <2>3 DEF Newest, Queue
<1> QED BY <1>4, <1>5, <1>7, <1>8

-----------------------------------------------------------------------------
(* Requests: what holds for every instance *)

\* Every step of callers and services keeps the invariant.
LEMMA RequestStep ==
  ASSUME ControlInvariant, RequestInvariant, [RequestNext]_serviceVars
  PROVE  RequestInvariant'
<1>1. ASSUME NEW o \in Operator, NEW action \in Action, ReadEndpoint(o, action)
      PROVE  RequestInvariant'
  BY <1>1, ReadEndpointStep DEF ControlInvariant
<1>2. ASSUME NEW o \in Operator, NEW p \in Process, Connect(o, p)
      PROVE  RequestInvariant'
  BY <1>2, ConnectStep
<1>3. ASSUME NEW o \in Operator, Send(o) \/ GiveUp(o)
      PROVE  RequestInvariant'
  BY <1>3, LetGoKeeps, KeepingStep
<1>4. ASSUME NEW p \in Process, Claim(p)
      PROVE  RequestInvariant'
  BY <1>4, ClaimKeeps, KeepingStep
<1>5. ASSUME NEW p \in Process, Serve(p)
      PROVE  RequestInvariant'
  BY <1>5, AcceptStep, ReadRequestStep, HandleStep, LetGoKeeps, KeepingStep DEF Serve
<1>6. ASSUME NEW p \in Process, Leave(p) \/ Withdraw(p) \/ Killed(p)
      PROVE  RequestInvariant'
  BY <1>6, LetGoKeeps, KeepingStep
<1>7. CASE UNCHANGED serviceVars \/ (PortChanges /\ UNCHANGED requestVars)
  BY <1>7, LetGoKeeps, KeepingStep
<1> QED BY <1>1, <1>2, <1>3, <1>4, <1>5, <1>6, <1>7 DEF RequestNext

(***************************************************************************)
(* The invariant the others follow from.  It is needed to say where else a *)
(* request of the operator may be: in the backlog of a process, in the     *)
(* hands of its task, or with a caller about to connect.                   *)
(***************************************************************************)
THEOREM RequestInvariantHolds == RequestSpec => []RequestInvariant
<1>1. RequestInit => RequestInvariant
  BY RequestInitially
<1>2. ControlInvariant /\ RequestInvariant /\ [RequestNext]_serviceVars => RequestInvariant'
  BY RequestStep
<1>3. RequestSpec => []ControlInvariant
  BY RequestsImplementControl, ControlInvariantHolds, PTL
<1> QED BY <1>1, <1>2, <1>3, PTL DEF RequestSpec

(***************************************************************************)
(* The commands of one operator take effect once each and in the order of  *)
(* its calls, whoever gave up waiting for which (request_at_path,          *)
(* ControlServer::accept), for any number of operators and processes: at   *)
(* each process, and until starts have overlapped at all of them together. *)
(***************************************************************************)
THEOREM OrderIsKept == RequestSpec => []CommandsInOrder
<1>1. RequestInvariant => CommandsInOrder
  BY DEF RequestInvariant, Ordered, Unhandled, CommandsInOrder
<1> QED BY <1>1, RequestInvariantHolds, PTL

\* Every variable has its type; only a process that serves has a task.
THEOREM RequestTyped == RequestSpec => []RequestTypeOK
<1>1. ControlInvariant /\ RequestInvariant => RequestTypeOK
  BY DEF ControlInvariant, RequestInvariant, RequestTypes, RequestTypeOK, CallRecord, ServiceTask
<1>2. RequestSpec => []ControlInvariant
  BY RequestsImplementControl, ControlInvariantHolds, PTL
<1> QED BY <1>1, <1>2, RequestInvariantHolds, PTL

\* With its requests, a name still has one owner until starts have overlapped
\* (clear_stale_control).
THEOREM OneOwnerServes == RequestSpec => []OneOwnerUnlessOverlapped
BY RequestsImplementControl, OneOwnerHolds, PTL

\* Rotations that were requested and acknowledged stay in the journal until
\* starts have overlapped (append_event, open_private_journal).
THEOREM RequestedLinesSurvive == RequestSpec => []LinesSurviveUnlessOverlapped
BY RequestsImplementControl, LinesSurvive, PTL

\* A service that left its control file behind does not lock its name, as long
\* as no stranger has its port (endpoint_is_listening).
THEOREM NameStaysFree == RequestSpec => RefusedOnlyByAnother
BY RequestsImplementControl, NameIsNeverLocked, PTL
=============================================================================
