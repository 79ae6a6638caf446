-------------------------- MODULE CommitteeProofs --------------------------
(***************************************************************************)
(* Proofs about Committee for any number of requests, sweeps and breaks:   *)
(* type correctness, that the monitoring engine follows the committee      *)
(* (EngineFollows), and that an emergency stop survives whatever does not  *)
(* overlap it (StopSurvives).                                              *)
(***************************************************************************)
EXTENDS Committee, TLAPS

Written(o) == pc[o] \in {"written", "breakWritten", "backWritten"}
Checked(o) == pc[o] \in {"checked", "backChecked"}

\* While nothing has disturbed the committee, one status change at most is
\* between its UPDATE and its signal, and it is the one that set the status.
OneWritten ==
  ~ disturbed => \A o \in Writers : Written(o) =>
    goal[o] = status /\ \A p \in Writers \ {o} : ~ Written(p)

\* Nobody holds an outdated leave to make a stopped committee active.
NoLeaveWhenStopped ==
  ~ disturbed /\ status = "emergency_stopped" => \A o \in Writers : ~ Checked(o)

\* The engine of a delegate that is logged in is in step with the committee,
\* unless a signal is on its way.
EngineInStep ==
  ~ disturbed /\ link # "out" =>
    /\ engine # "off"
    /\ (\E o \in Writers : Written(o)) \/ (engine = "running" <=> status = "active")

IInv == TypeOK /\ OneWritten /\ NoLeaveWhenStopped /\ EngineInStep

-----------------------------------------------------------------------------
(***************************************************************************)
(* Types.                                                                  *)
(***************************************************************************)

PCs == {"idle", "checked", "written", "starting", "breakWritten", "ending",
        "backChecked", "backWritten"}

LEMMA StepType ==
  ASSUME pc \in [Writers -> PCs], NEW o \in Writers, NEW from, NEW to \in PCs,
         Step(o, from, to)
  PROVE  pc' \in [Writers -> PCs]
BY DEF Step

LEMMA WriteType ==
  ASSUME TypeOK, NEW o \in Writers, NEW from, NEW to \in PCs, NEW s \in Statuses,
         Write(o, from, to, s)
  PROVE  /\ pc' \in [Writers -> PCs]
         /\ status' \in Statuses
         /\ goal' \in [Writers -> Statuses]
         /\ disturbed' \in BOOLEAN
<1>1. pc' \in [Writers -> PCs]
  BY StepType DEF Write, TypeOK, PCs
<1>2. disturbed' \in BOOLEAN
  BY DEF Write
<1> QED
  BY <1>1, <1>2 DEF Write, TypeOK

LEMMA SignalType ==
  ASSUME TypeOK, NEW o \in Writers, Signal(o)
  PROVE  /\ link' \in {"out", "joining", "in"}
         /\ engine' \in {"off", "running", "paused"}
         /\ disturbed' \in BOOLEAN
<1>1. CASE UNCHANGED <<link, disturbed>> /\ engine' = EngineAfter(goal[o])
  BY <1>1 DEF TypeOK, EngineAfter
<1>2. CASE UNCHANGED engine /\ link' = (IF link = "in" THEN "joining" ELSE link)
           /\ disturbed' = (disturbed \/ link # "out")
  BY <1>2 DEF TypeOK
<1> QED
  BY <1>1, <1>2 DEF Signal

\* The rows of scheduled_breaks keep their type when the rows B are marked.
LEMMA MarkedType ==
  ASSUME NEW S, breaks \in [Breaks -> S], NEW B, NEW s \in S
  PROVE  Marked(B, s) \in [Breaks -> S]
BY DEF Marked

LEMMA SweepTypeStep ==
  ASSUME TypeOK, NEW w \in Sweeps, SweepStep(w) \/ FailSweep(w)
  PROVE  TypeOK'
<1> w \in Writers
  BY DEF Writers
<1> DEFINE Rows == {"none", "scheduled", "active", "ended", "cancelled"}
           Done(f) == {b \in Breaks : f[b] \in {"active", "ended", "cancelled"}}
<1>1. CASE MarkStarted(w)
  <2> DEFINE due == {b \in Breaks : breaks[b] = "scheduled" /\ phase[b] # "before"}
  <2>1. breaks' = Marked(due, "active") /\ todo' = [todo EXCEPT ![w] = due]
    BY <1>1 DEF MarkStarted
  <2>2. breaks' \in [Breaks -> Rows]
    BY <2>1, MarkedType DEF TypeOK
  <2>3. Done(breaks) \subseteq Done(breaks') /\ due \subseteq Done(breaks')
    BY <2>1 DEF Marked, TypeOK
  <2>4. todo' \in [Sweeps -> SUBSET Done(breaks')]
    BY <2>1, <2>3 DEF TypeOK
  <2>5. pc' \in [Writers -> PCs]
    BY <1>1, StepType DEF MarkStarted, TypeOK, PCs
  <2> QED
    BY <1>1, <2>2, <2>4, <2>5 DEF MarkStarted, TypeOK, client, PCs
<1>2. CASE MarkEnded(w)
  <2>1. breaks' = Marked(Over(w), "ended") /\ todo' = [todo EXCEPT ![w] = Over(w)]
    BY <1>2 DEF MarkEnded
  <2>2. breaks' \in [Breaks -> Rows]
    BY <2>1, MarkedType DEF TypeOK
  <2>3. Done(breaks) \subseteq Done(breaks') /\ Over(w) \subseteq Done(breaks')
    BY <2>1 DEF Marked, TypeOK, Over
  <2>4. todo' \in [Sweeps -> SUBSET Done(breaks')]
    BY <2>1, <2>3 DEF TypeOK
  <2>5. pc' \in [Writers -> PCs]
    BY <1>2, StepType DEF MarkEnded, TypeOK, PCs
  <2> QED
    BY <1>2, <2>2, <2>4, <2>5 DEF MarkEnded, TypeOK, client, PCs
<1>3. ASSUME NEW b \in Breaks, StartBreak(w, b)
      PROVE  TypeOK'
  BY <1>3, WriteType DEF StartBreak, Take, TypeOK, client, PCs, Statuses
<1>4. ASSUME NEW b \in Breaks, CheckBack(w, b)
      PROVE  TypeOK'
  BY <1>4 DEF CheckBack, Step, Take, TypeOK, client
<1>5. CASE BackToActive(w)
  BY <1>5, WriteType DEF BackToActive, TypeOK, client, sweep, PCs, Statuses
<1>6. CASE SignalStart(w)
  BY <1>6, SignalType DEF SignalStart, Step, TypeOK, sweep
<1>7. CASE SignalBack(w)
  BY <1>7, SignalType DEF SignalBack, Step, TypeOK, sweep
<1>8. CASE EndSweep(w)
  BY <1>8 DEF EndSweep, Step, TypeOK, sweep, client
<1>9. CASE FailSweep(w)
  BY <1>9 DEF FailSweep, TypeOK, client
<1> QED
  BY <1>1, <1>2, <1>3, <1>4, <1>5, <1>6, <1>7, <1>8, <1>9 DEF SweepStep

LEMMA TypeStep ==
  TypeOK /\ [Next]_vars => TypeOK'
<1> SUFFICES ASSUME TypeOK, [Next]_vars
             PROVE  TypeOK'
  OBVIOUS
<1>1. ASSUME NEW o \in Requests, Pause(o) \/ EmergencyStop(o) \/ EmergencyResume(o)
      PROVE  TypeOK'
  <2>1. PICK s \in Statuses : ChangeStatus(o, s)
    BY <1>1 DEF Pause, EmergencyStop, EmergencyResume, Statuses
  <2> QED
    BY <2>1, WriteType DEF ChangeStatus, TypeOK, client, sweep, PCs, Writers
<1>2. ASSUME NEW o \in Requests, CheckResume(o)
      PROVE  TypeOK'
  BY <1>2 DEF CheckResume, Step, TypeOK, client, sweep
<1>3. ASSUME NEW o \in Requests, Resume(o)
      PROVE  TypeOK'
  BY <1>3, WriteType DEF Resume, TypeOK, client, sweep, PCs, Writers, Statuses
<1>4. ASSUME NEW o \in Requests, SignalRequest(o)
      PROVE  TypeOK'
  BY <1>4, SignalType DEF SignalRequest, Step, TypeOK, sweep, Writers
<1>5. ASSUME NEW o \in Requests, FailRequest(o)
      PROVE  TypeOK'
  BY <1>5 DEF FailRequest, TypeOK, client, sweep
<1>6. ASSUME NEW b \in Breaks, ScheduleBreak(b) \/ CancelBreak(b)
      PROVE  TypeOK'
  <2>1. {c \in Breaks : breaks[c] \in {"active", "ended", "cancelled"}}
          \subseteq {c \in Breaks : breaks'[c] \in {"active", "ended", "cancelled"}}
    BY <1>6 DEF ScheduleBreak, CancelBreak, TypeOK
  <2> QED
    BY <1>6, <2>1 DEF ScheduleBreak, CancelBreak, TypeOK, client, sweep
<1>7. ASSUME NEW b \in Breaks, Tick(b)
      PROVE  TypeOK'
  BY <1>7 DEF Tick, TypeOK, client, sweep, Phases
<1>8. CASE Client
  BY <1>8 DEF Client, Login, Wake, WakeRefused, Hello, Drop, Logout, Started, TypeOK,
              server, client
<1>9. CASE UNCHANGED vars
  BY <1>9 DEF vars, TypeOK
<1> QED
  BY <1>1, <1>2, <1>3, <1>4, <1>5, <1>6, <1>7, <1>8, <1>9, SweepTypeStep DEF Next

LEMMA InitType == Init => TypeOK
<1> SUFFICES ASSUME Init
             PROVE  TypeOK
  OBVIOUS
<1>1. phase \in [Breaks -> Phases]
  BY DEF Init, Phases
<1>2. now \in [Sweeps -> [Breaks -> Phases]]
  BY <1>1 DEF Init
<1>3. todo \in [Sweeps -> SUBSET {b \in Breaks : breaks[b] \in {"active", "ended", "cancelled"}}]
  BY DEF Init
<1>4. pc \in [Writers -> PCs] /\ goal \in [Writers -> Statuses]
  BY DEF Init, PCs, Statuses
<1> QED
  BY <1>1, <1>2, <1>3, <1>4 DEF Init, TypeOK, Statuses, PCs

\* Every variable of the committee keeps its type.
THEOREM TypeCorrect == Spec => []TypeOK
BY InitType, TypeStep, PTL DEF Spec

-----------------------------------------------------------------------------
(***************************************************************************)
(* The invariant.  What a step means to it depends only on how the step    *)
(* moves one writer, so there are five kinds of step.                      *)
(***************************************************************************)

WrittenPCs == {"written", "breakWritten", "backWritten"}
CheckedPCs == {"checked", "backChecked"}

\* A writer sets the status.
Writes(o) ==
  /\ \E from \in PCs \ WrittenPCs, to \in WrittenPCs, s \in Statuses : Write(o, from, to, s)
  /\ UNCHANGED client

\* A writer sends the signal of the status it has set.
Signals(o) ==
  /\ \E from \in WrittenPCs, to \in {"idle", "starting", "ending"} : Step(o, from, to)
  /\ Signal(o)
  /\ UNCHANGED <<status, goal>>

\* A writer goes on and, if it gets leave to make the committee active, the
\* committee is not stopped.
Moves(o) ==
  /\ \E from \in PCs \ WrittenPCs, to \in PCs \ WrittenPCs :
       Step(o, from, to) /\ (to \in CheckedPCs => status # "emergency_stopped")
  /\ UNCHANGED <<status, goal, client, disturbed>>

\* A writer gives up.
Fails(o) ==
  /\ pc' = [pc EXCEPT ![o] = "idle"]
  /\ disturbed' = TRUE \/ (disturbed' = disturbed /\ ~ Written(o))
  /\ UNCHANGED <<status, goal, client>>

\* No writer moves, and the client only in its own steps.
Keeps ==
  /\ UNCHANGED <<status, pc, goal>>
  /\ disturbed' = disturbed \/ disturbed' = TRUE
  /\ Client \/ UNCHANGED client

LEMMA RequestKind ==
  ASSUME TypeOK, NEW o \in Requests,
         \/ Pause(o) \/ EmergencyStop(o) \/ EmergencyResume(o)
         \/ CheckResume(o) \/ Resume(o) \/ SignalRequest(o) \/ FailRequest(o)
  PROVE  Writes(o) \/ Signals(o) \/ Moves(o) \/ Fails(o)
<1>1. ASSUME NEW s \in Statuses, ChangeStatus(o, s)
      PROVE  Writes(o)
  BY <1>1 DEF ChangeStatus, Writes, PCs, WrittenPCs
<1>2. CASE CheckResume(o)
  BY <1>2 DEF CheckResume, Moves, PCs, WrittenPCs, CheckedPCs
<1>3. CASE Resume(o)
  BY <1>3 DEF Resume, Writes, PCs, WrittenPCs, Statuses
<1>4. CASE SignalRequest(o)
  BY <1>4 DEF SignalRequest, Signals, WrittenPCs
<1>5. CASE FailRequest(o)
  BY <1>5 DEF FailRequest, Fails, Written, TypeOK
<1> QED
  BY <1>1, <1>2, <1>3, <1>4, <1>5 DEF Pause, EmergencyStop, EmergencyResume, Statuses

LEMMA SweepKind ==
  ASSUME TypeOK, NEW w \in Sweeps, SweepStep(w) \/ FailSweep(w)
  PROVE  Writes(w) \/ Signals(w) \/ Moves(w) \/ Fails(w)
<1>1. ASSUME MarkStarted(w) \/ MarkEnded(w) \/ EndSweep(w)
      PROVE  Moves(w)
  BY <1>1 DEF MarkStarted, MarkEnded, EndSweep, Moves, PCs, WrittenPCs, CheckedPCs
<1>2. ASSUME SignalStart(w) \/ SignalBack(w)
      PROVE  Signals(w)
  BY <1>2 DEF SignalStart, SignalBack, Signals, WrittenPCs
<1>3. ASSUME NEW b \in Breaks, StartBreak(w, b)
      PROVE  Writes(w)
  BY <1>3 DEF StartBreak, Writes, PCs, WrittenPCs, Statuses
<1>4. ASSUME NEW b \in Breaks, CheckBack(w, b)
      PROVE  Moves(w)
  BY <1>4 DEF CheckBack, Moves, PCs, WrittenPCs, CheckedPCs
<1>5. ASSUME BackToActive(w)
      PROVE  Writes(w)
  BY <1>5 DEF BackToActive, Writes, PCs, WrittenPCs, Statuses
<1>6. ASSUME FailSweep(w)
      PROVE  Fails(w)
  BY <1>6 DEF FailSweep, Fails, Written, InFlight, TypeOK
<1> QED
  BY <1>1, <1>2, <1>3, <1>4, <1>5, <1>6 DEF SweepStep

\* Every step is of one of the five kinds.
LEMMA StepKind ==
  ASSUME TypeOK, [Next]_vars
  PROVE  Keeps \/ \E o \in Writers : Writes(o) \/ Signals(o) \/ Moves(o) \/ Fails(o)
<1>1. ASSUME NEW b \in Breaks, ScheduleBreak(b) \/ CancelBreak(b) \/ Tick(b)
      PROVE  Keeps
  BY <1>1 DEF ScheduleBreak, CancelBreak, Tick, Keeps, TypeOK
<1>2. CASE Client
  BY <1>2 DEF Client, Login, Wake, WakeRefused, Hello, Drop, Logout, Keeps, server, TypeOK
<1>3. CASE UNCHANGED vars
  BY <1>3 DEF vars, Keeps, client
<1> QED
  BY <1>1, <1>2, <1>3, RequestKind, SweepKind DEF Next, Writers

LEMMA WritesKeepIInv ==
  ASSUME IInv, NEW o \in Writers, Writes(o)
  PROVE  OneWritten' /\ NoLeaveWhenStopped' /\ EngineInStep'
<1>1. PICK from \in PCs \ WrittenPCs, to \in WrittenPCs, s \in Statuses : Write(o, from, to, s)
  BY DEF Writes
<1>2. pc' = [pc EXCEPT ![o] = to] /\ status' = s /\ goal' = [goal EXCEPT ![o] = s]
  BY <1>1 DEF Write, Step
<1>3. ~ disturbed' => ~ disturbed /\ \A p \in Writers \ {o} : ~ InFlight(p)
  BY <1>1 DEF Write, IInv, TypeOK
<1>4. OneWritten'
  BY <1>2, <1>3 DEF OneWritten, Written, InFlight, IInv, TypeOK
<1>5. NoLeaveWhenStopped'
  BY <1>2, <1>3 DEF NoLeaveWhenStopped, Checked, InFlight, WrittenPCs, IInv, TypeOK
<1>6. Written(o)'
  BY <1>2 DEF Written, WrittenPCs, IInv, TypeOK
<1>7. EngineInStep'
  BY <1>3, <1>6 DEF EngineInStep, Writes, client, IInv
<1> QED
  BY <1>4, <1>5, <1>7

LEMMA SignalsKeepIInv ==
  ASSUME IInv, NEW o \in Writers, Signals(o)
  PROVE  OneWritten' /\ NoLeaveWhenStopped' /\ EngineInStep'
<1>1. PICK from \in WrittenPCs, to \in {"idle", "starting", "ending"} : Step(o, from, to)
  BY DEF Signals
<1>2. pc' = [pc EXCEPT ![o] = to] /\ UNCHANGED <<status, goal>> /\ Written(o)
  BY <1>1 DEF Signals, Step, Written, WrittenPCs
<1>3. ~ disturbed' => ~ disturbed
  BY DEF Signals, Signal, IInv, TypeOK
<1>4. OneWritten'
  BY <1>2, <1>3 DEF OneWritten, Written, IInv, TypeOK
<1>5. NoLeaveWhenStopped'
  BY <1>2, <1>3 DEF NoLeaveWhenStopped, Checked, IInv, TypeOK
<1>6. ASSUME ~ disturbed', link' # "out"
      PROVE  engine' # "off" /\ (engine' = "running" <=> status' = "active")
  <2>1. link = "in" /\ engine' = EngineAfter(goal[o])
    BY <1>6 DEF Signals, Signal
  <2>2. goal[o] = status /\ engine # "off"
    BY <1>2, <1>3, <1>6, <2>1 DEF IInv, OneWritten, EngineInStep
  <2> QED
    BY <1>2, <2>1, <2>2 DEF EngineAfter, IInv, TypeOK
<1>7. EngineInStep'
  BY <1>6 DEF EngineInStep
<1> QED
  BY <1>4, <1>5, <1>7

LEMMA MovesKeepIInv ==
  ASSUME IInv, NEW o \in Writers, Moves(o)
  PROVE  OneWritten' /\ NoLeaveWhenStopped' /\ EngineInStep'
<1>1. PICK from \in PCs \ WrittenPCs, to \in PCs \ WrittenPCs :
        Step(o, from, to) /\ (to \in CheckedPCs => status # "emergency_stopped")
  BY DEF Moves
<1>2. pc' = [pc EXCEPT ![o] = to] /\ pc[o] = from
  BY <1>1 DEF Step
<1>3. \A p \in Writers : Written(p)' <=> Written(p)
  BY <1>2 DEF Written, WrittenPCs, IInv, TypeOK
<1>4. OneWritten'
  BY <1>3 DEF OneWritten, Moves, IInv
<1>5. NoLeaveWhenStopped'
  BY <1>1, <1>2 DEF NoLeaveWhenStopped, Checked, CheckedPCs, Moves, IInv, TypeOK
<1>6. EngineInStep'
  BY <1>3 DEF EngineInStep, Moves, client, IInv
<1> QED
  BY <1>4, <1>5, <1>6

LEMMA FailsKeepIInv ==
  ASSUME IInv, NEW o \in Writers, Fails(o)
  PROVE  OneWritten' /\ NoLeaveWhenStopped' /\ EngineInStep'
<1>1. CASE disturbed'
  BY <1>1 DEF OneWritten, NoLeaveWhenStopped, EngineInStep
<1>2. CASE ~ disturbed'
  <2>1. ~ disturbed /\ ~ Written(o)
    BY <1>2 DEF Fails
  <2>2. \A p \in Writers : (Written(p)' <=> Written(p)) /\ (Checked(p)' => Checked(p))
    BY <2>1 DEF Fails, Written, Checked, IInv, TypeOK
  <2> QED
    BY <2>1, <2>2 DEF OneWritten, NoLeaveWhenStopped, EngineInStep, Fails, client, IInv
<1> QED
  BY <1>1, <1>2

LEMMA KeepsKeepIInv ==
  ASSUME IInv, Keeps
  PROVE  OneWritten' /\ NoLeaveWhenStopped' /\ EngineInStep'
<1>1. \A p \in Writers : (Written(p)' <=> Written(p)) /\ (Checked(p)' <=> Checked(p))
  BY DEF Keeps, Written, Checked
<1>2. ~ disturbed' => ~ disturbed
  BY DEF Keeps, IInv, TypeOK
<1>3. OneWritten' /\ NoLeaveWhenStopped'
  BY <1>1, <1>2 DEF OneWritten, NoLeaveWhenStopped, Keeps, IInv
<1> SUFFICES EngineInStep'
  BY <1>3
<1>4. CASE Login
  <2>1. ~ disturbed' => status = "active" /\ engine = "off" /\ engine' = "running"
    BY <1>4 DEF Login, Started, IInv, TypeOK
  <2> QED
    BY <2>1, <1>4 DEF EngineInStep, Keeps
<1>5. CASE Wake
  BY <1>1, <1>2, <1>5 DEF Wake, Started, EngineInStep, Keeps, IInv
<1>6. CASE WakeRefused \/ Logout
  BY <1>6 DEF WakeRefused, Logout, EngineInStep
<1>7. CASE Hello \/ Drop
  BY <1>1, <1>2, <1>7 DEF Hello, Drop, EngineInStep, Keeps, IInv
<1>8. CASE UNCHANGED client
  BY <1>1, <1>2, <1>8 DEF client, EngineInStep, Keeps, IInv
<1> QED
  BY <1>4, <1>5, <1>6, <1>7, <1>8 DEF Keeps, Client

LEMMA IInvInit == Init => IInv
<1> SUFFICES ASSUME Init
             PROVE  IInv
  OBVIOUS
<1>1. \A o \in Writers : ~ Written(o) /\ ~ Checked(o)
  BY DEF Init, Written, Checked
<1> QED
  BY <1>1, InitType DEF IInv, OneWritten, NoLeaveWhenStopped, EngineInStep, Init

LEMMA IInvStep == IInv /\ [Next]_vars => IInv'
<1> SUFFICES ASSUME IInv, [Next]_vars
             PROVE  IInv'
  OBVIOUS
<1>1. TypeOK /\ TypeOK'
  BY TypeStep DEF IInv
<1> QED
  BY <1>1, StepKind, WritesKeepIInv, SignalsKeepIInv, MovesKeepIInv, FailsKeepIInv,
     KeepsKeepIInv DEF IInv

\* A client that logged in during debate and missed no signal monitors exactly
\* while the committee is active, for any number of requests and sweeps.
THEOREM EngineAlwaysFollows == Spec => []EngineFollows
<1>1. IInv => EngineFollows
  BY DEF IInv, EngineInStep, EngineFollows, Settled, InFlight, Written
<1> QED
  BY <1>1, IInvInit, IInvStep, PTL DEF Spec

LEMMA StopSurvivesStep ==
  IInv /\ [Next]_vars =>
    [status = "emergency_stopped" /\ status' = "active" /\ ~ disturbed'
       => \E o \in Requests : EmergencyResume(o)]_vars
<1> SUFFICES ASSUME IInv, Next,
                    status = "emergency_stopped", status' = "active", ~ disturbed'
             PROVE  \E o \in Requests : EmergencyResume(o)
  OBVIOUS
<1>1. ~ disturbed
  <2>1. TypeOK /\ [Next]_vars
    BY DEF IInv
  <2>2. CASE Keeps
    BY <2>2, <2>1 DEF Keeps, TypeOK
  <2>3. ASSUME NEW o \in Writers, Writes(o) \/ Signals(o) \/ Moves(o) \/ Fails(o)
        PROVE  ~ disturbed
    BY <2>3, <2>1 DEF Writes, Write, Signals, Signal, Moves, Fails, TypeOK
  <2> QED
    BY <2>1, <2>2, <2>3, StepKind
<1>2. \A o \in Writers : pc[o] # "checked" /\ pc[o] # "backChecked"
  BY <1>1 DEF IInv, NoLeaveWhenStopped, Checked
<1>3. ASSUME NEW o \in Requests,
             \/ Pause(o) \/ EmergencyStop(o) \/ CheckResume(o) \/ Resume(o)
             \/ SignalRequest(o) \/ FailRequest(o)
      PROVE  FALSE
  BY <1>3, <1>2 DEF Pause, EmergencyStop, ChangeStatus, Write, CheckResume, Resume,
                    SignalRequest, FailRequest, Step, Writers
<1>4. ASSUME NEW b \in Breaks, ScheduleBreak(b) \/ CancelBreak(b) \/ Tick(b)
      PROVE  FALSE
  BY <1>4 DEF ScheduleBreak, CancelBreak, Tick
<1>5. ASSUME NEW w \in Sweeps, SweepStep(w) \/ FailSweep(w)
      PROVE  FALSE
  BY <1>5, <1>2 DEF SweepStep, FailSweep, MarkStarted, StartBreak, SignalStart, MarkEnded,
                    CheckBack, BackToActive, SignalBack, EndSweep, Write, Step, Writers
<1>6. ASSUME Client
      PROVE  FALSE
  BY <1>6 DEF Client, Login, Wake, WakeRefused, Hello, Drop, Logout, server
<1> QED
  BY <1>3, <1>4, <1>5, <1>6 DEF Next

\* Only the admin's resume makes a stopped committee active, as long as status
\* changes do not overlap: a chair's resume and the end of a break respect the
\* stop.
THEOREM StopAlwaysSurvives == Spec => StopSurvives
BY IInvInit, IInvStep, StopSurvivesStep, PTL DEF Spec, StopSurvives
=============================================================================
