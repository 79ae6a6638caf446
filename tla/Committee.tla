----------------------------- MODULE Committee -----------------------------
(***************************************************************************)
(* The status of one committee: pause, resume, emergency stop and resume   *)
(* (committee/service.ts, admin/service.ts), the scheduler of its breaks   *)
(* (committee/breaks.ts), and the monitoring engine of one delegate's      *)
(* client, which follows the monitoring_paused and monitoring_resumed      *)
(* signals (apps/desktop/src/main/backend.ts, monitor/engine.ts).          *)
(*                                                                         *)
(* A status change is an UPDATE, then an audit entry and a                 *)
(* committee_state push, each behind an await, and only then the signal;   *)
(* requests and the scheduler's sweeps interleave at these awaits.         *)
(*                                                                         *)
(* disturbed is a history variable, which no action reads: it tells        *)
(* whether anything has happened that the signals alone cannot make up     *)
(* for.  An operator that nothing uses is a faulty variant of the one      *)
(* after it.                                                               *)
(***************************************************************************)
CONSTANTS
  Requests,   \* requests of the chair and the admin in flight at one time
  Sweeps,     \* sweeps of the scheduler under way at one time
  Breaks

ASSUME CommitteeConstants == Sweeps \cap Requests = {}

VARIABLES
  status,     \* committees.status
  breaks,     \* the status of each row of scheduled_breaks
  phase,      \* the time with respect to each break: "before", "during", "after"
  pc,         \* where each request and each sweep is
  goal,       \* the status each of them is about to write or has written
  todo,       \* the breaks each sweep has still to start or to end
  now,        \* phase when it began
  link,       \* the delegate's client: "out", "joining" or "in"
  engine,     \* its monitoring engine: "off", "running" or "paused"
  disturbed

vars == <<status, breaks, phase, pc, goal, todo, now, link, engine, disturbed>>
server == <<status, breaks, phase, pc, goal, todo, now>>
sweep == <<todo, now>>
client == <<link, engine>>

Writers == Requests \union Sweeps
Statuses == {"active", "paused", "break", "emergency_stopped"}
Phases == {"before", "during", "after"}

Init ==
  /\ status = "active"
  /\ breaks = [b \in Breaks |-> "none"]
  /\ phase = [b \in Breaks |-> "before"]
  /\ pc = [o \in Writers |-> "idle"]
  /\ goal = [o \in Writers |-> "active"]
  /\ todo = [w \in Sweeps |-> {}]
  /\ now = [w \in Sweeps |-> phase]
  /\ link = "out"
  /\ engine = "off"
  /\ disturbed = FALSE

\* Between the check or the UPDATE of a status change and its signal.
InFlight(o) == pc[o] \in {"checked", "written", "breakWritten", "backChecked", "backWritten"}

Step(o, from, to) == pc[o] = from /\ pc' = [pc EXCEPT ![o] = to]

\* setStatus and _setStatus up to the first await.
Write(o, from, to, s) ==
  /\ Step(o, from, to)
  /\ status' = s
  /\ goal' = [goal EXCEPT ![o] = s]
  /\ disturbed' = (disturbed \/ \E p \in Writers \ {o} : InFlight(p))

\* The end of setStatus and _setStatus: the signal of the status it wrote,
\* which stops or restarts the engine of a connected client, or is lost with
\* the socket.
EngineAfterPauseOnly(s) ==
  IF s = "active"
  THEN IF engine = "paused" THEN "running" ELSE engine
  ELSE IF engine = "running" /\ s = "paused" THEN "paused" ELSE engine

EngineAfter(s) ==
  IF s = "active"
  THEN IF engine = "paused" THEN "running" ELSE engine
  ELSE IF engine = "running" THEN "paused" ELSE engine

Signal(o) ==
  \/ /\ link = "in"
     /\ engine' = EngineAfter(goal[o])
     /\ UNCHANGED <<link, disturbed>>
  \/ /\ link' = IF link = "in" THEN "joining" ELSE link
     /\ disturbed' = (disturbed \/ link # "out")
     /\ UNCHANGED engine

-----------------------------------------------------------------------------
(***************************************************************************)
(* Requests.                                                               *)
(***************************************************************************)

ChangeStatus(o, s) ==
  /\ Write(o, "idle", "written", s)
  /\ UNCHANGED <<breaks, phase, sweep, client>>

Pause(o) == ChangeStatus(o, "paused")
EmergencyStop(o) == ChangeStatus(o, "emergency_stopped")
EmergencyResume(o) == ChangeStatus(o, "active")

\* resumeCommittee reads the status and, in a later statement, writes it.
CheckResumeAlways(o) ==
  /\ Step(o, "idle", "checked")
  /\ UNCHANGED <<status, breaks, phase, goal, sweep, client, disturbed>>

CheckResume(o) ==
  /\ status # "emergency_stopped"
  /\ Step(o, "idle", "checked")
  /\ UNCHANGED <<status, breaks, phase, goal, sweep, client, disturbed>>

Resume(o) ==
  /\ Write(o, "checked", "written", "active")
  /\ UNCHANGED <<breaks, phase, sweep, client>>

SignalRequest(o) ==
  /\ Step(o, "written", "idle")
  /\ Signal(o)
  /\ UNCHANGED <<status, breaks, phase, goal, sweep>>

FailRequest(o) ==
  /\ pc[o] \in {"checked", "written"}
  /\ pc' = [pc EXCEPT ![o] = "idle"]
  /\ disturbed' = (disturbed \/ pc[o] = "written")
  /\ UNCHANGED <<status, breaks, phase, goal, sweep, client>>

ScheduleBreak(b) ==
  /\ breaks[b] = "none"
  /\ breaks' = [breaks EXCEPT ![b] = "scheduled"]
  /\ UNCHANGED <<status, phase, pc, goal, sweep, client, disturbed>>

\* cancelBreak changes the row of the break and not the committee's status.
CancelBreak(b) ==
  /\ breaks[b] \in {"scheduled", "active"}
  /\ breaks' = [breaks EXCEPT ![b] = "cancelled"]
  /\ disturbed' = (disturbed \/ breaks[b] = "active")
  /\ UNCHANGED <<status, phase, pc, goal, sweep, client>>

Tick(b) ==
  /\ breaks[b] # "none"
  /\ phase[b] # "after"
  /\ phase' = [phase EXCEPT ![b] = IF @ = "before" THEN "during" ELSE "after"]
  /\ UNCHANGED <<status, breaks, pc, goal, sweep, client, disturbed>>

-----------------------------------------------------------------------------
(***************************************************************************)
(* A sweep: it first starts and then ends the breaks that are due.  The    *)
(* interval timer fires whether or not the last sweep is done.             *)
(***************************************************************************)

\* UPDATE scheduled_breaks SET status = s, for the breaks in B.
Marked(B, s) == [b \in Breaks |-> IF b \in B THEN s ELSE breaks[b]]

Take(w, b) == b \in todo[w] /\ todo' = [todo EXCEPT ![w] = @ \ {b}]

MarkStarted(w) ==
  LET due == {b \in Breaks : breaks[b] = "scheduled" /\ phase[b] # "before"}
  IN  /\ Step(w, "idle", "starting")
      /\ now' = [now EXCEPT ![w] = phase]
      /\ todo' = [todo EXCEPT ![w] = due]
      /\ breaks' = Marked(due, "active")
      /\ UNCHANGED <<status, phase, goal, client, disturbed>>

StartBreak(w, b) ==
  /\ Write(w, "starting", "breakWritten", "break")
  /\ Take(w, b)
  /\ UNCHANGED <<breaks, phase, now, client>>

SignalStart(w) ==
  /\ Step(w, "breakWritten", "starting")
  /\ Signal(w)
  /\ UNCHANGED <<status, breaks, phase, goal, sweep>>

OverBetween(w) == {b \in Breaks : breaks[b] = "active" /\ now[w][b] = "during"}
Over(w) == {b \in Breaks : breaks[b] = "active" /\ now[w][b] = "after"}

MarkEnded(w) ==
  /\ todo[w] = {}
  /\ Step(w, "starting", "ending")
  /\ todo' = [todo EXCEPT ![w] = Over(w)]
  /\ breaks' = Marked(Over(w), "ended")
  /\ UNCHANGED <<status, phase, goal, now, client, disturbed>>

\* Only a committee that is still in its break is taken back.
CheckBackAlways(w, b) ==
  /\ Step(w, "ending", "backChecked")
  /\ Take(w, b)
  /\ UNCHANGED <<status, breaks, phase, goal, now, client, disturbed>>

CheckBackPaused(w, b) ==
  /\ Step(w, "ending", IF status = "paused" THEN "backChecked" ELSE "ending")
  /\ Take(w, b)
  /\ UNCHANGED <<status, breaks, phase, goal, now, client, disturbed>>

CheckBack(w, b) ==
  /\ Step(w, "ending", IF status = "break" THEN "backChecked" ELSE "ending")
  /\ Take(w, b)
  /\ UNCHANGED <<status, breaks, phase, goal, now, client, disturbed>>

BackToActive(w) ==
  /\ Write(w, "backChecked", "backWritten", "active")
  /\ UNCHANGED <<breaks, phase, sweep, client>>

SignalBack(w) ==
  /\ Step(w, "backWritten", "ending")
  /\ Signal(w)
  /\ UNCHANGED <<status, breaks, phase, goal, sweep>>

EndSweep(w) ==
  /\ todo[w] = {}
  /\ Step(w, "ending", "idle")
  /\ UNCHANGED <<status, breaks, phase, goal, sweep, client, disturbed>>

\* An await throws: the sweep gives up, its remaining breaks are forgotten.
FailSweep(w) ==
  /\ pc[w] # "idle"
  /\ ~ (pc[w] = "ending" /\ todo[w] = {})
  /\ pc' = [pc EXCEPT ![w] = "idle"]
  /\ todo' = [todo EXCEPT ![w] = {}]
  /\ disturbed' = (disturbed \/ todo[w] # {} \/ InFlight(w))
  /\ UNCHANGED <<status, breaks, phase, goal, now, client>>

SweepStep(w) ==
  \/ MarkStarted(w) \/ SignalStart(w) \/ MarkEnded(w)
  \/ BackToActive(w) \/ SignalBack(w) \/ EndSweep(w)
  \/ \E b \in Breaks : StartBreak(w, b) \/ CheckBack(w, b)

-----------------------------------------------------------------------------
(***************************************************************************)
(* The delegate's client.                                                  *)
(***************************************************************************)

\* engine.start does nothing to an engine that is on.
Started == IF engine = "off" THEN "running" ELSE engine

\* completeAuth: the engine starts if the committee was active at the login.
Login ==
  /\ link = "out"
  /\ link' = "joining"
  /\ engine' = IF status = "active" THEN Started ELSE engine
  /\ disturbed' = (disturbed \/ status # "active" \/ engine # "off"
                     \/ \E o \in Writers : InFlight(o))
  /\ UNCHANGED server

\* refreshSession, when the device wakes up, connects and starts the engine
\* whatever the status of the committee.
Wake ==
  /\ link # "out"
  /\ link' = "joining"
  /\ engine' = Started
  /\ UNCHANGED <<server, disturbed>>

\* The refresh fails, perhaps for want of a network: the login is forgotten,
\* but the engine goes on.
WakeRefused ==
  /\ link # "out"
  /\ link' = "out"
  /\ UNCHANGED <<server, engine, disturbed>>

\* The server handles hello; it tells the client nothing of monitoring.  A client
\* whose token is refused stays offline, with its engine as it was.
Hello ==
  /\ link = "joining"
  /\ link' = "in"
  /\ UNCHANGED <<server, engine, disturbed>>

\* The socket is lost; the client will connect again.
Drop ==
  /\ link = "in"
  /\ link' = "joining"
  /\ UNCHANGED <<server, engine, disturbed>>

\* The delegate logs out or is logged out.
Logout ==
  /\ link # "out"
  /\ link' = "out"
  /\ engine' = "off"
  /\ UNCHANGED <<server, disturbed>>

Client == Login \/ Wake \/ WakeRefused \/ Hello \/ Drop \/ Logout

-----------------------------------------------------------------------------
Next ==
  \/ \E o \in Requests :
       \/ Pause(o) \/ EmergencyStop(o) \/ EmergencyResume(o)
       \/ CheckResume(o) \/ Resume(o) \/ SignalRequest(o) \/ FailRequest(o)
  \/ \E b \in Breaks : ScheduleBreak(b) \/ CancelBreak(b) \/ Tick(b)
  \/ \E w \in Sweeps : SweepStep(w) \/ FailSweep(w)
  \/ Client

Spec == Init /\ [][Next]_vars

\* The clock advances, the scheduler's timer fires and Postgres answers; the
\* outages in which a sweep fails come to an end.
FairSpec ==
  /\ Spec
  /\ \A b \in Breaks : WF_vars(Tick(b))
  /\ \A w \in Sweeps : WF_vars(SweepStep(w)) /\ <>[][~ FailSweep(w)]_vars

-----------------------------------------------------------------------------
(***************************************************************************)
(* Properties                                                              *)
(***************************************************************************)

\* Every variable stays within its type; what a sweep has still to do is
\* marked in the table.
TypeOK ==
  /\ status \in Statuses
  /\ breaks \in [Breaks -> {"none", "scheduled", "active", "ended", "cancelled"}]
  /\ phase \in [Breaks -> Phases]
  /\ pc \in [Writers -> {"idle", "checked", "written", "starting", "breakWritten", "ending",
                         "backChecked", "backWritten"}]
  /\ goal \in [Writers -> Statuses]
  /\ todo \in [Sweeps -> SUBSET {b \in Breaks : breaks[b] \in {"active", "ended", "cancelled"}}]
  /\ now \in [Sweeps -> [Breaks -> Phases]]
  /\ link \in {"out", "joining", "in"}
  /\ engine \in {"off", "running", "paused"}
  /\ disturbed \in BOOLEAN

Settled == \A o \in Writers : ~ InFlight(o)

\* Pausing, resuming, stops and breaks stop and restart the engine: a client
\* that logged in during debate and missed no signal monitors exactly while
\* the committee is active, whenever no status change is on its way.
EngineFollows ==
  ~ disturbed /\ Settled /\ link = "in" => (engine = "running" <=> status = "active")

\* As long as status changes do not overlap, nothing but the admin's resume
\* makes a stopped committee active: not the chair's resume, and not the end
\* of a break that began before the stop.
StopSurvives ==
  [][status = "emergency_stopped" /\ status' = "active" /\ ~ disturbed'
       => \E o \in Requests : EmergencyResume(o)]_vars

\* A break whose time is over does not stay active, though sweeps may fail.
BreaksEnd ==
  \A b \in Breaks : breaks[b] = "active" ~> breaks[b] \in {"ended", "cancelled"}

\* The committee does not stay in a break, unless a break was cancelled or a
\* sweep failed half way.  It relies on the sweeps not overlapping.
BreakIsLeft == status = "break" ~> (status # "break" \/ disturbed)
=============================================================================
