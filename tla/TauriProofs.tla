------------------------------ MODULE TauriProofs ------------------------------
(***************************************************************************)
(* The interval that samples the foreground window of the Tauri client, in *)
(* every order of the steps that start, stop, pause and resume monitoring, *)
(* and for every number of connections, faults and samples.                *)
(***************************************************************************)
EXTENDS Tauri, TLAPS

\* What the interval depends on.
IntervalInv ==
  /\ on \in BOOLEAN /\ paused \in BOOLEAN /\ handle \in BOOLEAN
  /\ OneInterval

LEMMA IntervalStart == Init => IntervalInv
<1> SUFFICES ASSUME Init PROVE IntervalInv
  OBVIOUS
<1>1. ~on /\ ~paused /\ ~handle /\ intervals = 0
  BY DEF Init, ClientInit
<1>2. on \in BOOLEAN /\ paused \in BOOLEAN /\ handle \in BOOLEAN
  BY DEF Init, ClientInit
<1> QED BY <1>1, <1>2 DEF IntervalInv, OneInterval

\* The interval is started while there is none, and cleared.
LEMMA SetStep ==
  ASSUME IntervalInv, ~(on /\ ~paused), SetInterval
  PROVE  handle' /\ handle' \in BOOLEAN /\ intervals' = 1
<1>1. intervals = 0
  BY DEF IntervalInv, OneInterval
<1>2. handle' /\ handle' \in BOOLEAN
  BY Zenon DEF SetInterval
<1> QED BY <1>1, <1>2 DEF SetInterval

LEMMA ClearStep ==
  ASSUME IntervalInv, ClearInterval
  PROVE  ~handle' /\ handle' \in BOOLEAN /\ intervals' = 0
<1>1. ~handle' /\ handle' \in BOOLEAN
  BY Zenon DEF ClearInterval
<1>2. CASE on /\ ~paused
  <2>1. intervals = 1 /\ handle
    BY <1>2 DEF IntervalInv, OneInterval
  <2> QED BY <1>1, <2>1 DEF ClearInterval
<1>3. CASE ~(on /\ ~paused)
  <2>1. intervals = 0 /\ ~handle
    BY <1>3 DEF IntervalInv, OneInterval
  <2> QED BY <1>1, <2>1 DEF ClearInterval
<1> QED BY <1>2, <1>3

\* No other step switches monitoring.
LEMMA OtherStep ==
  ASSUME IntervalInv, UNCHANGED <<on, paused, intervals, handle>>
  PROVE  IntervalInv'
  BY DEF IntervalInv, OneInterval

\* What a step has to show when the interval runs after it, and when it does not.
LEMMA Running ==
  ASSUME on' \in BOOLEAN, paused' \in BOOLEAN, handle' \in BOOLEAN,
         on', ~paused', handle', intervals' = 1
  PROVE  IntervalInv'
  BY DEF IntervalInv, OneInterval

LEMMA NotRunning ==
  ASSUME on' \in BOOLEAN, paused' \in BOOLEAN, handle' \in BOOLEAN,
         ~on' \/ paused', ~handle', intervals' = 0
  PROVE  IntervalInv'
  BY DEF IntervalInv, OneInterval

LEMMA StartStep ==
  ASSUME IntervalInv, StartMonitoring
  PROVE  IntervalInv'
<1>1. CASE on
  BY <1>1, OtherStep DEF StartMonitoring, monitorVars
<1>2. CASE ~on
  <2>1. on' /\ on' \in BOOLEAN /\ ~paused' /\ paused' \in BOOLEAN /\ SetInterval
    BY <1>2, Zenon DEF StartMonitoring
  <2> QED BY <1>2, <2>1, SetStep, Running
<1> QED BY <1>1, <1>2

LEMMA StopStep ==
  ASSUME IntervalInv, StopMonitoring
  PROVE  IntervalInv'
<1>1. CASE ~on
  BY <1>1, OtherStep DEF StopMonitoring, monitorVars
<1>2. CASE on
  <2>1. ~on' /\ on' \in BOOLEAN /\ paused' \in BOOLEAN /\ ClearInterval
    BY <1>2, Zenon DEF StopMonitoring, IntervalInv
  <2> QED BY <2>1, ClearStep, NotRunning
<1> QED BY <1>1, <1>2

LEMMA LoginStep ==
  ASSUME IntervalInv, Login
  PROVE  IntervalInv'
<1>1. UNCHANGED monitorVars \/ StartMonitoring
  BY DEF Login
<1>2. CASE UNCHANGED monitorVars
  BY <1>2, OtherStep DEF monitorVars
<1> QED BY <1>1, <1>2, StartStep

LEMMA PausedStep ==
  ASSUME IntervalInv, NEW s \in Sockets, Paused(s)
  PROVE  IntervalInv'
<1>1. on' \in BOOLEAN /\ paused' /\ paused' \in BOOLEAN /\ ClearInterval
  BY Zenon DEF Paused, IntervalInv
<1> QED BY <1>1, ClearStep, NotRunning

LEMMA ResumedStep ==
  ASSUME IntervalInv, NEW s \in Sockets, Resumed(s)
  PROVE  IntervalInv'
<1>1. CASE on /\ paused
  <2>1. on' /\ on' \in BOOLEAN /\ ~paused' /\ paused' \in BOOLEAN /\ SetInterval
    BY <1>1, Zenon DEF Resumed, IntervalInv
  <2> QED BY <1>1, <2>1, SetStep, Running
<1>2. CASE ~(on /\ paused)
  BY <1>2, OtherStep DEF Resumed
<1> QED BY <1>1, <1>2

LEMMA RestartStep ==
  ASSUME IntervalInv, Restart
  PROVE  IntervalInv'
<1>1. ~on' /\ on' \in BOOLEAN /\ paused' \in BOOLEAN /\ ~handle' /\ handle' \in BOOLEAN
  BY Zenon DEF Restart
<1>2. intervals' = 0
  BY DEF Restart
<1> QED BY <1>1, <1>2, NotRunning

LEMMA IntervalStep == IntervalInv /\ [Next]_vars => IntervalInv'
<1> SUFFICES ASSUME IntervalInv, [Next]_vars PROVE IntervalInv'
  OBVIOUS
<1>1. ASSUME NEW s \in Sockets, ServerStep(s) PROVE IntervalInv'
  BY <1>1, OtherStep DEF ServerStep, monitorVars
<1>2. ASSUME NEW s \in Sockets, ClientStep(s) PROVE IntervalInv'
  <2>1. CASE OnOpen(s) \/ OnClose(s) \/ Discard(s) \/ Welcomed(s) \/ Refused(s)
    BY <2>1, OtherStep DEF OnOpen, OnClose, Discard, Welcomed, Refused, monitorVars
  <2>2. CASE ForcedOut(s)
    BY <2>2, StopStep DEF ForcedOut
  <2> QED BY <1>2, <2>1, <2>2, PausedStep, ResumedStep DEF ClientStep
<1>3. CASE Fault \/ Reconnect \/ Heartbeat \/ Tick \/ Sampled \/ LogoutDone \/ Command
  BY <1>3, OtherStep DEF Fault, Reconnect, Heartbeat, Tick, Sampled, LogoutDone, Command, monitorVars
<1>4. CASE Logout
  BY <1>4, StopStep DEF Logout
<1>5. CASE UNCHANGED vars
  BY <1>5, OtherStep DEF vars, monitorVars
<1> QED BY <1>1, <1>2, <1>3, <1>4, <1>5, LoginStep, RestartStep DEF Next

\* One interval samples while monitoring is on and not paused and none
\* otherwise, and it is the one that monitorTimer holds (startMonitoring,
\* stopMonitoring, pauseMonitoring and resumeMonitoring of api.ts).
THEOREM AlwaysOneInterval == Spec => []OneInterval
<1>1. IntervalInv => OneInterval
  BY DEF IntervalInv
<1> QED BY <1>1, IntervalStart, IntervalStep, PTL DEF Spec
=============================================================================
