---------------------------- MODULE ReportingProofs ----------------------------
(***************************************************************************)
(* Theorems about Reporting: whatever is repeated, overlaps or is lost, an *)
(* event is stored at most once and warned of at most once, and only after *)
(* it has been stored, for every number of events, handlers and repeats.   *)
(***************************************************************************)
EXTENDS Reporting, SequenceTheorems, TLAPS

-----------------------------------------------------------------------------
\* The inductive invariant.

\* The events emitted so far; those on their way and in the handlers are some.
Emitted == 1 .. Len(log)

Shapes ==
  /\ log \in Seq(Types) /\ Len(log) <= MaxEvents
  /\ queue \in Seq(Emitted) /\ wire \in Seq(Emitted)
  /\ handler \in [Handlers -> [at : {"free", "insert", "warn"}, ev : Nat]]
  /\ \A h \in Handlers : handler[h].at # "free" => handler[h].ev \in Emitted
  /\ stored \subseteq Emitted
  /\ warnings \in [Events -> {0, 1}]

\* A handler that is about to warn has stored an event of which nobody has
\* warned, and is the only one that is about to warn of it.
AboutToWarn ==
  \A h \in Handlers : handler[h].at = "warn" =>
    /\ handler[h].ev \in stored /\ Alarming(log[handler[h].ev])
    /\ warnings[handler[h].ev] = 0
    /\ \A g \in Handlers :
         g # h /\ handler[g].at = "warn" => handler[g].ev # handler[h].ev

\* What has been warned of is stored.
WarnedIsStored == \A n \in Events : warnings[n] # 0 => n \in stored

FeedInv == Shapes /\ AboutToWarn /\ WarnedIsStored

-----------------------------------------------------------------------------
\* Operators.

\* What consists of events that have been emitted still does later.
LEMMA StillEmitted ==
  ASSUME NEW S, NEW T, S \subseteq T, NEW s \in Seq(S)
  PROVE  s \in Seq(T)
<1>1. s \in [1 .. Len(s) -> T] /\ Len(s) \in Nat
  OBVIOUS
<1> QED BY <1>1

\* A poll emits events.
LEMMA PollEmitsEvents ==
  ASSUME NEW e, NEW x
  PROVE  Polled(e, x).events \in Seq(Types)
<1> DEFINE back == [e EXCEPT !.idle = FALSE, !.away = @ /\ ~e.idle]
           spell == IF e.idle THEN <<"return">> ELSE << >>
           seen == Reports(back, x, Match(x))
<1>1. /\ << >> \in Seq(Types) /\ <<"idle">> \in Seq(Types)
      /\ <<"return">> \in Seq(Types) /\ <<"ai_detected">> \in Seq(Types)
      /\ <<"focus_change">> \in Seq(Types)
  BY DEF Types
<1>2. spell \in Seq(Types)
  BY <1>1
<1>3. seen \in Seq(Types)
  BY <1>1 DEF Reports
<1>4. spell \o seen \in Seq(Types)
  BY <1>2, <1>3
<1>5. CASE x = NoSample
  BY <1>1, <1>5 DEF Polled
<1>6. CASE x # NoSample /\ x = Untouched
  <2>1. (IF e.idle THEN << >> ELSE <<"idle">>) \in Seq(Types)
    BY <1>1
  <2> QED BY <1>6, <2>1 DEF Polled
<1>7. CASE x # NoSample /\ x # Untouched
  <2>1. Polled(e, x).events = spell \o seen
    BY <1>7 DEF Polled
  <2> QED BY <1>4, <2>1
<1> QED BY <1>5, <1>6, <1>7

(***************************************************************************)
(* Each step keeps the invariant.                                          *)
(***************************************************************************)

LEMMA FeedStart == Init => FeedInv
<1> SUFFICES ASSUME Init PROVE FeedInv
  OBVIOUS
<1>1. << >> \in Seq(Types) /\ << >> \in Seq(Emitted) /\ MaxEvents \in Nat
  BY ReportingConstants
<1>2. Shapes
  BY <1>1 DEF Init, Shapes
<1> QED BY <1>2 DEF Init, FeedInv, AboutToWarn, WarnedIsStored

\* Emitting makes the log longer, and what it had remains.
LEMMA EmitFacts ==
  ASSUME Shapes, NEW evs \in Seq(Types), Emit(evs)
  PROVE  /\ log' \in Seq(Types) /\ Len(log') <= MaxEvents
         /\ Len(log') = Len(log) + Len(evs) /\ Len(evs) \in Nat /\ Len(log) \in Nat
         /\ \A n \in Emitted : log'[n] = log[n]
         /\ Emitted \subseteq Emitted'
         /\ queue' \in Seq(Emitted') /\ wire' \in Seq(Emitted')
<1> DEFINE ids == [i \in DOMAIN evs |-> Len(log) + i]
<1>1. log \in Seq(Types) /\ log' = log \o evs /\ Len(log) + Len(evs) <= MaxEvents
  BY DEF Emit, Shapes
<1>2. /\ log' \in Seq(Types) /\ Len(log') = Len(log) + Len(evs)
      /\ Len(evs) \in Nat /\ Len(log) \in Nat
      /\ \A n \in 1 .. Len(log) : log'[n] = log[n]
  BY <1>1 DEF Types
<1>3. Emitted \subseteq Emitted'
  BY <1>2 DEF Emitted
<1>4. ids \in Seq(Emitted')
  <2>1. DOMAIN evs = 1 .. Len(evs) /\ Len(evs) \in Nat
    OBVIOUS
  <2>2. \A i \in 1 .. Len(evs) : Len(log) + i \in Emitted'
    BY <1>2 DEF Emitted
  <2> QED BY <2>1, <2>2
<1>5. queue \in Seq(Emitted') /\ wire \in Seq(Emitted')
  BY <1>3, StillEmitted DEF Shapes
<1> HIDE DEF ids
<1>6. queue \o ids \in Seq(Emitted') /\ wire \o ids \in Seq(Emitted')
  BY <1>4, <1>5
<1>7. /\ wire' = wire \/ wire' = wire \o ids
      /\ queue' = queue \/ queue' = queue \o ids
  BY DEF Emit, ids
<1> QED BY <1>1, <1>2, <1>3, <1>5, <1>6, <1>7 DEF Emitted

LEMMA EmitStep ==
  ASSUME FeedInv, NEW evs \in Seq(Types), Emit(evs), UNCHANGED serverVars
  PROVE  FeedInv' /\ [Feed!Next]_(Feed!vars)
<1>t. Shapes
  BY DEF FeedInv
<1>0. UNCHANGED <<handler, stored, warnings>>
  BY DEF serverVars
<1>1. /\ log' \in Seq(Types) /\ Len(log') <= MaxEvents
      /\ Len(log') = Len(log) + Len(evs) /\ Len(evs) \in Nat /\ Len(log) \in Nat
      /\ \A n \in Emitted : log'[n] = log[n]
      /\ Emitted \subseteq Emitted'
      /\ queue' \in Seq(Emitted') /\ wire' \in Seq(Emitted')
  BY <1>t, EmitFacts
<1>2. Shapes'
  BY <1>t, <1>0, <1>1 DEF Shapes
<1>3. AboutToWarn'
  <2>1. \A h \in Handlers : handler[h].at = "warn" => handler[h].ev \in Emitted
    BY <1>t DEF Shapes
  <2> QED BY <1>0, <1>1, <2>1 DEF FeedInv, AboutToWarn
<1>4. WarnedIsStored'
  BY <1>0 DEF FeedInv, WarnedIsStored
<1>5. [Feed!Next]_(Feed!vars)
  <2> DEFINE before == [n \in DOMAIN log |-> Alarming(log[n])]
             after == [n \in DOMAIN log' |-> Alarming(log'[n])]
  <2>1. DOMAIN log = Emitted /\ DOMAIN log' = Emitted'
    BY <1>t, <1>1 DEF Shapes, Emitted
  <2>2. CASE Len(evs) = 0
    <3>1. log' = log
      BY <1>t, <2>2, EmptySeq DEF Emit, Shapes
    <3> QED BY <1>0, <3>1 DEF Feed!vars
  <2>3. CASE Len(evs) # 0
    <3>1. DOMAIN before # DOMAIN after
      <4>1. Len(log') \in Emitted' /\ Len(log') \notin Emitted
        BY <1>1, <2>3 DEF Emitted
      <4> QED BY <2>1, <4>1
    <3>2. DOMAIN before \subseteq DOMAIN after
      BY <1>1, <2>1
    <3>3. \A n \in DOMAIN before : after[n] = before[n]
      BY <1>1, <2>1
    <3>4. Feed!Send
      BY <1>0, <3>1, <3>2, <3>3 DEF Feed!Send
    <3> QED BY <3>4 DEF Feed!Next
  <2> QED BY <1>1, <2>2, <2>3
<1> QED BY <1>2, <1>3, <1>4, <1>5 DEF FeedInv

\* The steps that neither emit, store nor warn, and leave no handler about to
\* warn that was not.
LEMMA QuietStep ==
  ASSUME FeedInv, UNCHANGED <<log, stored, warnings>>,
         queue' \in Seq(Emitted), wire' \in Seq(Emitted),
         handler' \in [Handlers -> [at : {"free", "insert", "warn"}, ev : Nat]],
         \A h \in Handlers : handler'[h] # handler[h] =>
           handler'[h].at # "warn" /\ (handler'[h].at # "free" => handler'[h].ev \in Emitted)
  PROVE  FeedInv' /\ [Feed!Next]_(Feed!vars)
<1>1. Emitted' = Emitted
  BY DEF Emitted
<1>2. Shapes'
  <2>1. \A h \in Handlers : handler'[h].at # "free" => handler'[h].ev \in Emitted'
    BY <1>1 DEF FeedInv, Shapes
  <2> QED BY <1>1, <2>1 DEF FeedInv, Shapes
<1>3. AboutToWarn'
  <2>1. \A h \in Handlers : handler'[h].at = "warn" => handler'[h] = handler[h]
    OBVIOUS
  <2> QED BY <2>1 DEF FeedInv, AboutToWarn
<1>4. WarnedIsStored'
  BY DEF FeedInv, WarnedIsStored
<1>5. UNCHANGED Feed!vars
  BY DEF Feed!vars
<1> QED BY <1>2, <1>3, <1>4, <1>5 DEF FeedInv

\* An engine's step emits what it reports, and a pause nothing.
LEMMA EngineSteps ==
  ASSUME FeedInv, \/ \E x \in Samples : Start(x) \/ Resume(x) \/ Poll(x)
                  \/ Stop \/ Pause
  PROVE  FeedInv' /\ [Feed!Next]_(Feed!vars)
<1>1. << >> \in Seq(Types) /\ <<"session_start">> \in Seq(Types) /\ <<"session_end">> \in Seq(Types)
  BY DEF Types
<1>2. ASSUME NEW e, NEW evs \in Seq(Types), NEW x, PollFrom(e, evs, x)
      PROVE  FeedInv' /\ [Feed!Next]_(Feed!vars)
  <2>1. Polled(e, x).events \in Seq(Types)
    BY PollEmitsEvents
  <2>2. evs \o Polled(e, x).events \in Seq(Types)
    BY <2>1
  <2>3. Emit(evs \o Polled(e, x).events) /\ UNCHANGED serverVars
    BY <1>2 DEF PollFrom
  <2> QED BY <2>2, <2>3, EmitStep
<1>3. ASSUME NEW x \in Samples, Start(x) \/ Resume(x) \/ Poll(x)
      PROVE  FeedInv' /\ [Feed!Next]_(Feed!vars)
  BY <1>1, <1>2, <1>3 DEF Start, Resume, Poll
<1>4. CASE Stop
  BY <1>1, <1>4, EmitStep DEF Stop
<1>5. CASE Pause
  BY <1>5, QuietStep DEF Pause, serverVars, FeedInv, Shapes
<1> QED BY <1>3, <1>4, <1>5

LEMMA ConnectionSteps ==
  ASSUME FeedInv, Disconnect \/ Reconnect \/ Resend
  PROVE  FeedInv' /\ [Feed!Next]_(Feed!vars)
<1>1. << >> \in Seq(Emitted) /\ queue \in Seq(Emitted) /\ wire \in Seq(Emitted)
  BY DEF FeedInv, Shapes
<1>2. UNCHANGED <<log, handler, stored, warnings>>
  BY DEF Disconnect, Reconnect, Resend, clientVars, serverVars
<1>3. CASE Disconnect \/ Reconnect
  <2>1. queue' \in Seq(Emitted) /\ wire' \in Seq(Emitted)
    BY <1>1, <1>3 DEF Disconnect, Reconnect, Flushed
  <2> QED BY <1>2, <2>1, QuietStep DEF FeedInv, Shapes
<1>4. CASE Resend
  <2>1. DOMAIN log = Emitted
    BY DEF FeedInv, Shapes, Emitted
  <2>2. queue' = queue /\ \E n \in Emitted : wire' = Append(wire, n)
    BY <1>4, <2>1 DEF Resend
  <2>3. wire' \in Seq(Emitted)
    BY <1>1, <2>2
  <2> QED BY <1>1, <1>2, <2>2, <2>3, QuietStep DEF FeedInv, Shapes
<1> QED BY <1>3, <1>4

LEMMA ReceiveStep ==
  ASSUME FeedInv, NEW h \in Handlers, Receive(h)
  PROVE  FeedInv' /\ [Feed!Next]_(Feed!vars)
<1> DEFINE new == [at |-> "insert", ev |-> Head(wire)]
<1>1. queue \in Seq(Emitted) /\ wire \in Seq(Emitted) /\ wire # << >>
  BY DEF FeedInv, Shapes, Receive
<1>2. Head(wire) \in Emitted /\ Tail(wire) \in Seq(Emitted) /\ Head(wire) \in Nat
  BY <1>1 DEF Emitted
<1>3. /\ UNCHANGED <<log, stored, warnings, queue>> /\ wire' = Tail(wire)
      /\ handler' = handler \/ handler' = [handler EXCEPT ![h] = new]
  BY DEF Receive, clientVars
<1>4. new \in [at : {"free", "insert", "warn"}, ev : Nat] /\ new.at = "insert" /\ new.ev \in Emitted
  BY <1>2
<1> HIDE DEF new
<1>5. /\ handler' \in [Handlers -> [at : {"free", "insert", "warn"}, ev : Nat]]
      /\ \A g \in Handlers : handler'[g] # handler[g] => handler'[g] = new
  BY <1>3, <1>4 DEF FeedInv, Shapes
<1> QED BY <1>1, <1>2, <1>3, <1>4, <1>5, QuietStep

LEMMA RefillOrCrash ==
  ASSUME FeedInv, Refill \/ Crash
  PROVE  FeedInv' /\ [Feed!Next]_(Feed!vars)
<1>1. << >> \in Seq(Emitted) /\ queue \in Seq(Emitted) /\ wire \in Seq(Emitted)
  BY DEF FeedInv, Shapes
<1>2. CASE Refill
  BY <1>1, <1>2, QuietStep DEF Refill, clientVars, FeedInv, Shapes
<1>3. CASE Crash
  <2>1. /\ UNCHANGED <<log, stored, warnings, queue>> /\ wire' = << >>
        /\ handler' = [h \in Handlers |-> [at |-> "free", ev |-> 0]]
    BY <1>3 DEF Crash, clientVars
  <2>2. handler' \in [Handlers -> [at : {"free", "insert", "warn"}, ev : Nat]]
    BY <2>1
  <2>3. \A h \in Handlers : handler'[h].at = "free"
    BY <2>1
  <2> QED BY <1>1, <2>1, <2>2, <2>3, QuietStep
<1> QED BY <1>2, <1>3

(***************************************************************************)
(* The two steps that the abstract specification has too.                  *)
(***************************************************************************)

\* Of the handlers that hold one event the first stores it, and it alone goes
\* on to warn.
LEMMA InsertStep ==
  ASSUME FeedInv, NEW h \in Handlers, Insert(h)
  PROVE  FeedInv' /\ [Feed!Next]_(Feed!vars)
<1> DEFINE n == handler[h].ev
<1>t. Shapes
  BY DEF FeedInv
<1>0. /\ handler[h].at = "insert" /\ n \in Emitted /\ stored' = stored \union {n}
      /\ UNCHANGED <<log, warnings, queue, wire>>
  BY <1>t DEF Insert, clientVars, Shapes
<1>1. /\ \A g \in Handlers : g # h => handler'[g] = handler[g]
      /\ handler' \in [Handlers -> [at : {"free", "insert", "warn"}, ev : Nat]]
      /\ \/ handler'[h].at = "free"
         \/ /\ handler'[h].at = "warn" /\ handler'[h].ev = n
            /\ n \notin stored /\ Alarming(log[n])
  <2>1. \/ handler' = [handler EXCEPT ![h] = [at |-> "free", ev |-> 0]]
        \/ /\ handler' = [handler EXCEPT ![h].at = "warn"]
           /\ n \notin stored /\ Alarming(log[n])
    BY DEF Insert, Free, Fresh
  <2>2. CASE handler' = [handler EXCEPT ![h] = [at |-> "free", ev |-> 0]]
    BY <1>t, <2>2 DEF Shapes
  <2>3. CASE /\ handler' = [handler EXCEPT ![h].at = "warn"]
             /\ n \notin stored /\ Alarming(log[n])
    <3>1. handler'[h] = [handler[h] EXCEPT !.at = "warn"]
      BY <1>t, <2>3 DEF Shapes
    <3>2. /\ handler'[h] \in [at : {"free", "insert", "warn"}, ev : Nat]
          /\ handler'[h].at = "warn" /\ handler'[h].ev = n
      BY <1>t, <3>1 DEF Shapes
    <3> QED BY <1>t, <2>3, <3>1, <3>2 DEF Shapes
  <2> QED BY <2>1, <2>2, <2>3
<1>2. Emitted' = Emitted /\ n \in Events
  BY <1>t, <1>0, ReportingConstants DEF Emitted, Shapes, Events
<1>3. Shapes'
  <2>1. \A g \in Handlers : handler'[g].at # "free" => handler'[g].ev \in Emitted'
    <3> TAKE g \in Handlers
    <3>1. CASE g = h
      BY <1>0, <1>1, <1>2, <3>1
    <3>2. CASE g # h
      BY <1>t, <1>1, <1>2, <3>2 DEF Shapes
    <3> QED BY <3>1, <3>2
  <2> QED BY <1>t, <1>0, <1>1, <1>2, <2>1 DEF Shapes
<1>4. n \notin stored =>
        warnings[n] = 0 /\ \A g \in Handlers : handler[g].at = "warn" => handler[g].ev # n
  BY <1>2 DEF FeedInv, WarnedIsStored, AboutToWarn
<1>5. AboutToWarn'
  <2> SUFFICES ASSUME NEW g \in Handlers, handler'[g].at = "warn"
               PROVE  /\ handler'[g].ev \in stored' /\ Alarming(log[handler'[g].ev])
                      /\ warnings[handler'[g].ev] = 0
                      /\ \A f \in Handlers :
                           f # g /\ handler'[f].at = "warn" => handler'[f].ev # handler'[g].ev
    BY <1>0 DEF AboutToWarn
  <2>1. CASE g = h
    BY <1>0, <1>1, <1>4, <2>1
  <2>2. CASE g # h
    <3>1. handler'[g] = handler[g]
      BY <1>1, <2>2
    <3>2. /\ handler[g].ev \in stored /\ Alarming(log[handler[g].ev]) /\ warnings[handler[g].ev] = 0
          /\ \A f \in Handlers : f # g /\ handler[f].at = "warn" => handler[f].ev # handler[g].ev
      BY <3>1 DEF FeedInv, AboutToWarn
    <3>3. ASSUME NEW f \in Handlers, f # g, handler'[f].at = "warn"
          PROVE  handler'[f].ev # handler'[g].ev
      <4>1. CASE f = h
        BY <1>1, <3>1, <3>2, <3>3, <4>1
      <4>2. CASE f # h
        BY <1>1, <3>1, <3>2, <3>3, <4>2
      <4> QED BY <4>1, <4>2
    <3> QED BY <1>0, <3>1, <3>2, <3>3
  <2> QED BY <2>1, <2>2
<1>6. WarnedIsStored'
  BY <1>0 DEF FeedInv, WarnedIsStored
<1>7. [Feed!Next]_(Feed!vars)
  <2>1. CASE n \in stored
    BY <1>0, <2>1 DEF Feed!vars
  <2>2. CASE n \notin stored
    <3>1. n \in DOMAIN [m \in DOMAIN log |-> Alarming(log[m])]
      BY <1>t, <1>0 DEF Shapes, Emitted
    <3>2. Feed!Store(n)
      BY <1>0, <2>2, <3>1 DEF Feed!Store
    <3> QED BY <1>2, <3>2 DEF Feed!Next
  <2> QED BY <2>1, <2>2
<1> QED BY <1>3, <1>5, <1>6, <1>7 DEF FeedInv

LEMMA WarnStep ==
  ASSUME FeedInv, NEW h \in Handlers, Warn(h)
  PROVE  FeedInv' /\ [Feed!Next]_(Feed!vars)
<1> DEFINE n == handler[h].ev
<1>t. Shapes
  BY DEF FeedInv
<1>0. /\ handler[h].at = "warn"
      /\ warnings' = [warnings EXCEPT ![n] = @ + 1]
      /\ handler' = [handler EXCEPT ![h] = [at |-> "free", ev |-> 0]]
      /\ UNCHANGED <<log, stored, queue, wire>>
  BY DEF Warn, Free, clientVars
<1>1. /\ n \in Emitted /\ n \in stored /\ Alarming(log[n]) /\ warnings[n] = 0
      /\ \A g \in Handlers : g # h /\ handler[g].at = "warn" => handler[g].ev # n
  BY <1>t, <1>0 DEF FeedInv, AboutToWarn, Shapes
<1>2. Emitted' = Emitted /\ n \in Events
  BY <1>t, <1>0, <1>1, ReportingConstants DEF Emitted, Shapes, Events
<1>3. warnings' = [warnings EXCEPT ![n] = 1]
  BY <1>t, <1>0, <1>1 DEF Shapes
<1>4. /\ handler' \in [Handlers -> [at : {"free", "insert", "warn"}, ev : Nat]]
      /\ handler'[h].at = "free" /\ \A g \in Handlers : g # h => handler'[g] = handler[g]
  BY <1>t, <1>0 DEF Shapes
<1>5. /\ warnings' \in [Events -> {0, 1}] /\ \A m \in Events : m # n => warnings'[m] = warnings[m]
  BY <1>t, <1>3 DEF Shapes
<1>6. Shapes'
  <2>1. \A g \in Handlers : handler'[g].at # "free" => handler'[g].ev \in Emitted'
    BY <1>t, <1>2, <1>4 DEF Shapes
  <2> QED BY <1>t, <1>0, <1>2, <1>4, <1>5, <2>1 DEF Shapes
<1>7. AboutToWarn'
  <2> SUFFICES ASSUME NEW g \in Handlers, handler'[g].at = "warn"
               PROVE  /\ handler'[g].ev \in stored /\ Alarming(log[handler'[g].ev])
                      /\ warnings'[handler'[g].ev] = 0
                      /\ \A f \in Handlers :
                           f # g /\ handler'[f].at = "warn" => handler'[f].ev # handler'[g].ev
    BY <1>0 DEF AboutToWarn
  <2>1. g # h /\ handler'[g] = handler[g]
    BY <1>4
  <2>2. /\ handler[g].ev \in stored /\ Alarming(log[handler[g].ev]) /\ warnings[handler[g].ev] = 0
        /\ \A f \in Handlers : f # g /\ handler[f].at = "warn" => handler[f].ev # handler[g].ev
    BY <2>1 DEF FeedInv, AboutToWarn
  <2>3. handler[g].ev \in Events /\ handler[g].ev # n
    BY <1>t, <1>1, <2>1, <2>2, ReportingConstants DEF Shapes, Emitted, Events
  <2> QED BY <1>4, <1>5, <2>1, <2>2, <2>3
<1>8. WarnedIsStored'
  BY <1>0, <1>1, <1>5 DEF FeedInv, WarnedIsStored
<1>9. Feed!Warn(n)
  <2>1. [m \in DOMAIN log |-> Alarming(log[m])][n]
    BY <1>t, <1>1 DEF Shapes, Emitted
  <2>2. UNCHANGED <<[m \in DOMAIN log |-> Alarming(log[m])], stored>>
    BY <1>0
  <2> QED BY <1>1, <1>3, <2>1, <2>2 DEF Feed!Warn
<1> QED BY <1>2, <1>6, <1>7, <1>8, <1>9 DEF FeedInv, Feed!Next

LEMMA FeedStep == FeedInv /\ [Next]_vars => FeedInv' /\ [Feed!Next]_(Feed!vars)
<1> SUFFICES ASSUME FeedInv, [Next]_vars PROVE FeedInv' /\ [Feed!Next]_(Feed!vars)
  OBVIOUS
<1>1. CASE UNCHANGED vars
  BY <1>1, QuietStep DEF vars, moving, clientVars, serverVars, FeedInv, Shapes
<1>2. CASE Next
  BY <1>2, EngineSteps, ConnectionSteps, ReceiveStep, InsertStep, WarnStep, RefillOrCrash
     DEF Next, Handle
<1> QED BY <1>1, <1>2

-----------------------------------------------------------------------------
\* Every event of a delegate is stored at most once and never removed, and one
\* that calls for a warning raises at most one, after it has been stored:
\* ingestEvent implements EventLog whatever is repeated, delayed or lost, with
\* any number of handlers at the same time (ingest.ts).
THEOREM IngestImplementsFeed == Spec => FeedSpec
<1>1. Init => Feed!Init
  <2> SUFFICES ASSUME Init PROVE Feed!Init
    OBVIOUS
  <2>1. log = << >> /\ stored = {} /\ warnings = [n \in Events |-> 0]
    BY DEF Init
  <2>2. [n \in DOMAIN log |-> Alarming(log[n])] = << >>
    BY <2>1
  <2> QED BY <2>1, <2>2 DEF Feed!Init
<1> QED BY <1>1, FeedStart, FeedStep, PTL DEF Spec, FeedSpec, Feed!Spec

=============================================================================
