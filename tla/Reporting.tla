------------------------------ MODULE Reporting ------------------------------
(***************************************************************************)
(* From what a delegate does to what the chair is told: the monitoring     *)
(* engine polls the foreground window and emits an event on a change       *)
(* (apps/desktop/src/main/monitor/engine.ts, and the same code once more   *)
(* in apps/tauri-desktop/src/api.ts), the realtime client writes it to its *)
(* socket, and the server stores it, refreshes the delegate's live status  *)
(* and raises warnings (apps/server/src/monitoring/ingest.ts).  Without a  *)
(* connection the Electron client queues an event and the Tauri client     *)
(* drops it.                                                               *)
(*                                                                         *)
(* A connection is up once the server has welcomed it; what is written to  *)
(* it before is refused, and what is written after arrives in order or is  *)
(* lost with it.  A poll is one step.  The server's handlers of different  *)
(* messages overlap at their awaits.                                       *)
(*                                                                         *)
(* An operator that nothing uses is a faulty variant of the one after it.  *)
(***************************************************************************)
EXTENDS Integers, FiniteSets, SequencesExt

CONSTANTS
  Screens,      \* what can be in the foreground: [app, topic]
  Self,         \* the application MUN Guardian itself
  Nothing,      \* no application, no rule
  NoSample,     \* a poll that cannot tell what is in the foreground
  Untouched,    \* a poll that finds the machine untouched for IDLE_THRESHOLD_MS
  Rules,        \* the list of rules the engine has: [topic, enabled]
  Handlers,     \* the monitor events in the server's handlers at one time
  Capacity,     \* monitorMaxEventsPerMinute
  MaxEvents,    \* bounds: events of one run,
  MaxResends    \*         messages the network or a client repeats

ASSUME ReportingConstants ==
  /\ {Capacity, MaxEvents, MaxResends} \subseteq Nat

VARIABLES
  client,     \* which of the two applications the delegate runs
  engine,     \* the state of the monitoring engine
  log,        \* every event emitted so far; an event is named by its place
  queue,      \* events that wait for a connection
  up,         \* the connection is welcomed
  wire,       \* events written to the connection and not read yet
  handler,    \* the server's handlers: their step and their event
  tokens,     \* the delegate's token bucket
  stored,     \* the rows of monitoring_events
  warnings,   \* the rows of warnings that each event has raised
  live,       \* the away and flagged badges of the delegate's presence record
  lost,       \* history: events lost with a connection, a limit or a crash
  resends     \* messages repeated so far

clientVars == <<engine, log>>
serverVars == <<handler, tokens, stored, warnings, live>>
moving == <<clientVars, serverVars, queue, up, wire, lost, resends>>
vars == <<client, moving>>

Events == 1 .. MaxEvents
Clients == {"electron", "tauri"}

Types == {"session_start", "session_end", "focus_change", "ai_detected", "return", "idle"}

-----------------------------------------------------------------------------
\* The monitoring engine.

\* matchRules: the first enabled rule of the list that applies.
Match(sc) ==
  LET hits == {i \in DOMAIN Rules : Rules[i].enabled /\ Rules[i].topic = sc.topic}
  IN  IF hits = {} THEN Nothing ELSE Min(hits)

Started == [on |-> TRUE, paused |-> FALSE, app |-> Nothing, rule |-> Nothing,
            away |-> FALSE, idle |-> FALSE, flagged |-> FALSE]

\* A rule has begun to match, or another one or another application matches.
Detects(e, sc, rule) == rule # Nothing /\ (rule # e.rule \/ sc.app # e.app)

\* The delegate has left a flagged window, or has changed application.
Moves(e, sc, rule) == rule = Nothing /\ (e.rule # Nothing \/ sc.app # e.app)

\* The events of a poll that finds the delegate at work, and the state after it.
Reports(e, sc, rule) ==
  IF Detects(e, sc, rule) THEN <<"ai_detected">>
  ELSE IF ~Moves(e, sc, rule) THEN << >>
  ELSE IF sc.app = Self /\ e.away THEN <<"return">>
  ELSE <<"focus_change">>

Observed(e, sc, rule) ==
  [e EXCEPT !.app = sc.app,
            !.rule = rule,
            !.flagged = Detects(e, sc, rule) \/ (@ /\ ~Moves(e, sc, rule)),
            !.away = IF Detects(e, sc, rule) THEN TRUE
                     ELSE IF Moves(e, sc, rule) THEN sc.app # Self ELSE @]

Samples == Screens \union {NoSample, Untouched}

\* poll: the state after it and the events it emits.  The end of an idle spell
\* is reported first, and then what is in the foreground.
Polled(e, x) ==
  IF x = NoSample THEN [engine |-> e, events |-> << >>]
  ELSE IF x = Untouched
  THEN [engine |-> [e EXCEPT !.idle = TRUE, !.away = TRUE],
        events |-> IF e.idle THEN << >> ELSE <<"idle">>]
  ELSE LET back == [e EXCEPT !.idle = FALSE, !.away = @ /\ ~e.idle] IN
       [engine |-> Observed(back, x, Match(x)),
        events |-> (IF e.idle THEN <<"return">> ELSE << >>) \o Reports(back, x, Match(x))]

-----------------------------------------------------------------------------
Init ==
  /\ client \in Clients
  /\ engine = [Started EXCEPT !.on = FALSE]
  /\ log = << >>
  /\ queue = << >>
  /\ up = FALSE
  /\ wire = << >>
  /\ handler = [h \in Handlers |-> [at |-> "free", ev |-> 0]]
  /\ tokens = Capacity
  /\ stored = {}
  /\ warnings = [n \in Events |-> 0]
  /\ live = [away |-> FALSE, flagged |-> FALSE]
  /\ lost = {}
  /\ resends = 0

\* Straight to an open connection; else RealtimeClient.send queues them, and
\* emitMonitorEvent of the Tauri client does nothing more.
Emit(evs) ==
  LET ids == [i \in DOMAIN evs |-> Len(log) + i]
  IN  /\ Len(log) + Len(evs) <= MaxEvents
      /\ log' = log \o evs
      /\ IF up THEN wire' = wire \o ids /\ UNCHANGED <<queue, lost>>
         ELSE IF client = "electron" THEN queue' = queue \o ids /\ UNCHANGED <<wire, lost>>
         ELSE lost' = lost \union ToSet(ids) /\ UNCHANGED <<queue, wire>>

\* Emit the events, and those of the poll that follows at once.
PollFrom(e, events, x) ==
  /\ engine' = Polled(e, x).engine
  /\ Emit(events \o Polled(e, x).events)
  /\ UNCHANGED <<serverVars, up, resends>>

\* completeAuth, refreshSession: the connection is being opened.  start of the
\* Electron client does not reset the flag.
Start(x) ==
  /\ ~engine.on /\ ~up
  /\ PollFrom([Started EXCEPT !.flagged = client = "electron" /\ engine.flagged],
              <<"session_start">>, x)

Stop ==
  /\ engine.on
  /\ engine' = [engine EXCEPT !.on = FALSE]
  /\ Emit(<<"session_end">>)
  /\ UNCHANGED <<serverVars, up, resends>>

\* A break stops the timer; resume takes a new baseline.
Pause ==
  /\ ~engine.paused
  /\ engine' = [engine EXCEPT !.paused = TRUE]
  /\ UNCHANGED <<log, serverVars, queue, up, wire, lost, resends>>

Resume(x) ==
  /\ engine.on /\ engine.paused
  /\ PollFrom([engine EXCEPT !.paused = FALSE, !.app = Nothing, !.rule = Nothing], << >>, x)

Poll(x) ==
  /\ engine.on /\ ~engine.paused
  /\ PollFrom(engine, << >>, x)

-----------------------------------------------------------------------------
\* The connection.

Disconnect ==
  /\ up
  /\ up' = FALSE
  /\ wire' = << >>
  /\ lost' = lost \union ToSet(wire)
  /\ UNCHANGED <<clientVars, serverVars, queue, resends>>

\* The welcome makes the client flush its queue.
NoFlush(q) == << >>
Flushed(q) == q

Reconnect ==
  /\ ~up
  /\ up' = TRUE
  /\ wire' = Flushed(queue)
  /\ queue' = << >>
  /\ UNCHANGED <<clientVars, serverVars, lost, resends>>

\* A message that was sent before arrives again.
Resend ==
  /\ up /\ resends < MaxResends
  /\ resends' = resends + 1
  /\ \E n \in DOMAIN log \ (ToSet(queue) \union IF client = "tauri" THEN lost ELSE {}) :
       wire' = Append(wire, n)
  /\ UNCHANGED <<clientVars, serverVars, queue, up, lost>>

-----------------------------------------------------------------------------
\* handleMonitorEvent and ingestEvent.

Free(h) == handler' = [handler EXCEPT ![h] = [at |-> "free", ev |-> 0]]

Alarming(type) == type = "ai_detected"

\* consume: an empty bucket refuses.
Empty(t) == t = 0

\* An event over the limit is answered with an error, which the client ignores.
Receive(h) ==
  /\ wire # << >>
  /\ handler[h].at = "free"
  /\ wire' = Tail(wire)
  /\ IF Empty(tokens)
     THEN lost' = lost \union {Head(wire)} /\ UNCHANGED <<handler, tokens>>
     ELSE /\ tokens' = tokens - 1
          /\ handler' = [handler EXCEPT ![h] = [at |-> "insert", ev |-> Head(wire)]]
          /\ UNCHANGED lost
  /\ UNCHANGED <<clientVars, stored, warnings, live, queue, up, resends>>

\* INSERT ... ON CONFLICT DO NOTHING: a second row is not made, and the handler
\* of a duplicate ends here.
AlwaysFresh(n) == TRUE
Fresh(n) == n \notin stored

Insert(h) ==
  LET n == handler[h].ev IN
  /\ handler[h].at = "insert"
  /\ stored' = stored \union {n}
  /\ IF Fresh(n)
     THEN /\ live' = [away |-> log[n] = "idle", flagged |-> Alarming(log[n])]
          /\ IF Alarming(log[n]) THEN handler' = [handler EXCEPT ![h].at = "warn"] ELSE Free(h)
     ELSE Free(h) /\ UNCHANGED live
  /\ UNCHANGED <<clientVars, tokens, warnings, queue, up, wire, lost, resends>>

\* createWarning, and the audit entry after it.
Warn(h) ==
  LET n == handler[h].ev IN
  /\ handler[h].at = "warn"
  /\ warnings' = [warnings EXCEPT ![n] = @ + 1]
  /\ Free(h)
  /\ UNCHANGED <<clientVars, tokens, stored, live, queue, up, wire, lost, resends>>

Refill ==
  /\ tokens < Capacity
  /\ tokens' = tokens + 1
  /\ UNCHANGED <<clientVars, handler, stored, warnings, live, queue, up, wire, lost,
                 resends>>

\* Handlers and messages are gone; the token bucket and the presence record,
\* which the next hello makes again, are as at the start.
Crash ==
  /\ handler' = [h \in Handlers |-> [at |-> "free", ev |-> 0]]
  /\ lost' = lost \union ToSet(wire) \union ({handler[h].ev : h \in Handlers} \ {0})
  /\ tokens' = Capacity
  /\ live' = [away |-> FALSE, flagged |-> FALSE]
  /\ up' = FALSE
  /\ wire' = << >>
  /\ UNCHANGED <<clientVars, stored, warnings, queue, resends>>

-----------------------------------------------------------------------------
Handle(h) == Receive(h) \/ Insert(h) \/ Warn(h)

Next ==
  /\ UNCHANGED client
  /\ \/ \E x \in Samples : Start(x) \/ Resume(x) \/ Poll(x)
     \/ Stop \/ Pause
     \/ Disconnect \/ Reconnect \/ Resend
     \/ \E h \in Handlers : Handle(h)
     \/ Refill \/ Crash

\* The client reconnects and the server goes on with what it has received.
Fairness ==
  /\ WF_moving(Reconnect)
  /\ \A h \in Handlers : WF_moving(Handle(h))

Spec == Init /\ [][Next]_vars /\ Fairness

-----------------------------------------------------------------------------
TypeOK ==
  /\ client \in Clients
  /\ up \in BOOLEAN
  /\ engine \in [on : BOOLEAN, paused : BOOLEAN, app : {sc.app : sc \in Screens} \union {Nothing},
                 rule : Nat \union {Nothing}, away : BOOLEAN, idle : BOOLEAN, flagged : BOOLEAN]
  /\ log \in Seq(Types) /\ Len(log) <= MaxEvents
  /\ ToSet(queue) \union ToSet(wire) \union stored \union lost \subseteq DOMAIN log
  /\ handler \in [Handlers -> [at : {"free", "insert", "warn"}, ev : Events \union {0}]]
  /\ tokens \in 0 .. Capacity
  /\ warnings \in [Events -> Nat]
  /\ live \in [away : BOOLEAN, flagged : BOOLEAN]
  /\ resends \in 0 .. MaxResends

\* Storing and warning, at most once for each event whatever is repeated.
Feed == INSTANCE EventLog WITH alarming <- [n \in DOMAIN log |-> Alarming(log[n])]
FeedSpec == Feed!Spec

\* A detection that has been sent reaches the chair as a warning, unless a
\* connection, the rate limit or a crash took it (ingest.ts:151-160).
DetectionIsWarned ==
  \A n \in Events :
    (n \in DOMAIN log /\ Alarming(log[n])) ~> (warnings[n] > 0 \/ n \in lost)
=============================================================================
