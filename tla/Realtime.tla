------------------------------- MODULE Realtime -------------------------------
(***************************************************************************)
(* The Electron client of one delegate: the realtime client with its       *)
(* offline queue and its reconnection (apps/desktop/src/main/realtime/     *)
(* client.ts), and the backend that signs in and out, refreshes the        *)
(* session on wake and starts again after a crash (backend.ts), with what  *)
(* the window shows of it.                                                 *)
(*                                                                         *)
(* A handler of the main process is one step.  The handlers of a           *)
(* connection work on whatever connection the client holds when they run,  *)
(* not on the one that called them.                                        *)
(*                                                                         *)
(* An operator that nothing uses is a faulty variant of the one after it.  *)
(***************************************************************************)
EXTENDS Endpoint

CONSTANTS
  MaxMsgs,      \* bounds: events and votes that are followed,
  MaxTurns      \*         times the machine wakes or the application starts again

ASSUME RealtimeConstants == {MaxMsgs, MaxTurns} \subseteq Nat

VARIABLES
  ws,        \* this.ws, None when there is none
  state,     \* the state of the realtime client
  welcomed,  \* this.welcomed
  shut,      \* intentionallyClosed
  queued,    \* the offline queue
  timer,     \* the reconnect timer is armed
  store,     \* the encrypted store: a user, and an access token
  engine,    \* the monitoring engine is on
  refresh,   \* the refresh of a wake: asked with a token, or answered with one or None
  leaving,   \* a logout, or the logout of init, waits for the server
  screen,    \* the renderer shows a user, the login page, or nothing yet
  sent,      \* messages sent so far
  turns      \* wakes and restarts so far

clientVars == <<ws, state, welcomed, shut, queued, timer>>
loginVars == <<store, engine, refresh, leaving, screen>>
vars == <<serverVars, clientVars, loginVars, sent, turns>>

Msgs == 1 .. MaxMsgs
Cleared == [user |-> FALSE, token |-> None]
Idle == [at |-> "idle", token |-> None]

ClientInit ==
  /\ ws = None
  /\ state = "idle"
  /\ welcomed = FALSE
  /\ shut = FALSE
  /\ queued = << >>
  /\ timer = FALSE

Init ==
  /\ EndpointInit
  /\ ClientInit
  /\ store = Cleared
  /\ engine = FALSE
  /\ refresh = Idle
  /\ leaving = Idle
  /\ screen = "login"
  /\ sent = 0
  /\ turns = 0

-----------------------------------------------------------------------------
\* The realtime client.

\* openSocket, with the access token of the store.
OpenSocket(token) ==
  IF token = None
  THEN state' = "closed" /\ UNCHANGED <<ready, tok, ws, welcomed>>
  ELSE /\ FreeSockets # {}
       /\ ready' = [ready EXCEPT ![NewSocket] = "connecting"]
       /\ tok' = [tok EXCEPT ![NewSocket] = token]
       /\ ws' = NewSocket
       /\ state' = IF state \in {"closed", "idle"} THEN "connecting" ELSE "reconnecting"
       /\ welcomed' = FALSE

\* connect: nothing closes the connection that is there, nor stops the timer.
Connect(token) == shut' = FALSE /\ OpenSocket(token)

DropUnsent(msgs, rest, ready1) ==
  IF ws # None /\ ready1[ws] = "open"
  THEN up' = [up EXCEPT ![ws] = @ \o msgs] /\ queued' = rest
  ELSE queued' = rest /\ UNCHANGED up

\* rawSend, of these messages, with this queue and these connections: what
\* cannot be written joins the queue.
RawSend(msgs, rest, ready1) ==
  IF ws # None /\ ready1[ws] = "open"
  THEN up' = [up EXCEPT ![ws] = @ \o msgs] /\ queued' = rest
  ELSE queued' = rest \o msgs /\ UNCHANGED up

\* The part of send that does not reconnect.
Buffer(msgs) ==
  IF ws # None /\ state = "open" /\ welcomed
  THEN RawSend(msgs, queued, ready)
  ELSE queued' = queued \o msgs /\ UNCHANGED up

\* scheduleReconnect
ScheduleReconnect ==
  IF shut THEN UNCHANGED <<state, timer>>
  ELSE state' = "reconnecting" /\ timer' = TRUE

\* disconnect: closes the connection it holds, whatever others there are.
Disconnect ==
  /\ shut' = TRUE
  /\ timer' = FALSE
  /\ state' = "closed"
  /\ ready' = IF ws # None THEN [ready EXCEPT ![ws] = "closing"] ELSE ready

\* The next message, as long as messages are followed.
Emitted == IF sent < MaxMsgs THEN <<DataMsg(sent + 1)>> ELSE << >>
Count == sent' = sent + Len(Emitted)

\* send: an event of the engine, or a vote.
Send ==
  /\ store.user /\ sent < MaxMsgs
  /\ Count
  /\ Buffer(Emitted)
  /\ IF (ws # None /\ state = "open" /\ welcomed) \/ state \in {"connecting", "reconnecting"}
     THEN UNCHANGED <<state, timer>>
     ELSE ScheduleReconnect
  /\ UNCHANGED <<row, ready, down, srv, tok, faults, ws, welcomed, shut, loginVars, turns>>

TryAgain ==
  /\ timer
  /\ timer' = (store.token = None)
  /\ OpenSocket(store.token)
  /\ UNCHANGED <<row, up, down, srv, faults, shut, queued, loginVars, sent, turns>>

\* The reconnect timer fires.
Reconnect ==
  /\ timer
  /\ timer' = FALSE
  /\ OpenSocket(store.token)
  /\ UNCHANGED <<row, up, down, srv, faults, shut, queued, loginVars, sent, turns>>

\* The open event: the hello goes to the connection that the client holds.
Opened(s) ==
  /\ ready[s] = "connecting"
  /\ ready' = [ready EXCEPT ![s] = "open"]
  /\ srv' = [srv EXCEPT ![s] = "fresh"]
  /\ RawSend(<<HelloMsg(tok[s])>>, queued, ready')
  /\ UNCHANGED <<row, down, tok, faults, ws, state, welcomed, shut, timer, loginVars, sent, turns>>

GiveUp(s) ==
  /\ Closed(s)
  /\ Free(s)
  /\ ws' = None
  /\ state' = "closed"
  /\ UNCHANGED <<row, up, down, faults, welcomed, shut, queued, timer, loginVars, sent, turns>>

\* The close event, of any connection.
CloseEvent(s) ==
  /\ Closed(s)
  /\ Free(s)
  /\ ws' = None
  /\ IF shut THEN state' = "closed" /\ UNCHANGED timer ELSE ScheduleReconnect
  /\ UNCHANGED <<row, up, down, faults, welcomed, shut, queued, loginVars, sent, turns>>

\* The heartbeat, which matters when the session of its connection is over.
Heartbeat ==
  /\ state = "open" /\ ws # None
  /\ Evict(ws)
  /\ UNCHANGED <<clientVars, loginVars, sent, turns>>

-----------------------------------------------------------------------------
\* The message event, and what the backend and the renderer make of it.

Receives(s, msg) ==
  /\ ready[s] \in {"open", "closing"}
  /\ down[s] # << >> /\ Head(down[s]) = msg
  /\ down' = [down EXCEPT ![s] = Tail(@)]

\* welcome: flushQueue, and the renderer takes the user of the payload.
Welcomed(s) ==
  /\ Receives(s, "welcome")
  /\ welcomed' = TRUE
  /\ state' = "open"
  /\ RawSend(queued, << >>, ready)
  /\ screen' = "user"
  /\ UNCHANGED <<row, ready, srv, tok, faults, ws, shut, timer,
                 store, engine, refresh, leaving, sent, turns>>

\* A fatal error: neither the backend nor the renderer has a case for it.
Refused(s) ==
  /\ Receives(s, "refused")
  /\ shut' = TRUE
  /\ state' = "closed"
  /\ UNCHANGED <<row, ready, up, srv, tok, faults, ws, welcomed, queued, timer,
                 loginVars, sent, turns>>

\* logout, up to its first await: the engine emits session_end.
Leave(by) ==
  /\ engine' = FALSE
  /\ IF engine THEN Count ELSE UNCHANGED sent
  /\ Disconnect
  /\ leaving' = [at |-> by, token |-> store.token]

\* force_logout: the realtime client has closed by the time the backend logs out.
ForcedOut(s) ==
  /\ Receives(s, "force_logout")
  /\ screen' = "login"
  /\ leaving.at = "idle"
  /\ Leave("forced")
  /\ queued' = IF engine THEN queued \o Emitted ELSE queued
  /\ UNCHANGED <<row, up, srv, tok, faults, ws, welcomed, store, refresh, turns>>

-----------------------------------------------------------------------------
\* The backend.

\* engine.start, after connect: session_start waits for the welcome.
StartEngine ==
  /\ engine' = TRUE
  /\ IF engine THEN UNCHANGED <<queued, sent>> ELSE queued' = queued \o Emitted /\ Count

\* login or join, and completeAuth.
Login ==
  /\ screen = "login" /\ leaving.at = "idle"
  /\ ~row.live /\ row.token < MaxTokens
  /\ row' = Issued(row.token + 1)
  /\ store' = [user |-> TRUE, token |-> row.token + 1]
  /\ Connect(row.token + 1)
  /\ StartEngine \/ UNCHANGED <<engine, queued, sent>>
  /\ screen' = "user"
  /\ UNCHANGED <<up, down, srv, faults, timer, refresh, leaving, turns>>

\* The user logs out.
Logout ==
  /\ screen = "user" /\ leaving.at = "idle"
  /\ Leave("user")
  /\ IF engine THEN Buffer(Emitted) ELSE UNCHANGED <<up, queued>>
  /\ UNCHANGED <<row, down, srv, tok, faults, ws, welcomed, store, refresh, screen, turns>>

\* The server has revoked the session of a token it accepts, or could not be
\* reached; the refresh of init gives it a token it accepts.
LogoutDone ==
  /\ leaving.at # "idle"
  /\ LET known == IF leaving.at = "init" THEN row.live /\ leaving.token = row.token
                  ELSE Accepted(leaving.token)
     IN  \E reached \in BOOLEAN : row' = [row EXCEPT !.live = @ /\ ~(reached /\ known)]
  /\ store' = Cleared
  /\ screen' = IF leaving.at = "user" THEN "login" ELSE screen
  /\ leaving' = Idle
  /\ UNCHANGED <<ready, up, down, srv, tok, faults, clientVars, engine, refresh, sent, turns>>

\* powerMonitor resume: refreshSession, up to its await.
Wake ==
  /\ store.token # None /\ refresh.at = "idle"
  /\ turns < MaxTurns
  /\ turns' = turns + 1
  /\ refresh' = [at |-> "asked", token |-> store.token]
  /\ UNCHANGED <<serverVars, clientVars, store, engine, leaving, screen, sent>>

\* rotateRefresh; the request or the answer may be lost.
RefreshAnswer ==
  /\ refresh.at = "asked"
  /\ \/ /\ row.live /\ refresh.token = row.token /\ row.token < MaxTokens
        /\ row' = Issued(row.first)
        /\ \E answer \in {None, row.token + 1} : refresh' = [at |-> "answered", token |-> answer]
     \/ /\ refresh' = [at |-> "answered", token |-> None]
        /\ UNCHANGED row
  /\ UNCHANGED <<ready, up, down, srv, tok, faults, clientVars, store, engine, leaving, screen,
                 sent, turns>>

\* The rest of refreshSession: it looks at nothing that has changed meanwhile.
RefreshDone ==
  /\ refresh.at = "answered"
  /\ refresh' = Idle
  /\ IF refresh.token = None
     THEN store' = Cleared /\ UNCHANGED <<ready, tok, ws, state, welcomed, shut, engine, queued, sent>>
     ELSE /\ store' = [store EXCEPT !.token = refresh.token]
          /\ Connect(refresh.token)
          /\ StartEngine
  /\ UNCHANGED <<row, up, down, srv, faults, timer, leaving, screen, turns>>

\* The process ends, its connections with it, and starts again: init finds the
\* store as it was.
Restart ==
  /\ turns < MaxTurns
  /\ turns' = turns + 1
  /\ ws' = None /\ state' = "idle" /\ welcomed' = FALSE /\ shut' = FALSE
  /\ queued' = << >> /\ timer' = FALSE
  /\ ready' = [s \in Sockets |-> "free"]
  /\ up' = [s \in Sockets |-> << >>]
  /\ down' = [s \in Sockets |-> << >>]
  /\ srv' = [s \in Sockets |-> "none"]
  /\ tok' = [s \in Sockets |-> None]
  /\ engine' = FALSE
  /\ refresh' = Idle
  /\ leaving' = [at |-> "init", token |-> store.token]
  /\ screen' = "loading"
  /\ UNCHANGED <<row, faults, store, sent>>

\* The renderer's bootstrap shows the user of the store, if there is one still.
Bootstrap ==
  /\ screen = "loading"
  /\ screen' = IF store.user THEN "user" ELSE "login"
  /\ UNCHANGED <<serverVars, clientVars, store, engine, refresh, leaving, sent, turns>>

-----------------------------------------------------------------------------
\* What goes on by itself, and what does not.  The reconnect timer, at most a
\* second once a connection has opened, fires before a hello times out.
ServerStep(s) ==
  /\ ReadHello(s) \/ ReadData(s) \/ (HelloTimeout(s) /\ ~timer)
  /\ UNCHANGED <<clientVars, loginVars, sent, turns>>

ClientStep(s) ==
  Opened(s) \/ CloseEvent(s) \/ Welcomed(s) \/ Refused(s) \/ ForcedOut(s)

Fault ==
  /\ EndSession \/ Expire \/ \E s \in Sockets : Cut(s)
  /\ UNCHANGED <<clientVars, loginVars, sent, turns>>

Next ==
  \/ \E s \in Sockets : ServerStep(s) \/ ClientStep(s)
  \/ Fault
  \/ Send \/ Reconnect \/ Heartbeat
  \/ Login \/ Logout \/ LogoutDone
  \/ Wake \/ RefreshAnswer \/ RefreshDone
  \/ Restart \/ Bootstrap

\* Both processes run, the timer fires, a request ends by an answer or an
\* error.  Nothing obliges users, faults or the machine.
Fairness ==
  /\ \A s \in Sockets : WF_vars(ServerStep(s)) /\ WF_vars(ClientStep(s))
  /\ WF_vars(Reconnect) /\ WF_vars(Heartbeat)
  /\ WF_vars(LogoutDone) /\ WF_vars(RefreshAnswer) /\ WF_vars(RefreshDone)
  /\ WF_vars(Bootstrap)

Spec == Init /\ [][Next]_vars /\ Fairness

-----------------------------------------------------------------------------
Messages == {DataMsg(i) : i \in Msgs} \union {HelloMsg(t) : t \in Tokens \union {None}}

TypeOK ==
  /\ row \in [live : BOOLEAN, first : Tokens \union {None}, token : Tokens \union {None}, expired : BOOLEAN]
  /\ ready \in [Sockets -> {"free", "connecting", "open", "closing"}]
  /\ srv \in [Sockets -> {"none", "fresh", "in", "out", "evicted", "cut"}]
  /\ \A s \in Sockets :
       /\ Range(up[s]) \subseteq Messages
       /\ Range(down[s]) \subseteq {"welcome", "refused", "force_logout"}
       /\ ready[s] = "free" => up[s] = << >> /\ down[s] = << >> /\ srv[s] = "none"
  /\ tok \in [Sockets -> Tokens \union {None}]
  /\ ws \in Sockets \union {None}
  /\ ws # None => ready[ws] # "free"
  /\ state \in {"idle", "connecting", "open", "reconnecting", "closed"}
  /\ Range(queued) \subseteq Messages
  /\ welcomed \in BOOLEAN /\ shut \in BOOLEAN /\ timer \in BOOLEAN /\ engine \in BOOLEAN
  /\ store \in [user : BOOLEAN, token : Tokens \union {None}]
  /\ screen \in {"user", "login", "loading"}

\* "Offline queue: messages sent while disconnected are buffered and flushed on
\* reconnect": whatever connections break, close late or are opened twice, a
\* client that is neither logged out nor turned away writes what it has queued.
Drains == (queued # << >>) ~> (queued = << >> \/ shut \/ store.token = None)

\* No message leaves the client's hands but on an open connection: one that was
\* queued is afterwards queued or written, however the flush goes.
KeptUntilWritten ==
  [][\A i \in DOMAIN queued :
       \/ turns' # turns
       \/ Contains(queued', queued[i])
       \/ \E s \in Sockets : ready[s] = "open" /\ Contains(up'[s], queued[i])]_vars

\* A client without a token does not try for ever: after a logout or a refresh
\* that failed, late close events and the timer lead to no more connections.
GoesQuiet ==
  (store.token = None) ~>
    (store.token # None \/ (~timer /\ \A s \in Sockets : ready[s] # "connecting"))
=============================================================================
