-------------------------------- MODULE Tauri --------------------------------
(***************************************************************************)
(* The Tauri client of one delegate (apps/tauri-desktop/src/api.ts): its   *)
(* connection, which is a WebSocket of the webview and has no offline      *)
(* queue, its sign-in and sign-out, and the interval that samples the      *)
(* foreground window.                                                      *)
(*                                                                         *)
(* A handler is one step.  The handlers of a connection work on activeWs,  *)
(* whichever connection that is by then, and a timer that a later one has  *)
(* replaced in reconnectTimer can no longer be cleared.  What a sample is  *)
(* made into is the subject of Reporting; here it is an event or nothing.  *)
(* refreshSession is left out: no page calls it.                           *)
(*                                                                         *)
(* An operator that nothing uses is a faulty variant of the one after it.  *)
(***************************************************************************)
EXTENDS Endpoint

CONSTANTS
  MaxPolls,      \* bounds: samples asked for at one time,
  MaxCommands,   \*         pauses and resumptions of monitoring,
  MaxWritten     \*         messages on the way to the server while samples add to them

ASSUME TauriConstants == {MaxPolls, MaxCommands, MaxWritten} \subseteq Nat

VARIABLES
  ws,         \* activeWs, None when it is null
  shut,       \* intentionallyClosed
  timer,      \* the timer in reconnectTimer is armed
  stray,      \* armed timers that reconnectTimer has forgotten
  store,      \* the access token in localStorage
  screen,     \* the store of the pages has a user, or the login page is shown
  leaving,    \* a logout waits for the server, with the token it sent
  on,         \* monitorActive
  paused,     \* monitorPaused
  intervals,  \* intervals that call monitorPoll
  handle,     \* monitorTimer holds one of them
  polls,      \* calls of monitorPoll that wait for a sample
  standby,    \* the server has paused monitoring
  commands    \* pauses and resumptions so far

wsVars == <<ws, shut, timer, stray>>
loginVars == <<store, screen, leaving>>
monitorVars == <<on, paused, intervals, handle, polls>>
boundVars == <<standby, commands>>
vars == <<serverVars, wsVars, loginVars, monitorVars, boundVars>>

Idle == [at |-> "idle", token |-> None]

ClientInit ==
  /\ ws = None /\ shut = FALSE /\ timer = FALSE /\ stray = 0
  /\ store = None /\ screen = "login" /\ leaving = Idle
  /\ on = FALSE /\ paused = FALSE /\ intervals = 0 /\ handle = FALSE /\ polls = 0

Init ==
  /\ EndpointInit
  /\ ClientInit
  /\ standby = FALSE /\ commands = 0

-----------------------------------------------------------------------------
\* The connection.

\* An event is written to an open connection, or it is gone.
Write(msgs, ready1) ==
  up' = IF ws # None /\ ready1[ws] = "open" THEN [up EXCEPT ![ws] = @ \o msgs] ELSE up

\* connectRealtime, which clears the timer it knows of (armed says whether it
\* is armed still).
ConnectRealtime(token, armed) ==
  IF token = None
  THEN timer' = armed /\ UNCHANGED <<ready, tok, ws, shut>>
  ELSE /\ FreeSockets # {}
       /\ ready' = [s \in Sockets |->
                      IF s = ws THEN "closing" ELSE IF s = NewSocket THEN "connecting" ELSE ready[s]]
       /\ tok' = [tok EXCEPT ![NewSocket] = token]
       /\ ws' = NewSocket
       /\ shut' = FALSE
       /\ timer' = FALSE

\* disconnectRealtime; the connection is forgotten when its close event comes.
Close == ready' = IF ws # None THEN [ready EXCEPT ![ws] = "closing"] ELSE ready

\* A reconnect timer fires: the one in reconnectTimer, or another.
Reconnect ==
  /\ \/ timer /\ ConnectRealtime(store, FALSE) /\ UNCHANGED stray
     \/ stray > 0 /\ stray' = stray - 1 /\ ConnectRealtime(store, timer)
  /\ UNCHANGED <<row, up, down, srv, faults, loginVars, monitorVars, boundVars>>

\* onopen: the hello goes to activeWs, if that is an open connection.
OnOpen(s) ==
  /\ ready[s] = "connecting"
  /\ ready' = [ready EXCEPT ![s] = "open"]
  /\ srv' = [srv EXCEPT ![s] = "fresh"]
  /\ Write(<<HelloMsg(tok[s])>>, ready')
  /\ UNCHANGED <<row, down, tok, faults, wsVars, loginVars, monitorVars, boundVars>>

CloseOnce(s) ==
  /\ Closed(s)
  /\ Free(s)
  /\ ws' = None
  /\ UNCHANGED <<row, up, down, faults, shut, timer, stray, loginVars, monitorVars, boundVars>>

\* onclose, of any connection.
OnClose(s) ==
  /\ Closed(s)
  /\ Free(s)
  /\ ws' = None
  /\ IF shut THEN UNCHANGED <<timer, stray>>
     ELSE timer' = TRUE /\ stray' = stray + (IF timer THEN 1 ELSE 0)
  /\ UNCHANGED <<row, up, down, faults, shut, loginVars, monitorVars, boundVars>>

\* The heartbeat, which matters when the session of its connection is over.
Heartbeat ==
  /\ ws # None /\ down[ws] = << >>
  /\ Evict(ws)
  /\ UNCHANGED <<wsVars, loginVars, monitorVars, boundVars>>

-----------------------------------------------------------------------------
\* Monitoring.

\* monitorPoll, up to its sample; the sample may find nothing to do.
PollBegins == polls' = IF polls < MaxPolls THEN polls + 1 ELSE polls

SetInterval == intervals' = intervals + 1 /\ handle' = TRUE /\ PollBegins

ClearInterval ==
  /\ intervals' = IF handle THEN intervals - 1 ELSE intervals
  /\ handle' = FALSE
  /\ UNCHANGED polls

\* startMonitoring: session_start, and the first sample.
StartMonitoring ==
  IF on THEN UNCHANGED monitorVars
  ELSE on' = TRUE /\ paused' = FALSE /\ SetInterval

\* stopMonitoring: session_end goes out while the connection is open.
StopMonitoring ==
  IF on THEN on' = FALSE /\ ClearInterval /\ UNCHANGED paused
  ELSE UNCHANGED monitorVars

\* The interval fires.
Tick ==
  /\ intervals > 0 /\ ~paused /\ store # None
  /\ polls < MaxPolls
  /\ polls' = polls + 1
  /\ UNCHANGED <<serverVars, wsVars, loginVars, on, paused, intervals, handle, boundVars>>

\* The sample arrives, whatever has happened to monitoring meanwhile: an event
\* if there is something to report and still a delegate.
Sampled ==
  /\ polls > 0
  /\ polls' = polls - 1
  /\ \/ store # None /\ \A s \in Sockets : Len(up[s]) < MaxWritten
        /\ Write(<<DataMsg(0)>>, ready)
     \/ UNCHANGED up
  /\ UNCHANGED <<row, ready, down, srv, tok, faults, wsVars, loginVars,
                 on, paused, intervals, handle, boundVars>>

-----------------------------------------------------------------------------
\* handleServerEnvelope, and then the pages' dispatchEvent.

Receives(s, msg) ==
  /\ ready[s] = "open"
  /\ down[s] # << >> /\ Head(down[s]) = msg
  /\ down' = [down EXCEPT ![s] = Tail(@)]

\* A connection that is closing drops what arrives.
Discard(s) ==
  /\ ready[s] = "closing" /\ down[s] # << >>
  /\ down' = [down EXCEPT ![s] = Tail(@)]
  /\ UNCHANGED <<row, ready, up, srv, tok, faults, wsVars, loginVars, monitorVars, boundVars>>

Welcomed(s) ==
  /\ Receives(s, "welcome")
  /\ screen' = "user"
  /\ UNCHANGED <<row, ready, up, srv, tok, faults, wsVars, store, leaving, monitorVars, boundVars>>

\* A fatal error: nothing has a case for it.
Refused(s) ==
  /\ Receives(s, "refused")
  /\ UNCHANGED <<row, ready, up, srv, tok, faults, wsVars, loginVars, monitorVars, boundVars>>

\* pauseMonitoring, of an engine that is on or not.
Paused(s) ==
  /\ Receives(s, "monitoring_paused")
  /\ paused' = TRUE
  /\ ClearInterval
  /\ UNCHANGED <<row, ready, up, srv, tok, faults, wsVars, loginVars, on, boundVars>>

ResumeAnyway(s) ==
  /\ Receives(s, "monitoring_resumed")
  /\ paused' = FALSE /\ SetInterval
  /\ UNCHANGED <<row, ready, up, srv, tok, faults, wsVars, loginVars, on, boundVars>>

\* resumeMonitoring
Resumed(s) ==
  /\ Receives(s, "monitoring_resumed")
  /\ IF on /\ paused THEN paused' = FALSE /\ SetInterval
     ELSE UNCHANGED <<paused, intervals, handle, polls>>
  /\ UNCHANGED <<row, ready, up, srv, tok, faults, wsVars, loginVars, on, boundVars>>

\* The reconnect timer is not cleared.
ForcedOut(s) ==
  /\ Receives(s, "force_logout")
  /\ StopMonitoring
  /\ IF on THEN Write(<<DataMsg(0)>>, ready) ELSE UNCHANGED up
  /\ shut' = TRUE
  /\ Close
  /\ store' = None
  /\ screen' = "login"
  /\ UNCHANGED <<row, srv, tok, faults, ws, timer, stray, leaving, boundVars>>

-----------------------------------------------------------------------------
\* Signing in and out.

\* login or join, and completeAuth.  The session_start of startMonitoring finds
\* a connection that is not open yet.
Login ==
  /\ screen = "login" /\ leaving.at = "idle"
  /\ ~row.live /\ row.token < MaxTokens
  /\ row' = Issued(row.token + 1)
  /\ store' = row.token + 1
  /\ ConnectRealtime(store', FALSE)
  /\ IF standby THEN UNCHANGED monitorVars ELSE StartMonitoring
  /\ screen' = "user"
  /\ UNCHANGED <<up, down, srv, faults, stray, leaving, boundVars>>

\* logout, up to its await.
Logout ==
  /\ screen = "user" /\ leaving.at = "idle"
  /\ StopMonitoring
  /\ IF on THEN Write(<<DataMsg(0)>>, ready) ELSE UNCHANGED up
  /\ shut' = TRUE
  /\ timer' = FALSE
  /\ Close
  /\ leaving' = [at |-> "user", token |-> store]
  /\ UNCHANGED <<row, down, srv, tok, faults, ws, stray, store, screen, boundVars>>

\* The server has revoked the session of a token it accepts, or was not reached.
LogoutDone ==
  /\ leaving.at # "idle"
  /\ \E reached \in BOOLEAN :
       row' = [row EXCEPT !.live = @ /\ ~(reached /\ Accepted(leaving.token))]
  /\ store' = None
  /\ screen' = "login"
  /\ leaving' = Idle
  /\ UNCHANGED <<ready, up, down, srv, tok, faults, wsVars, monitorVars, boundVars>>

\* The application starts again: loading the module clears the store, and
\* bootstrap's logout finds no token to revoke.  It counts as a fault.
Restart ==
  /\ Faulty
  /\ ready' = [s \in Sockets |-> "free"]
  /\ up' = [s \in Sockets |-> << >>]
  /\ down' = [s \in Sockets |-> << >>]
  /\ srv' = [s \in Sockets |-> "none"]
  /\ tok' = [s \in Sockets |-> None]
  /\ ws' = None /\ shut' = TRUE /\ timer' = FALSE /\ stray' = 0
  /\ store' = None /\ screen' = "login" /\ leaving' = Idle
  /\ on' = FALSE /\ paused' = FALSE /\ intervals' = 0 /\ handle' = FALSE /\ polls' = 0
  /\ UNCHANGED <<row, standby, commands>>

\* The committee's monitoring is paused or resumed (module Committee).
Command ==
  /\ commands < MaxCommands
  /\ commands' = commands + 1
  /\ standby' = ~standby
  /\ down' = [s \in Sockets |->
                IF srv[s] = "in"
                THEN Append(down[s], IF standby THEN "monitoring_resumed" ELSE "monitoring_paused")
                ELSE down[s]]
  /\ UNCHANGED <<row, ready, up, srv, tok, faults, wsVars, loginVars, monitorVars>>

-----------------------------------------------------------------------------
\* A reconnect timer is three seconds, a hello timeout ten.
ServerStep(s) ==
  /\ ReadHello(s) \/ ReadData(s) \/ (HelloTimeout(s) /\ ~timer /\ stray = 0)
  /\ UNCHANGED <<wsVars, loginVars, monitorVars, boundVars>>

ClientStep(s) ==
  \/ OnOpen(s) \/ OnClose(s) \/ Discard(s)
  \/ Welcomed(s) \/ Refused(s) \/ Paused(s) \/ Resumed(s) \/ ForcedOut(s)

Fault ==
  /\ EndSession \/ Expire \/ \E s \in Sockets : Cut(s)
  /\ UNCHANGED <<wsVars, loginVars, monitorVars, boundVars>>

Next ==
  \/ \E s \in Sockets : ServerStep(s) \/ ClientStep(s)
  \/ Fault
  \/ Reconnect \/ Heartbeat \/ Tick \/ Sampled
  \/ Login \/ Logout \/ LogoutDone \/ Restart \/ Command

\* Both processes run, timers fire, a request ends by an answer or an error.
Fairness ==
  /\ \A s \in Sockets : WF_vars(ServerStep(s)) /\ WF_vars(ClientStep(s))
  /\ WF_vars(Reconnect) /\ WF_vars(Heartbeat) /\ WF_vars(Sampled) /\ WF_vars(LogoutDone)

Spec == Init /\ [][Next]_vars /\ Fairness

-----------------------------------------------------------------------------
TypeOK ==
  /\ ready \in [Sockets -> {"free", "connecting", "open", "closing"}]
  /\ srv \in [Sockets -> {"none", "fresh", "in", "out", "evicted", "cut"}]
  /\ ws \in Sockets \union {None}
  /\ ws # None => ready[ws] # "free"
  /\ {shut, timer, on, paused, handle, standby} \subseteq BOOLEAN
  /\ stray \in Nat
  /\ store \in Tokens \union {None}
  /\ screen \in {"user", "login"}
  /\ intervals \in Nat /\ polls \in 0 .. MaxPolls

\* Monitoring samples at one rate or not at all: through pauses of an engine
\* that is off, logins, stops and resumptions in every order and from every
\* connection, one interval runs if monitoring is on and not paused, and none
\* otherwise, and it is the one that can be cleared.
OneInterval ==
  /\ intervals = (IF on /\ ~paused THEN 1 ELSE 0)
  /\ handle <=> intervals = 1

\* A delegate who is logged in, with a token that the server accepts, gets a
\* connection the server has authenticated: whichever connection's events come
\* late, the client does not end with a connection that nobody has greeted.
Returns ==
  (store # None) ~>
    \/ store = None \/ shut \/ ~Accepted(store)
    \/ \E s \in Sockets : ready[s] = "open" /\ srv[s] = "in"
=============================================================================
