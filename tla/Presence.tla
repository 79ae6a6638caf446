------------------------------ MODULE Presence ------------------------------
(***************************************************************************)
(* The live status of one delegate: the sockets of the delegate's devices  *)
(* and the handlers that serve them (apps/server/src/realtime/ws.ts), the  *)
(* sinks that the broker delivers to (broker.ts), the record that presence *)
(* keeps in memory, the copy in the delegates table (presence.ts), and     *)
(* what a chair's dashboard shows of it.  Records, sinks and rows are      *)
(* keyed by delegate, so delegates do not interfere.                       *)
(*                                                                         *)
(* The server is one thread: a step runs from one await to the next.  A    *)
(* handler does not notice that its socket has closed while it waited.  A  *)
(* record is an object: register replaces it, and a markDisconnected that  *)
(* waits for the database goes on with the object it began with.           *)
(*                                                                         *)
(* An operator that nothing uses is a faulty variant of the one after it.  *)
(***************************************************************************)
EXTENDS Naturals, FiniteSets

CONSTANTS
  Sockets,      \* the connections that the delegate's devices open
  Hellos,       \* the hello messages that one socket may send
  SessionIds,   \* the rows of sessions
  Marks,        \* calls of markDisconnected under way at one time
  None,         \* no sink
  MaxWrites     \* bound: heartbeat UPDATEs under way

ASSUME PresenceConstants ==
  /\ IsFiniteSet(Sockets) /\ IsFiniteSet(Hellos)
  /\ None \notin Hellos
  /\ MaxWrites \in Nat

VARIABLES
  session,     \* the state of each row of sessions
  sock,        \* the server's end of each socket
  of,          \* the session whose token a socket presents
  hello,       \* where the handler of each hello is
  sink,        \* state.sink: the hello that made the sink of a socket
  subscribed,  \* the sinks the broker holds
  check,       \* the session row that a heartbeat's handler has read
  record,      \* the current presence record, 0 when there is none
  status,      \* connectionStatus of every record object made so far
  fresh,       \* the last heartbeat is younger than heartbeatTimeoutMs
  mark,        \* the record object of each markDisconnected, 0 when it is not under way
  writes,      \* fire-and-forget UPDATEs of a heartbeat under way
  db,          \* delegates.connection_status
  force,       \* where a force logout is
  shown        \* the status on the dashboard of a chair who is connected throughout

vars == <<session, sock, of, hello, sink, subscribed, check, record, status,
          fresh, mark, writes, db, force, shown>>

sessionVars  == <<session, force>>
socketVars   == <<sock, of, hello, sink, subscribed, check>>
presenceVars == <<record, status, fresh, mark, writes, db>>

Tasks == Sockets \X Hellos

\* Every hello registers at most once, before and after each restart.
Records == 1 .. Cardinality(Sockets) * Cardinality(Hellos)

Init ==
  /\ session = [x \in SessionIds |-> "none"]
  /\ sock = [s \in Sockets |-> "new"]
  /\ of \in [Sockets -> SessionIds]
  /\ hello = [t \in Tasks |-> "idle"]
  /\ sink = [s \in Sockets |-> None]
  /\ subscribed = {}
  /\ check = [s \in Sockets |-> "none"]
  /\ record = 0
  /\ status = [r \in Records |-> "disconnected"]
  /\ fresh = FALSE
  /\ mark = [m \in Marks |-> 0]
  /\ writes = 0
  /\ db = "disconnected"
  /\ force = "idle"
  /\ shown = "disconnected"

Live(s) == sock[s] = "open" /\ sink[s] # None

-----------------------------------------------------------------------------
\* What several handlers do.

\* broadcastCommittee: a delegate_status reaches the dashboards.
Show(st) == shown' = st

\* closeWith: the server closes its end, unless it is closing already.
CloseEnd(s) ==
  sock' = [sock EXCEPT ![s] = IF @ \in {"open", "lost"} THEN "closing" ELSE @]

\* markDisconnected, up to its first await.  It uses the record of the
\* delegate, whichever socket made it.
MarkDisconnected ==
  IF record = 0 \/ status[record] = "disconnected"
  THEN UNCHANGED <<status, mark>>
  ELSE \E m \in Marks :
         /\ mark[m] = 0
         /\ mark' = [mark EXCEPT ![m] = record]
         /\ status' = [status EXCEPT ![record] = "disconnected"]

-----------------------------------------------------------------------------
\* Sessions, as the sockets see them.

SignIn(x) ==
  /\ session[x] = "none"
  /\ \A y \in SessionIds : session[y] # "live"
  /\ session' = [session EXCEPT ![x] = "live"]
  /\ UNCHANGED <<force, socketVars, presenceVars, shown>>

\* A session ends by age, or is revoked by a later sign-in, an approval or a
\* logout.  The force_logout that login and approveRelogin send goes to the
\* sink whose id is the id of the session, and no sink has such an id.
EndSession(x) ==
  /\ session[x] = "live"
  /\ \E end \in {"expired", "revoked"} : session' = [session EXCEPT ![x] = end]
  /\ UNCHANGED <<force, socketVars, presenceVars, shown>>

\* forceLogoutDelegate: revoke, write the audit entry, then tell the sinks of
\* the delegate and mark the delegate.
ForceRevoke ==
  /\ force = "idle"
  /\ \E x \in SessionIds : session[x] = "live"
  /\ force' = "audit"
  /\ session' = [x \in SessionIds |-> IF session[x] = "none" THEN "none" ELSE "revoked"]
  /\ UNCHANGED <<socketVars, presenceVars, shown>>

ForcePush ==
  /\ force = "audit"
  /\ force' = "idle"
  /\ MarkDisconnected
  /\ UNCHANGED <<session, socketVars, record, fresh, writes, db, shown>>

-----------------------------------------------------------------------------
\* Sockets.

Open(s) ==
  /\ sock[s] = "new"
  /\ session[of[s]] # "none"
  /\ sock' = [sock EXCEPT ![s] = "open"]
  /\ UNCHANGED <<sessionVars, of, hello, sink, subscribed, check, presenceVars, shown>>

\* The client closes, or the network loses the client without a word; much
\* later TCP gives a lost one up.
Drop(s) ==
  /\ \/ sock[s] = "open" /\ \E end \in {"lost", "closing"} : sock' = [sock EXCEPT ![s] = end]
     \/ sock[s] = "lost" /\ sock' = [sock EXCEPT ![s] = "closing"]
  /\ UNCHANGED <<sessionVars, of, hello, sink, subscribed, check, presenceVars, shown>>

\* The close event.
OnDisconnect(s) ==
  /\ sock[s] = "closing"
  /\ sock' = [sock EXCEPT ![s] = "closed"]
  /\ IF sink[s] = None
     THEN UNCHANGED <<subscribed, status, mark>>
     ELSE /\ subscribed' = subscribed \ {<<s, sink[s]>>}
          /\ MarkDisconnected
  /\ UNCHANGED <<sessionVars, of, hello, sink, check, record, fresh, writes, db, shown>>

\* The timer is cleared only when the hello has made its sink.
HelloTimeout(s) ==
  /\ sock[s] \in {"open", "lost"}
  /\ sink[s] = None
  /\ CloseEnd(s)
  /\ UNCHANGED <<sessionVars, of, hello, sink, subscribed, check, presenceVars, shown>>

-----------------------------------------------------------------------------
\* Hello.

HelloMoves(t, from, to) == hello[t] = from /\ hello' = [hello EXCEPT ![t] = to]

\* A second hello is refused only once the first has made its sink.
\* getSessionByAccessToken finds a session that is neither revoked nor expired.
Hello(s, h) ==
  /\ sock[s] = "open"
  /\ sink[s] = None
  /\ IF session[of[s]] = "live"
     THEN HelloMoves(<<s, h>>, "idle", "delegate") /\ UNCHANGED sock
     ELSE HelloMoves(<<s, h>>, "idle", "done") /\ CloseEnd(s)
  /\ UNCHANGED <<sessionVars, of, sink, subscribed, check, presenceVars, shown>>

Subscribe(s, h) ==
  /\ HelloMoves(<<s, h>>, "delegate", "welcome")
  /\ sink' = [sink EXCEPT ![s] = h]
  /\ subscribed' = subscribed \union {<<s, h>>}
  /\ UNCHANGED <<sessionVars, sock, of, check, presenceVars, shown>>

\* A new record object replaces the one there was.
Register(s, h) ==
  /\ HelloMoves(<<s, h>>, "welcome", "done")
  /\ record' = record + 1
  /\ status' = [status EXCEPT ![record + 1] = "connected"]
  /\ fresh' = TRUE
  /\ Show("connected")
  /\ UNCHANGED <<sessionVars, sock, of, sink, subscribed, check, mark, writes, db>>

-----------------------------------------------------------------------------
\* Heartbeats.

\* A client sends heartbeats once it is welcome.  The handler reads whether
\* the session is revoked, not whether it has expired.
TrustHello(x) == "valid"
ReadRevoked(x) == IF session[x] = "revoked" THEN "revoked" ELSE "valid"

Heartbeat(s) ==
  /\ Live(s)
  /\ hello[s, sink[s]] = "done"
  /\ check[s] = "none"
  /\ check' = [check EXCEPT ![s] = ReadRevoked(of[s])]
  /\ UNCHANGED <<sessionVars, sock, of, hello, sink, subscribed, presenceVars, shown>>

\* presence.heartbeat, whatever has become of the socket meanwhile.
KeepsStatus(st) == st
Refreshed(st) == "connected"

Beat(s) ==
  /\ check[s] = "valid"
  /\ check' = [check EXCEPT ![s] = "none"]
  /\ IF record = 0
     THEN UNCHANGED <<status, fresh, writes, shown>>
     ELSE /\ writes < MaxWrites
          /\ status' = [status EXCEPT ![record] = Refreshed(@)]
          /\ fresh' = TRUE
          /\ writes' = writes + 1
          /\ Show(status'[record])
  /\ UNCHANGED <<sessionVars, sock, of, hello, sink, subscribed, record, mark, db>>

Evict(s) ==
  /\ check[s] = "revoked"
  /\ check' = [check EXCEPT ![s] = "none"]
  /\ CloseEnd(s)
  /\ UNCHANGED <<sessionVars, of, hello, sink, subscribed, presenceVars, shown>>

\* The UPDATE of an earlier heartbeat runs, at any time after it.
WriteBeat ==
  /\ writes > 0
  /\ writes' = writes - 1
  /\ db' = "connected"
  /\ UNCHANGED <<sessionVars, socketVars, record, status, fresh, mark, shown>>

\* heartbeatTimeoutMs passes without a heartbeat.
Lapse ==
  /\ fresh
  /\ fresh' = FALSE
  /\ UNCHANGED <<sessionVars, socketVars, record, status, mark, writes, db, shown>>

SweepSubscribed ==
  /\ subscribed # {}
  /\ record # 0 /\ status[record] = "connected" /\ ~fresh
  /\ MarkDisconnected
  /\ UNCHANGED <<sessionVars, socketVars, record, fresh, writes, db, shown>>

Sweep ==
  /\ record # 0 /\ status[record] = "connected" /\ ~fresh
  /\ MarkDisconnected
  /\ UNCHANGED <<sessionVars, socketVars, record, fresh, writes, db, shown>>

-----------------------------------------------------------------------------
\* The rest of markDisconnected: the UPDATE, then the broadcast of the object as
\* it is now; the warning and the audit entry that follow touch nothing here.
MarkWritten(m) ==
  /\ mark[m] # 0
  /\ mark' = [mark EXCEPT ![m] = 0]
  /\ db' = "disconnected"
  /\ Show(status[mark[m]])
  /\ UNCHANGED <<sessionVars, socketVars, record, status, fresh, writes>>

-----------------------------------------------------------------------------
\* The server restarts: the database is all that stays.  The socket slots that
\* were used can be used again by the reconnecting devices.
Crash ==
  /\ sock' = [s \in Sockets |-> "new"]
  /\ hello' = [t \in Tasks |-> "idle"]
  /\ sink' = [s \in Sockets |-> None]
  /\ subscribed' = {}
  /\ check' = [s \in Sockets |-> "none"]
  /\ record' = 0
  /\ status' = [r \in Records |-> "disconnected"]
  /\ fresh' = FALSE
  /\ mark' = [m \in Marks |-> 0]
  /\ writes' = 0
  /\ force' = "idle"
  /\ UNCHANGED <<session, of, db, shown>>

HelloStep(s, h) == Subscribe(s, h) \/ Register(s, h)

SocketStep(s) == OnDisconnect(s) \/ Beat(s) \/ Evict(s)

Next ==
  \/ \E x \in SessionIds : SignIn(x) \/ EndSession(x)
  \/ ForceRevoke \/ ForcePush
  \/ \E s \in Sockets :
       \/ Open(s) \/ Drop(s) \/ HelloTimeout(s) \/ Heartbeat(s) \/ SocketStep(s)
       \/ \E h \in Hellos : Hello(s, h) \/ HelloStep(s, h)
  \/ WriteBeat \/ Lapse \/ Sweep
  \/ \E m \in Marks : MarkWritten(m)
  \/ Crash

\* The server runs what is ready, the database answers, timers fire, time
\* passes, and a client that is connected sends its heartbeats.
Fairness ==
  /\ \A s \in Sockets :
       /\ WF_vars(SocketStep(s)) /\ WF_vars(Heartbeat(s))
       /\ \A h \in Hellos : WF_vars(HelloStep(s, h))
  /\ WF_vars(WriteBeat) /\ WF_vars(Lapse) /\ WF_vars(Sweep)
  /\ \A m \in Marks : WF_vars(MarkWritten(m))

Spec == Init /\ [][Next]_vars /\ Fairness

-----------------------------------------------------------------------------
Statuses == {"connected", "disconnected"}

TypeOK ==
  /\ session \in [SessionIds -> {"none", "live", "expired", "revoked"}]
  /\ sock \in [Sockets -> {"new", "open", "lost", "closing", "closed"}]
  /\ of \in [Sockets -> SessionIds]
  /\ hello \in [Tasks -> {"idle", "delegate", "welcome", "done"}]
  /\ sink \in [Sockets -> Hellos \union {None}]
  /\ subscribed \subseteq Tasks
  /\ check \in [Sockets -> {"none", "valid", "revoked"}]
  /\ record \in Records \union {0}
  /\ status \in [Records -> Statuses]
  /\ mark \in [Marks -> Records \union {0}]
  /\ writes \in 0 .. MaxWrites
  /\ {db, shown} \subseteq Statuses
  /\ fresh \in BOOLEAN
  /\ force \in {"idle", "audit"}

Absent == \A s \in Sockets : sock[s] # "open"

\* A revoked session does not keep its socket.  The server tells neither the
\* device that a new sign-in supersedes nor the one whose place an approval
\* gives away (ws.ts:271-281).
RevokedSocketsClose ==
  \A s \in Sockets :
    (Live(s) /\ session[of[s]] = "revoked") ~> (sock[s] # "open")

\* A delegate who stays connected is shown connected again and again, in
\* memory, in the table and on the dashboard, however late the close of an
\* older socket, a sweep or a write comes (presence.ts:64-84).
ReturnIsSeen ==
  \A s \in Sockets :
    <>[](Live(s) /\ session[of[s]] # "revoked")
      => /\ []<>(record # 0 /\ status[record] = "connected")
         /\ []<>(db = "connected")
         /\ []<>(shown = "connected")

\* A delegate who has gone is not taken for connected for ever, even when a
\* hello or a heartbeat outlives its socket (presence.ts:161-170).
GoneIsNoticed ==
  <>[]Absent => <>[](record = 0 \/ status[record] = "disconnected")
=============================================================================
