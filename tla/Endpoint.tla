------------------------------- MODULE Endpoint -------------------------------
(***************************************************************************)
(* What a delegate's client talks to: the one session of the delegate      *)
(* (apps/server/src/auth), and the connections to the server with what     *)
(* travels on them (apps/server/src/realtime/ws.ts).  The clients of the   *)
(* desktop and of Tauri extend this module with their own half.            *)
(*                                                                         *)
(* A connection delivers in order.  It is lost with all that travels on    *)
(* it, or closes when what was written to it has arrived.  Presence models *)
(* the server's half in detail; here a hello is checked in one step.       *)
(***************************************************************************)
EXTENDS Naturals, SequencesExt

CONSTANTS
  MaxSockets,  \* bounds: connections at one time,
  MaxTokens,   \*         access tokens the server issues,
  MaxFaults    \*         tokens that expire, sessions ended by others, connections broken or refused

ASSUME EndpointConstants == {MaxSockets, MaxTokens, MaxFaults} \subseteq Nat

VARIABLES
  row,     \* the delegate's row of sessions: live, its first and its current token, and whether that has expired
  ready,   \* readyState of the client's end
  up,      \* what the client has written and the server has not read
  down,    \* what the server has sent and the client has not read
  srv,     \* the server's end
  tok,     \* the token a connection is opened with, and that of the hello it sent
  faults   \* how many of those so far

serverVars == <<row, ready, up, down, srv, tok, faults>>

Sockets == 1 .. MaxSockets
Tokens == 1 .. MaxTokens
None == 0

\* Envelopes of a client: a hello with a token, an event or a vote with its id.
HelloMsg(t) == [t |-> "hello", v |-> t]
DataMsg(i) == [t |-> "data", v |-> i]

EndpointInit ==
  /\ row = [live |-> FALSE, first |-> None, token |-> None, expired |-> FALSE]
  /\ ready = [s \in Sockets |-> "free"]
  /\ up = [s \in Sockets |-> << >>]
  /\ down = [s \in Sockets |-> << >>]
  /\ srv = [s \in Sockets |-> "none"]
  /\ tok = [s \in Sockets |-> None]
  /\ faults = 0

\* getSessionByAccessToken: the current token of a live session, in its time.
Accepted(t) == row.live /\ t = row.token /\ ~row.expired

\* The session that the hello of a connection named is live.
Lives(s) == row.live /\ tok[s] >= row.first

\* A token for a session that begins, or the next one of a session that goes on.
Issued(first) == [live |-> TRUE, first |-> first, token |-> row.token + 1, expired |-> FALSE]

-----------------------------------------------------------------------------
\* The server's handlers.

\* handleHello: welcome, or a fatal error and the close.  A second hello on an
\* authenticated connection and one without a token change nothing.
ReadHello(s) ==
  /\ up[s] # << >> /\ Head(up[s]).t = "hello"
  /\ up' = [up EXCEPT ![s] = Tail(@)]
  /\ LET t == Head(up[s]).v IN
     IF srv[s] = "fresh" /\ t # None
     THEN /\ srv' = [srv EXCEPT ![s] = IF Accepted(t) THEN "in" ELSE "out"]
          /\ tok' = [tok EXCEPT ![s] = t]
          /\ down' = [down EXCEPT ![s] = Append(@, IF Accepted(t) THEN "welcome" ELSE "refused")]
     ELSE UNCHANGED <<srv, tok, down>>
  /\ UNCHANGED <<row, ready, faults>>

\* An event or a vote; the server refuses it on a connection without a sink.
ReadData(s) ==
  /\ up[s] # << >> /\ Head(up[s]).t = "data"
  /\ up' = [up EXCEPT ![s] = Tail(@)]
  /\ UNCHANGED <<row, ready, down, srv, tok, faults>>

\* HELLO_TIMEOUT_MS pass: the timing assumption is that a connection opens, and
\* a hello arrives, in less.
HelloTimeout(s) ==
  /\ srv[s] = "fresh"
  /\ \A r \in Sockets : ready[r] # "connecting" /\ up[r] = << >>
  /\ srv' = [srv EXCEPT ![s] = "out"]
  /\ UNCHANGED <<row, ready, up, down, tok, faults>>

\* A heartbeat of a connection whose session is over: force_logout and close.
Evict(s) ==
  /\ srv[s] = "in" /\ ready[s] = "open" /\ ~Lives(s)
  /\ srv' = [srv EXCEPT ![s] = "evicted"]
  /\ down' = [down EXCEPT ![s] = Append(@, "force_logout")]
  /\ UNCHANGED <<row, ready, up, tok, faults>>

Faulty == faults < MaxFaults /\ faults' = faults + 1

\* A chair or an administrator ends the session.  forceLogoutDelegate tells the
\* delegate's connections; an approved re-login and age tell nobody.
EndSession ==
  /\ row.live /\ Faulty
  /\ row' = [row EXCEPT !.live = FALSE]
  /\ \E told \in BOOLEAN :
       down' = [s \in Sockets |->
                  IF told /\ srv[s] = "in" THEN Append(down[s], "force_logout") ELSE down[s]]
  /\ UNCHANGED <<ready, up, srv, tok>>

\* accessTtlSeconds pass.
Expire ==
  /\ row.live /\ ~row.expired /\ Faulty
  /\ row' = [row EXCEPT !.expired = TRUE]
  /\ UNCHANGED <<ready, up, down, srv, tok>>

-----------------------------------------------------------------------------
\* The network, and what the clients do to a connection.

\* A connection breaks, or cannot be made: the close event is all that follows.
Cut(s) ==
  /\ ready[s] # "free" /\ srv[s] # "cut"
  /\ Faulty
  /\ ready' = [ready EXCEPT ![s] = "closing"]
  /\ srv' = [srv EXCEPT ![s] = "cut"]
  /\ up' = [up EXCEPT ![s] = << >>]
  /\ down' = [down EXCEPT ![s] = << >>]
  /\ UNCHANGED <<row, tok>>

\* A connection of which the close event is due: either end has closed it and
\* all that was written has been read.
Closed(s) ==
  /\ ready[s] = "closing" \/ (ready[s] = "open" /\ srv[s] \in {"out", "evicted"})
  /\ up[s] = << >> /\ down[s] = << >>

Free(s) ==
  /\ ready' = [ready EXCEPT ![s] = "free"]
  /\ srv' = [srv EXCEPT ![s] = "none"]
  /\ tok' = [tok EXCEPT ![s] = None]

\* The connection a client opens next.
FreeSockets == {s \in Sockets : ready[s] = "free"}
NewSocket == CHOOSE s \in FreeSockets : \A r \in FreeSockets : s <= r

=============================================================================
