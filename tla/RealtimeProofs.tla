---------------------------- MODULE RealtimeProofs -----------------------------
(***************************************************************************)
(* Theorems about Realtime: the values of its variables, and that a queued *)
(* message is kept until it is written to an open connection, for every    *)
(* number of connections, tokens, messages and faults.                     *)
(***************************************************************************)
EXTENDS Realtime, SequenceTheorems, WellFoundedInduction, TLAPS

-----------------------------------------------------------------------------
\* The inductive invariant.

Envelopes == {"welcome", "refused", "force_logout"}

Net ==
  /\ row \in [live : BOOLEAN, first : Tokens \union {None}, token : Tokens \union {None},
              expired : BOOLEAN]
  /\ ready \in [Sockets -> {"free", "connecting", "open", "closing"}]
  /\ srv \in [Sockets -> {"none", "fresh", "in", "out", "evicted", "cut"}]
  /\ up \in [Sockets -> Seq(Messages)] /\ down \in [Sockets -> Seq(Envelopes)]
  /\ tok \in [Sockets -> Tokens \union {None}]
  /\ \A s \in Sockets : ready[s] = "free" => up[s] = << >> /\ down[s] = << >> /\ srv[s] = "none"

Client ==
  /\ ws \in Sockets \union {None}
  /\ ws # None => ready[ws] # "free"
  /\ state \in {"idle", "connecting", "open", "reconnecting", "closed"}
  /\ queued \in Seq(Messages)
  /\ welcomed \in BOOLEAN /\ shut \in BOOLEAN /\ timer \in BOOLEAN

Desk ==
  /\ store \in [user : BOOLEAN, token : Tokens \union {None}]
  /\ engine \in BOOLEAN
  /\ refresh \in [at : {"idle", "asked", "answered"}, token : Tokens \union {None}]
  /\ leaving \in [at : {"idle", "user", "forced", "init"}, token : Tokens \union {None}]
  /\ screen \in {"user", "login", "loading"}
  /\ sent \in Nat

RtInv == Net /\ Client /\ Desk

\* What is queued is afterwards queued, or written to an open connection.
Kept ==
  \A i \in DOMAIN queued :
    \/ Contains(queued', queued[i])
    \/ \E s \in Sockets : ready[s] = "open" /\ Contains(up'[s], queued[i])

-----------------------------------------------------------------------------
\* Operators.

\* A set of numbers has a least one, so there is a NewSocket while one is free.
LEMMA Least ==
  ASSUME NEW S, S \subseteq Nat, S # {}
  PROVE  \E m \in S : \A k \in S : m <= k
<1> DEFINE R == OpToRel(<, Nat)
<1>1. IsWellFoundedOn(R, Nat)
  BY NatLessThanWellFounded
<1>2. ASSUME NEW x \in Nat, NEW y \in Nat, y < x PROVE <<y, x>> \in R
  BY <1>2 DEF OpToRel
<1> HIDE DEF R
<1>3. PICK x \in S : \A y \in S : ~(<<y, x>> \in R)
  BY <1>1, WFMin
<1>4. ASSUME NEW y \in S PROVE x <= y
  <2>1. x \in Nat /\ y \in Nat
    OBVIOUS
  <2>2. ~(y < x)
    BY <1>2, <1>3, <2>1
  <2> QED BY <2>1, <2>2
<1> QED BY <1>4

LEMMA NewSocketIsFree ==
  ASSUME FreeSockets # {}
  PROVE  NewSocket \in Sockets /\ ready[NewSocket] = "free"
<1>1. FreeSockets \subseteq Nat
  BY EndpointConstants DEF FreeSockets, Sockets
<1>2. \E s \in FreeSockets : \A r \in FreeSockets : s <= r
  BY <1>1, Least
<1>3. NewSocket \in FreeSockets
  BY <1>2 DEF NewSocket
<1> QED BY <1>3 DEF FreeSockets

LEMMA ConstantFacts ==
  /\ 0 \in Tokens \union {None} /\ None = 0 /\ None \notin Sockets
  /\ Tokens \subseteq Nat /\ Sockets \subseteq Nat
  /\ << >> \in Seq(Messages) /\ << >> \in Seq(Envelopes)
  /\ \A t \in Tokens \union {None} : <<HelloMsg(t)>> \in Seq(Messages)
  /\ \A e \in Envelopes : <<e>> \in Seq(Envelopes)
<1>1. /\ 0 \in Tokens \union {None} /\ None = 0 /\ None \notin Sockets
      /\ Tokens \subseteq Nat /\ Sockets \subseteq Nat
  BY EndpointConstants DEF None, Sockets, Tokens
<1>2. \A t \in Tokens \union {None} : HelloMsg(t) \in Messages
  BY DEF Messages
<1>3. \A t \in Tokens \union {None} : <<HelloMsg(t)>> \in Seq(Messages)
  BY <1>2
<1> QED BY <1>1, <1>3

\* The next message of the engine is one that is followed, or none.
LEMMA EmittedFacts ==
  ASSUME sent \in Nat
  PROVE  Emitted \in Seq(Messages) /\ (Count => sent' \in Nat)
<1>1. CASE sent < MaxMsgs
  <2>1. sent + 1 \in Msgs
    BY <1>1, RealtimeConstants DEF Msgs
  <2>2. DataMsg(sent + 1) \in Messages
    BY <2>1 DEF Messages
  <2>3. Emitted = <<DataMsg(sent + 1)>>
    BY <1>1 DEF Emitted
  <2> QED BY <2>2, <2>3 DEF Count
<1>2. CASE ~(sent < MaxMsgs)
  <2>1. Emitted = << >>
    BY <1>2 DEF Emitted
  <2> QED BY <2>1 DEF Count
<1> QED BY <1>1, <1>2

\* openSocket opens a connection that was free, or none.
LEMMA OpenFacts ==
  ASSUME RtInv, NEW token \in Tokens \union {None}, OpenSocket(token)
  PROVE  /\ ready' \in [Sockets -> {"free", "connecting", "open", "closing"}]
         /\ \A s \in Sockets : ready'[s] = "free" => ready[s] = "free"
         /\ tok' \in [Sockets -> Tokens \union {None}]
         /\ ws' \in Sockets \union {None}
         /\ ws' # None => ready'[ws'] # "free"
         /\ state' \in {"idle", "connecting", "open", "reconnecting", "closed"}
         /\ welcomed' \in BOOLEAN
<1>1. CASE token = None
  BY <1>1 DEF OpenSocket, RtInv, Net, Client
<1>2. CASE token # None
  <2>1. /\ FreeSockets # {} /\ ready' = [ready EXCEPT ![NewSocket] = "connecting"]
        /\ tok' = [tok EXCEPT ![NewSocket] = token] /\ ws' = NewSocket
        /\ state' \in {"connecting", "reconnecting"} /\ welcomed' = FALSE
    BY <1>2 DEF OpenSocket
  <2>2. NewSocket \in Sockets
    BY <2>1, NewSocketIsFree
  <2> HIDE DEF NewSocket
  <2> QED BY <2>1, <2>2 DEF RtInv, Net
<1> QED BY <1>1, <1>2

\* rawSend writes to the connection the client holds, if that is open, or
\* appends to the queue that is left.
LEMMA RawFacts ==
  ASSUME RtInv, NEW msgs \in Seq(Messages), NEW rest \in Seq(Messages), NEW ready1,
         RawSend(msgs, rest, ready1)
  PROVE  /\ up' \in [Sockets -> Seq(Messages)] /\ queued' \in Seq(Messages)
         /\ \A s \in Sockets : up'[s] # up[s] => ready1[s] = "open"
         /\ queued' = rest \/ queued' = rest \o msgs
         /\ \A i \in 1 .. Len(msgs) :
              \/ Contains(queued', msgs[i])
              \/ \E s \in Sockets : ready1[s] = "open" /\ Contains(up'[s], msgs[i])
<1>1. CASE ws # None /\ ready1[ws] = "open"
  <2>1. up' = [up EXCEPT ![ws] = up[ws] \o msgs] /\ queued' = rest /\ ws \in Sockets
    BY <1>1 DEF RawSend, RtInv, Client
  <2>2. up[ws] \in Seq(Messages) /\ up \in [Sockets -> Seq(Messages)]
    BY <2>1 DEF RtInv, Net
  <2>3. up[ws] \o msgs \in Seq(Messages)
    BY <2>2
  <2>4. up'[ws] = up[ws] \o msgs /\ \A s \in Sockets : s # ws => up'[s] = up[s]
    BY <2>1, <2>2
  <2>5. ASSUME NEW i \in 1 .. Len(msgs) PROVE Contains(up'[ws], msgs[i])
    <3>1. Len(up[ws]) + i \in 1 .. Len(up[ws] \o msgs) /\ (up[ws] \o msgs)[Len(up[ws]) + i] = msgs[i]
      <4> HIDE DEF Messages
      <4> QED BY <2>2
    <3> QED BY <2>4, <3>1 DEF Contains
  <2>6. up' \in [Sockets -> Seq(Messages)]
    BY <2>1, <2>2, <2>3
  <2> QED BY <1>1, <2>1, <2>4, <2>5, <2>6
<1>2. CASE ~(ws # None /\ ready1[ws] = "open")
  <2>1. up' = up /\ queued' = rest \o msgs
    BY <1>2 DEF RawSend
  <2>2. rest \o msgs \in Seq(Messages)
    OBVIOUS
  <2>3. ASSUME NEW i \in 1 .. Len(msgs) PROVE Contains(queued', msgs[i])
    <3>1. Len(rest) + i \in 1 .. Len(rest \o msgs) /\ (rest \o msgs)[Len(rest) + i] = msgs[i]
      <4> HIDE DEF Messages
      <4> QED OBVIOUS
    <3> QED BY <2>1, <3>1 DEF Contains
  <2> QED BY <2>1, <2>2, <2>3 DEF RtInv, Net
<1> QED BY <1>1, <1>2

\* What is buffered is written or queued.
LEMMA BufferFacts ==
  ASSUME RtInv, NEW msgs \in Seq(Messages), Buffer(msgs)
  PROVE  /\ up' \in [Sockets -> Seq(Messages)] /\ queued' \in Seq(Messages)
         /\ \A s \in Sockets : up'[s] # up[s] => ready[s] = "open"
         /\ queued' = queued \/ queued' = queued \o msgs
<1>1. queued \in Seq(Messages)
  BY DEF RtInv, Client
<1>2. CASE ws # None /\ state = "open" /\ welcomed
  <2>1. RawSend(msgs, queued, ready)
    BY <1>2 DEF Buffer
  <2> QED BY <1>1, <2>1, RawFacts
<1>3. CASE ~(ws # None /\ state = "open" /\ welcomed)
  <2>1. queued' = queued \o msgs /\ up' = up
    BY <1>3 DEF Buffer
  <2>2. queued \o msgs \in Seq(Messages)
    BY <1>1
  <2> QED BY <2>1, <2>2 DEF RtInv, Net
<1> QED BY <1>2, <1>3

\* A queue that stays, or to which something is appended, keeps what it had.
LEMMA QueueKept ==
  ASSUME queued \in Seq(Messages),
         queued' = queued \/ \E msgs \in Seq(Messages) : queued' = queued \o msgs
  PROVE  Kept
<1> SUFFICES ASSUME NEW i \in DOMAIN queued PROVE Contains(queued', queued[i])
  BY DEF Kept
<1>1. i \in 1 .. Len(queued) /\ Len(queued) \in Nat
  OBVIOUS
<1>2. CASE queued' = queued
  BY <1>1, <1>2 DEF Contains
<1>3. ASSUME NEW msgs \in Seq(Messages), queued' = queued \o msgs
      PROVE  Contains(queued', queued[i])
  <2>1. i \in 1 .. Len(queued \o msgs) /\ (queued \o msgs)[i] = queued[i]
    <3> HIDE DEF Messages
    <3> QED BY <1>1
  <2> QED BY <1>3, <2>1 DEF Contains
<1> QED BY <1>2, <1>3

LEMMA RtStart == Init => RtInv
<1> SUFFICES ASSUME Init PROVE RtInv
  OBVIOUS
<1>1. Net
  BY ConstantFacts DEF Init, EndpointInit, Net
<1>2. Client
  BY ConstantFacts DEF Init, ClientInit, Client
<1>3. Desk
  BY ConstantFacts DEF Init, Desk, Cleared, Idle
<1> QED BY <1>1, <1>2, <1>3 DEF RtInv

(***************************************************************************)
(* Steps of the server and of the network.                                 *)
(***************************************************************************)

\* They leave the client as it is.
LEMMA OutsideStep ==
  ASSUME RtInv, UNCHANGED <<clientVars, loginVars, sent>>, Net',
         \A s \in Sockets : ready'[s] = "free" => ready[s] = "free"
  PROVE  RtInv' /\ Kept
<1>0. /\ UNCHANGED <<ws, state, welcomed, shut, queued, timer>>
      /\ UNCHANGED <<store, engine, refresh, leaving, screen>>
  BY DEF clientVars, loginVars
<1>1. Client'
  BY <1>0 DEF RtInv, Client
<1>2. Desk'
  BY <1>0 DEF RtInv, Desk
<1>3. Kept
  BY <1>0, QueueKept DEF RtInv, Client
<1> QED BY <1>1, <1>2, <1>3 DEF RtInv

LEMMA ReadHelloKeeps ==
  ASSUME RtInv, NEW s \in Sockets, ReadHello(s)
  PROVE  Net' /\ ready' = ready
<1> DEFINE t == Head(up[s]).v
<1>0. /\ up[s] # << >> /\ Head(up[s]).t = "hello" /\ up' = [up EXCEPT ![s] = Tail(up[s])]
      /\ UNCHANGED <<row, ready>>
  BY DEF ReadHello
<1>1. up[s] \in Seq(Messages) /\ down[s] \in Seq(Envelopes) /\ ready[s] # "free"
  BY <1>0 DEF RtInv, Net
<1>2. Head(up[s]) \in Messages /\ Tail(up[s]) \in Seq(Messages)
  <2> HIDE DEF Messages
  <2> QED BY <1>0, <1>1
<1>3. t \in Tokens \union {None}
  BY <1>0, <1>2 DEF Messages, HelloMsg, DataMsg
<1>4. CASE srv[s] = "fresh" /\ t # None
  <2>1. PICK e \in Envelopes, a \in {"in", "out"} :
          /\ srv' = [srv EXCEPT ![s] = a] /\ tok' = [tok EXCEPT ![s] = t]
          /\ down' = [down EXCEPT ![s] = Append(down[s], e)]
    BY <1>4 DEF ReadHello, Envelopes
  <2>2. Append(down[s], e) \in Seq(Envelopes)
    BY <1>1
  <2> QED BY <1>0, <1>1, <1>2, <1>3, <2>1, <2>2 DEF RtInv, Net
<1>5. CASE ~(srv[s] = "fresh" /\ t # None)
  <2>1. UNCHANGED <<srv, tok, down>>
    BY <1>5 DEF ReadHello
  <2> QED BY <1>0, <1>1, <1>2, <2>1 DEF RtInv, Net
<1> QED BY <1>4, <1>5

LEMMA ServerKeeps ==
  ASSUME RtInv, NEW s \in Sockets, ReadHello(s) \/ ReadData(s) \/ HelloTimeout(s) \/ Evict(s)
  PROVE  Net' /\ ready' = ready
<1>1. CASE ReadHello(s)
  BY <1>1, ReadHelloKeeps
<1>2. CASE ReadData(s)
  <2>1. up[s] # << >> /\ up' = [up EXCEPT ![s] = Tail(up[s])]
        /\ UNCHANGED <<row, ready, down, srv, tok>>
    BY <1>2 DEF ReadData
  <2>2. up[s] \in Seq(Messages) /\ ready[s] # "free"
    BY <2>1 DEF RtInv, Net
  <2>3. Tail(up[s]) \in Seq(Messages)
    <3> HIDE DEF Messages
    <3> QED BY <2>1, <2>2
  <2> QED BY <2>1, <2>2, <2>3 DEF RtInv, Net
<1>3. CASE HelloTimeout(s)
  <2>1. srv[s] = "fresh" /\ srv' = [srv EXCEPT ![s] = "out"]
        /\ UNCHANGED <<row, ready, up, down, tok>>
    BY <1>3 DEF HelloTimeout
  <2>2. ready[s] # "free"
    BY <2>1 DEF RtInv, Net
  <2> QED BY <2>1, <2>2 DEF RtInv, Net
<1>4. CASE Evict(s)
  <2>1. /\ ready[s] = "open" /\ srv' = [srv EXCEPT ![s] = "evicted"]
        /\ down' = [down EXCEPT ![s] = Append(down[s], "force_logout")]
        /\ UNCHANGED <<row, ready, up, tok>>
    BY <1>4 DEF Evict
  <2>2. Append(down[s], "force_logout") \in Seq(Envelopes)
    BY DEF RtInv, Net, Envelopes
  <2> QED BY <2>1, <2>2 DEF RtInv, Net
<1> QED BY <1>1, <1>2, <1>3, <1>4

LEMMA FaultKeeps ==
  ASSUME RtInv, EndSession \/ Expire \/ \E s \in Sockets : Cut(s)
  PROVE  Net' /\ \A s \in Sockets : ready'[s] = "free" => ready[s] = "free"
<1>1. CASE EndSession
  <2>1. PICK told \in BOOLEAN :
          /\ row' = [row EXCEPT !.live = FALSE] /\ UNCHANGED <<ready, up, srv, tok>>
          /\ down' = [s \in Sockets |->
                        IF told /\ srv[s] = "in" THEN Append(down[s], "force_logout") ELSE down[s]]
    BY <1>1 DEF EndSession
  <2>2. \A s \in Sockets : Append(down[s], "force_logout") \in Seq(Envelopes)
    BY DEF RtInv, Net, Envelopes
  <2>3. down' \in [Sockets -> Seq(Envelopes)]
    BY <2>1, <2>2 DEF RtInv, Net
  <2>4. \A s \in Sockets : ready[s] = "free" => down'[s] = << >>
    BY <2>1 DEF RtInv, Net
  <2> QED BY <2>1, <2>3, <2>4 DEF RtInv, Net
<1>2. CASE Expire
  BY <1>2 DEF Expire, RtInv, Net
<1>3. ASSUME NEW s \in Sockets, Cut(s)
      PROVE  Net' /\ \A r \in Sockets : ready'[r] = "free" => ready[r] = "free"
  <2>1. /\ ready' = [ready EXCEPT ![s] = "closing"] /\ srv' = [srv EXCEPT ![s] = "cut"]
        /\ up' = [up EXCEPT ![s] = << >>] /\ down' = [down EXCEPT ![s] = << >>]
        /\ UNCHANGED <<row, tok>>
    BY <1>3 DEF Cut
  <2> QED BY <2>1, ConstantFacts DEF RtInv, Net
<1> QED BY <1>1, <1>2, <1>3

LEMMA OutsideSteps ==
  ASSUME RtInv, \/ \E s \in Sockets : ServerStep(s)
                \/ Fault \/ Heartbeat
  PROVE  RtInv' /\ Kept
<1>1. ASSUME NEW s \in Sockets, ServerStep(s) PROVE RtInv' /\ Kept
  BY <1>1, ServerKeeps, OutsideStep DEF ServerStep
<1>2. CASE Fault
  BY <1>2, FaultKeeps, OutsideStep DEF Fault
<1>3. CASE Heartbeat
  <2>1. ws \in Sockets /\ Evict(ws) /\ UNCHANGED <<clientVars, loginVars, sent>>
    BY <1>3 DEF Heartbeat, RtInv, Client
  <2> QED BY <2>1, ServerKeeps, OutsideStep
<1> QED BY <1>1, <1>2, <1>3

(***************************************************************************)
(* Steps of the connections of the client.                                 *)
(***************************************************************************)

LEMMA SendStep ==
  ASSUME RtInv, Send
  PROVE  RtInv' /\ Kept
<1>0. /\ Count /\ Buffer(Emitted)
      /\ UNCHANGED <<row, ready, down, srv, tok, ws, welcomed, shut>>
      /\ UNCHANGED <<store, engine, refresh, leaving, screen>>
  BY DEF Send, loginVars
<1>1. Emitted \in Seq(Messages) /\ sent' \in Nat /\ queued \in Seq(Messages)
  BY <1>0, EmittedFacts DEF RtInv, Desk, Client
<1>2. /\ up' \in [Sockets -> Seq(Messages)] /\ queued' \in Seq(Messages)
      /\ \A s \in Sockets : up'[s] # up[s] => ready[s] = "open"
      /\ queued' = queued \/ queued' = queued \o Emitted
  BY <1>0, <1>1, BufferFacts
<1>3. /\ state' \in {"idle", "connecting", "open", "reconnecting", "closed"}
      /\ timer' \in BOOLEAN
  BY DEF Send, ScheduleReconnect, RtInv, Client
<1>4. Net'
  BY <1>0, <1>2 DEF RtInv, Net
<1>5. Client' /\ Desk'
  BY <1>0, <1>1, <1>2, <1>3 DEF RtInv, Client, Desk
<1>6. Kept
  BY <1>1, <1>2, QueueKept
<1> QED BY <1>4, <1>5, <1>6 DEF RtInv

LEMMA ReconnectStep ==
  ASSUME RtInv, Reconnect
  PROVE  RtInv' /\ Kept
<1>0. /\ OpenSocket(store.token) /\ timer' = FALSE
      /\ UNCHANGED <<row, up, down, srv, shut, queued, sent>>
      /\ UNCHANGED <<store, engine, refresh, leaving, screen>>
  BY DEF Reconnect, loginVars
<1>1. store.token \in Tokens \union {None}
  BY DEF RtInv, Desk
<1>2. /\ ready' \in [Sockets -> {"free", "connecting", "open", "closing"}]
      /\ \A s \in Sockets : ready'[s] = "free" => ready[s] = "free"
      /\ tok' \in [Sockets -> Tokens \union {None}]
      /\ ws' \in Sockets \union {None}
      /\ ws' # None => ready'[ws'] # "free"
      /\ state' \in {"idle", "connecting", "open", "reconnecting", "closed"}
      /\ welcomed' \in BOOLEAN
  BY <1>0, <1>1, OpenFacts
<1>3. Net'
  BY <1>0, <1>2 DEF RtInv, Net
<1>4. Client' /\ Desk'
  BY <1>0, <1>2 DEF RtInv, Client, Desk
<1>5. Kept
  BY <1>0, QueueKept DEF RtInv, Client
<1> QED BY <1>3, <1>4, <1>5 DEF RtInv

LEMMA OpenedStep ==
  ASSUME RtInv, NEW s \in Sockets, Opened(s)
  PROVE  RtInv' /\ Kept
<1>0. /\ ready' = [ready EXCEPT ![s] = "open"] /\ srv' = [srv EXCEPT ![s] = "fresh"]
      /\ RawSend(<<HelloMsg(tok[s])>>, queued, ready')
      /\ UNCHANGED <<row, down, tok, ws, state, welcomed, shut, timer, sent>>
      /\ UNCHANGED <<store, engine, refresh, leaving, screen>>
  BY DEF Opened, loginVars
<1>1. PICK msgs \in Seq(Messages) : msgs = <<HelloMsg(tok[s])>>
  BY ConstantFacts DEF RtInv, Net
<1>2. PICK ready1 : ready1 = ready'
  OBVIOUS
<1>3. RawSend(msgs, queued, ready1) /\ queued \in Seq(Messages)
  BY <1>0, <1>1, <1>2 DEF RawSend, RtInv, Client
<1>4. /\ up' \in [Sockets -> Seq(Messages)] /\ queued' \in Seq(Messages)
      /\ \A r \in Sockets : up'[r] # up[r] => ready1[r] = "open"
      /\ queued' = queued \/ queued' = queued \o msgs
  BY <1>3, RawFacts
<1>5. Net'
  <2>1. ready' \in [Sockets -> {"free", "connecting", "open", "closing"}]
        /\ srv' \in [Sockets -> {"none", "fresh", "in", "out", "evicted", "cut"}]
    BY <1>0 DEF RtInv, Net
  <2>2. ASSUME NEW r \in Sockets, ready'[r] = "free"
        PROVE  r # s /\ ready[r] = "free" /\ up'[r] = up[r] /\ srv'[r] = srv[r]
    BY <1>0, <1>2, <1>4, <2>2 DEF RtInv, Net
  <2> QED BY <1>0, <1>4, <2>1, <2>2 DEF RtInv, Net
<1>6. Client' /\ Desk'
  BY <1>0, <1>4 DEF RtInv, Net, Client, Desk
<1>7. Kept
  BY <1>3, <1>4, QueueKept
<1> QED BY <1>5, <1>6, <1>7 DEF RtInv

LEMMA CloseEventStep ==
  ASSUME RtInv, NEW s \in Sockets, CloseEvent(s)
  PROVE  RtInv' /\ Kept
<1>0. /\ up[s] = << >> /\ down[s] = << >>
      /\ ready' = [ready EXCEPT ![s] = "free"] /\ srv' = [srv EXCEPT ![s] = "none"]
      /\ tok' = [tok EXCEPT ![s] = None] /\ ws' = None
      /\ UNCHANGED <<row, up, down, welcomed, shut, queued, sent>>
      /\ UNCHANGED <<store, engine, refresh, leaving, screen>>
  BY DEF CloseEvent, Closed, Free, loginVars
<1>1. /\ state' \in {"idle", "connecting", "open", "reconnecting", "closed"}
      /\ timer' \in BOOLEAN
  BY DEF CloseEvent, ScheduleReconnect, RtInv, Client
<1>2. Net'
  BY <1>0 DEF RtInv, Net
<1>3. Client' /\ Desk'
  BY <1>0, <1>1 DEF RtInv, Client, Desk
<1>4. Kept
  BY <1>0, QueueKept DEF RtInv, Client
<1> QED BY <1>2, <1>3, <1>4 DEF RtInv

LEMMA ReceiveKeeps ==
  ASSUME RtInv, NEW s \in Sockets, NEW e, Receives(s, e)
  PROVE  /\ ready[s] # "free" /\ down' \in [Sockets -> Seq(Envelopes)]
         /\ \A r \in Sockets : down[r] = << >> => down'[r] = << >>
<1>1. /\ ready[s] # "free" /\ down[s] # << >> /\ down' = [down EXCEPT ![s] = Tail(down[s])]
  BY DEF Receives
<1>2. down[s] \in Seq(Envelopes)
  BY DEF RtInv, Net
<1>3. Tail(down[s]) \in Seq(Envelopes)
  BY <1>1, <1>2
<1> QED BY <1>1, <1>3 DEF RtInv, Net

\* The flush: what is queued goes to an open connection, or stays.
LEMMA WelcomedStep ==
  ASSUME RtInv, NEW s \in Sockets, Welcomed(s)
  PROVE  RtInv' /\ Kept
<1>0. /\ Receives(s, "welcome") /\ RawSend(queued, << >>, ready)
      /\ welcomed' = TRUE /\ state' = "open" /\ screen' = "user"
      /\ UNCHANGED <<row, ready, srv, tok, ws, shut, timer, store, engine, refresh, leaving, sent>>
  BY DEF Welcomed
<1>1. queued \in Seq(Messages)
  BY DEF RtInv, Client
<1>m1. PICK msgs \in Seq(Messages) : msgs = queued
  BY <1>1
<1>m2. PICK rest \in Seq(Messages) : rest = << >>
  BY ConstantFacts
<1>m3. PICK ready1 : ready1 = ready
  OBVIOUS
<1>m. msgs = queued /\ rest = << >> /\ ready1 = ready
  BY <1>m1, <1>m2, <1>m3
<1>r. RawSend(msgs, rest, ready1)
  BY <1>0, <1>m DEF RawSend
<1>p. /\ up' \in [Sockets -> Seq(Messages)] /\ queued' \in Seq(Messages)
      /\ \A r \in Sockets : up'[r] # up[r] => ready1[r] = "open"
      /\ queued' = rest \/ queued' = rest \o msgs
      /\ \A i \in 1 .. Len(msgs) :
           \/ Contains(queued', msgs[i])
           \/ \E r \in Sockets : ready1[r] = "open" /\ Contains(up'[r], msgs[i])
  BY <1>r, RawFacts
<1>2. /\ up' \in [Sockets -> Seq(Messages)] /\ queued' \in Seq(Messages)
      /\ \A r \in Sockets : up'[r] # up[r] => ready[r] = "open"
      /\ \A i \in 1 .. Len(queued) :
           \/ Contains(queued', queued[i])
           \/ \E r \in Sockets : ready[r] = "open" /\ Contains(up'[r], queued[i])
  BY <1>m, <1>p
<1>3. /\ down' \in [Sockets -> Seq(Envelopes)]
      /\ \A r \in Sockets : down[r] = << >> => down'[r] = << >>
  BY <1>0, ReceiveKeeps
<1>4. Net'
  BY <1>0, <1>2, <1>3 DEF RtInv, Net
<1>5. Client' /\ Desk'
  BY <1>0, <1>2 DEF RtInv, Client, Desk
<1>6. Kept
  <2>1. ASSUME NEW i \in DOMAIN queued PROVE i \in 1 .. Len(queued)
    BY <1>1
  <2> QED BY <1>2, <2>1 DEF Kept
<1> QED BY <1>4, <1>5, <1>6 DEF RtInv

LEMMA RefusedStep ==
  ASSUME RtInv, NEW s \in Sockets, Refused(s)
  PROVE  RtInv' /\ Kept
<1>0. /\ Receives(s, "refused") /\ shut' = TRUE /\ state' = "closed"
      /\ UNCHANGED <<row, ready, up, srv, tok, ws, welcomed, queued, timer, sent>>
      /\ UNCHANGED <<store, engine, refresh, leaving, screen>>
  BY DEF Refused, loginVars
<1>1. /\ down' \in [Sockets -> Seq(Envelopes)]
      /\ \A r \in Sockets : down[r] = << >> => down'[r] = << >>
  BY <1>0, ReceiveKeeps
<1>2. Net'
  BY <1>0, <1>1 DEF RtInv, Net
<1>3. Client' /\ Desk'
  BY <1>0 DEF RtInv, Client, Desk
<1>4. Kept
  BY <1>0, QueueKept DEF RtInv, Client
<1> QED BY <1>2, <1>3, <1>4 DEF RtInv

(***************************************************************************)
(* Steps of the backend.                                                   *)
(***************************************************************************)

LEMMA LeaveFacts ==
  ASSUME RtInv, NEW by \in {"user", "forced"}, Leave(by)
  PROVE  /\ engine' = FALSE /\ shut' = TRUE /\ timer' = FALSE /\ state' = "closed"
         /\ ready' \in [Sockets -> {"free", "connecting", "open", "closing"}]
         /\ \A s \in Sockets : ready'[s] = "free" => ready[s] = "free"
         /\ leaving' \in [at : {"idle", "user", "forced", "init"}, token : Tokens \union {None}]
         /\ sent' \in Nat /\ Emitted \in Seq(Messages)
<1>1. sent \in Nat /\ store.token \in Tokens \union {None}
  BY DEF RtInv, Desk
<1>2. sent' \in Nat /\ Emitted \in Seq(Messages)
  BY <1>1, EmittedFacts DEF Leave
<1>3. leaving' = [at |-> by, token |-> store.token]
  BY DEF Leave
<1>4. /\ shut' = TRUE /\ timer' = FALSE /\ state' = "closed" /\ engine' = FALSE
      /\ ready' = IF ws # None THEN [ready EXCEPT ![ws] = "closing"] ELSE ready
  BY DEF Leave, Disconnect
<1> QED BY <1>1, <1>2, <1>3, <1>4 DEF RtInv, Net, Client

LEMMA ForcedOutStep ==
  ASSUME RtInv, NEW s \in Sockets, ForcedOut(s)
  PROVE  RtInv' /\ Kept
<1>0. /\ Receives(s, "force_logout") /\ Leave("forced") /\ screen' = "login"
      /\ queued' = IF engine THEN queued \o Emitted ELSE queued
      /\ UNCHANGED <<row, up, srv, tok, ws, welcomed, store, refresh>>
  BY DEF ForcedOut
<1>1. /\ engine' = FALSE /\ shut' = TRUE /\ timer' = FALSE /\ state' = "closed"
      /\ ready' \in [Sockets -> {"free", "connecting", "open", "closing"}]
      /\ \A r \in Sockets : ready'[r] = "free" => ready[r] = "free"
      /\ leaving' \in [at : {"idle", "user", "forced", "init"}, token : Tokens \union {None}]
      /\ sent' \in Nat /\ Emitted \in Seq(Messages)
  BY <1>0, LeaveFacts
<1>2. /\ down' \in [Sockets -> Seq(Envelopes)]
      /\ \A r \in Sockets : down[r] = << >> => down'[r] = << >>
  BY <1>0, ReceiveKeeps
<1>3. queued \in Seq(Messages) /\ queued' \in Seq(Messages)
  BY <1>0, <1>1 DEF RtInv, Client
<1>4. Net'
  BY <1>0, <1>1, <1>2 DEF RtInv, Net
<1>5. Client' /\ Desk'
  BY <1>0, <1>1, <1>3 DEF RtInv, Client, Desk
<1>6. Kept
  BY <1>0, <1>1, <1>3, QueueKept
<1> QED BY <1>4, <1>5, <1>6 DEF RtInv

LEMMA LogoutStep ==
  ASSUME RtInv, Logout
  PROVE  RtInv' /\ Kept
<1>0. /\ Leave("user")
      /\ IF engine THEN Buffer(Emitted) ELSE UNCHANGED <<up, queued>>
      /\ UNCHANGED <<row, down, srv, tok, ws, welcomed, store, refresh, screen>>
  BY DEF Logout
<1>1. /\ engine' = FALSE /\ shut' = TRUE /\ timer' = FALSE /\ state' = "closed"
      /\ ready' \in [Sockets -> {"free", "connecting", "open", "closing"}]
      /\ \A s \in Sockets : ready'[s] = "free" => ready[s] = "free"
      /\ leaving' \in [at : {"idle", "user", "forced", "init"}, token : Tokens \union {None}]
      /\ sent' \in Nat /\ Emitted \in Seq(Messages)
  BY <1>0, LeaveFacts
<1>2. /\ up' \in [Sockets -> Seq(Messages)] /\ queued' \in Seq(Messages)
      /\ \A s \in Sockets : up'[s] # up[s] => ready[s] = "open"
      /\ queued' = queued \/ queued' = queued \o Emitted
  <2>1. CASE engine
    BY <1>0, <1>1, <2>1, BufferFacts
  <2>2. CASE ~engine
    BY <1>0, <2>2 DEF RtInv, Net, Client
  <2> QED BY <2>1, <2>2
<1>3. Net'
  BY <1>0, <1>1, <1>2 DEF RtInv, Net
<1>4. Client' /\ Desk'
  BY <1>0, <1>1, <1>2 DEF RtInv, Client, Desk
<1>5. Kept
  BY <1>1, <1>2, QueueKept DEF RtInv, Client
<1> QED BY <1>3, <1>4, <1>5 DEF RtInv

LEMMA LogoutDoneStep ==
  ASSUME RtInv, LogoutDone
  PROVE  RtInv' /\ Kept
<1> DEFINE known == IF leaving.at = "init" THEN row.live /\ leaving.token = row.token
                    ELSE Accepted(leaving.token)
<1>0. /\ store' = Cleared /\ leaving' = Idle
      /\ screen' = IF leaving.at = "user" THEN "login" ELSE screen
      /\ UNCHANGED <<ready, up, down, srv, tok, engine, refresh, sent>>
      /\ UNCHANGED <<ws, state, welcomed, shut, queued, timer>>
  BY DEF LogoutDone, clientVars
<1>1. PICK reached \in BOOLEAN : row' = [row EXCEPT !.live = @ /\ ~(reached /\ known)]
  BY DEF LogoutDone
<1>2. (row.live /\ ~(reached /\ known)) \in BOOLEAN
  OBVIOUS
<1> HIDE DEF known
<1>3. row' \in [live : BOOLEAN, first : Tokens \union {None}, token : Tokens \union {None},
                expired : BOOLEAN]
  <2>1. row' = [row EXCEPT !.live = (row.live /\ ~(reached /\ known))]
    BY <1>1
  <2> QED BY <1>2, <2>1 DEF RtInv, Net
<1>4. Net'
  BY <1>0, <1>3 DEF RtInv, Net
<1>5. Client' /\ Desk'
  BY <1>0, ConstantFacts DEF RtInv, Client, Desk, Cleared, Idle
<1>6. Kept
  BY <1>0, QueueKept DEF RtInv, Client
<1> QED BY <1>4, <1>5, <1>6 DEF RtInv

\* A token that is issued is one of the tokens.
LEMMA IssuedFacts ==
  ASSUME RtInv, row.token < MaxTokens, NEW first \in Tokens \union {None}
  PROVE  /\ row.token + 1 \in Tokens
         /\ Issued(first) \in [live : BOOLEAN, first : Tokens \union {None},
                               token : Tokens \union {None}, expired : BOOLEAN]
<1>1. row.token + 1 \in Tokens
  BY ConstantFacts, EndpointConstants DEF RtInv, Net, Tokens
<1> QED BY <1>1 DEF Issued

\* completeAuth and the end of refreshSession: a connection is opened, and the
\* engine may start.
LEMMA ConnectStep ==
  ASSUME RtInv, NEW token \in Tokens \union {None}, Connect(token),
         StartEngine \/ UNCHANGED <<engine, queued, sent>>,
         row' \in [live : BOOLEAN, first : Tokens \union {None}, token : Tokens \union {None},
                   expired : BOOLEAN],
         UNCHANGED <<up, down, srv, timer, leaving>>,
         store' \in [user : BOOLEAN, token : Tokens \union {None}],
         refresh' \in [at : {"idle", "asked", "answered"}, token : Tokens \union {None}],
         screen' \in {"user", "login", "loading"}
  PROVE  RtInv' /\ Kept
<1>1. /\ shut' = FALSE
      /\ ready' \in [Sockets -> {"free", "connecting", "open", "closing"}]
      /\ \A s \in Sockets : ready'[s] = "free" => ready[s] = "free"
      /\ tok' \in [Sockets -> Tokens \union {None}]
      /\ ws' \in Sockets \union {None}
      /\ ws' # None => ready'[ws'] # "free"
      /\ state' \in {"idle", "connecting", "open", "reconnecting", "closed"}
      /\ welcomed' \in BOOLEAN
  BY OpenFacts DEF Connect
<1>2. /\ engine' \in BOOLEAN /\ sent' \in Nat /\ queued' \in Seq(Messages)
      /\ queued' = queued \/ \E msgs \in Seq(Messages) : queued' = queued \o msgs
  <2>1. engine \in BOOLEAN /\ sent \in Nat /\ queued \in Seq(Messages)
    BY DEF RtInv, Client, Desk
  <2>2. Emitted \in Seq(Messages) /\ (Count => sent' \in Nat)
    BY <2>1, EmittedFacts
  <2>3. queued \o Emitted \in Seq(Messages)
    BY <2>1, <2>2
  <2> QED BY <2>1, <2>2, <2>3 DEF StartEngine
<1>3. Net'
  BY <1>1 DEF RtInv, Net
<1>4. Client' /\ Desk'
  BY <1>1, <1>2 DEF RtInv, Client, Desk
<1>5. Kept
  BY <1>2, QueueKept DEF RtInv, Client
<1> QED BY <1>3, <1>4, <1>5 DEF RtInv

LEMMA LoginStep ==
  ASSUME RtInv, Login
  PROVE  RtInv' /\ Kept
<1>0. /\ row.token < MaxTokens /\ row' = Issued(row.token + 1)
      /\ store' = [user |-> TRUE, token |-> row.token + 1]
      /\ Connect(row.token + 1)
      /\ StartEngine \/ UNCHANGED <<engine, queued, sent>>
      /\ screen' = "user"
      /\ UNCHANGED <<up, down, srv, timer, refresh, leaving>>
  BY DEF Login
<1>1. row.token + 1 \in Tokens
  BY <1>0, ConstantFacts, IssuedFacts
<1>2. Issued(row.token + 1) \in [live : BOOLEAN, first : Tokens \union {None},
                                 token : Tokens \union {None}, expired : BOOLEAN]
  BY <1>1 DEF Issued
<1>3. /\ store' \in [user : BOOLEAN, token : Tokens \union {None}]
      /\ refresh' \in [at : {"idle", "asked", "answered"}, token : Tokens \union {None}]
  BY <1>0, <1>1 DEF RtInv, Desk
<1> QED BY <1>0, <1>1, <1>2, <1>3, ConnectStep

LEMMA RefreshDoneStep ==
  ASSUME RtInv, RefreshDone
  PROVE  RtInv' /\ Kept
<1>0. /\ refresh' = Idle /\ UNCHANGED <<row, up, down, srv, timer, leaving, screen>>
      /\ refresh.token \in Tokens \union {None}
  BY DEF RefreshDone, RtInv, Desk
<1>1. /\ row' \in [live : BOOLEAN, first : Tokens \union {None}, token : Tokens \union {None},
                   expired : BOOLEAN]
      /\ refresh' \in [at : {"idle", "asked", "answered"}, token : Tokens \union {None}]
      /\ screen' \in {"user", "login", "loading"}
  BY <1>0, ConstantFacts DEF RtInv, Net, Desk, Idle
<1>2. CASE refresh.token = None
  <2>1. /\ store' = Cleared
        /\ UNCHANGED <<ready, tok, ws, state, welcomed, shut, engine, queued, sent>>
    BY <1>2 DEF RefreshDone
  <2>2. Net'
    BY <1>0, <2>1 DEF RtInv, Net
  <2>3. Client' /\ Desk'
    BY <1>0, <1>1, <2>1, ConstantFacts DEF RtInv, Client, Desk, Cleared
  <2>4. Kept
    BY <2>1, QueueKept DEF RtInv, Client
  <2> QED BY <2>2, <2>3, <2>4 DEF RtInv
<1>3. CASE refresh.token # None
  <2>1. /\ store' = [store EXCEPT !.token = refresh.token]
        /\ Connect(refresh.token) /\ StartEngine
    BY <1>3 DEF RefreshDone
  <2>2. store' \in [user : BOOLEAN, token : Tokens \union {None}]
    BY <1>0, <2>1 DEF RtInv, Desk
  <2> QED BY <1>0, <1>1, <2>1, <2>2, ConnectStep
<1> QED BY <1>2, <1>3

\* Steps that change neither the connections nor the client.
LEMMA DeskSteps ==
  ASSUME RtInv, Wake \/ RefreshAnswer \/ Bootstrap
  PROVE  RtInv' /\ Kept
<1>1. /\ UNCHANGED <<ready, up, down, srv, tok, store, engine, leaving, sent>>
      /\ UNCHANGED <<ws, state, welcomed, shut, queued, timer>>
  BY DEF Wake, RefreshAnswer, Bootstrap, serverVars, clientVars
<1>2. Kept
  BY <1>1, QueueKept DEF RtInv, Client
<1>3. Client'
  BY <1>1 DEF RtInv, Client
<1>4. CASE Wake \/ Bootstrap
  <2>1. row' = row
    BY <1>4 DEF Wake, Bootstrap, serverVars
  <2>2. /\ refresh' \in [at : {"idle", "asked", "answered"}, token : Tokens \union {None}]
        /\ screen' \in {"user", "login", "loading"}
    BY <1>4 DEF Wake, Bootstrap, RtInv, Desk
  <2>3. Net'
    BY <1>1, <2>1 DEF RtInv, Net
  <2>4. Desk'
    BY <1>1, <2>2 DEF RtInv, Desk
  <2> QED BY <1>2, <1>3, <2>3, <2>4 DEF RtInv
<1>5. CASE RefreshAnswer
  <2>1. row.first \in Tokens \union {None}
    BY DEF RtInv, Net
  <2>2. /\ row' \in [live : BOOLEAN, first : Tokens \union {None}, token : Tokens \union {None},
                     expired : BOOLEAN]
        /\ refresh' \in [at : {"idle", "asked", "answered"}, token : Tokens \union {None}]
    <3>1. CASE /\ row.token < MaxTokens /\ row' = Issued(row.first)
               /\ \E answer \in {None, row.token + 1} :
                    refresh' = [at |-> "answered", token |-> answer]
      <4>1. row.token + 1 \in Tokens
        BY <2>1, <3>1, IssuedFacts
      <4>2. row' \in [live : BOOLEAN, first : Tokens \union {None}, token : Tokens \union {None},
                      expired : BOOLEAN]
        BY <2>1, <3>1, IssuedFacts
      <4>3. refresh' \in [at : {"idle", "asked", "answered"}, token : Tokens \union {None}]
        BY <3>1, <4>1
      <4> QED BY <4>2, <4>3
    <3>2. CASE refresh' = [at |-> "answered", token |-> None] /\ UNCHANGED row
      BY <3>2 DEF RtInv, Net
    <3> QED BY <1>5, <3>1, <3>2 DEF RefreshAnswer
  <2>3. Net'
    BY <1>1, <2>2 DEF RtInv, Net
  <2>4. Desk'
    BY <1>1, <1>5, <2>2 DEF RtInv, Desk, RefreshAnswer
  <2> QED BY <1>2, <1>3, <2>3, <2>4 DEF RtInv
<1> QED BY <1>4, <1>5

\* A new process has an empty queue; it takes the store as it is.
LEMMA RestartStep ==
  ASSUME RtInv, turns \in Nat, Restart
  PROVE  RtInv' /\ turns' # turns
<1>0. /\ ws' = None /\ state' = "idle" /\ welcomed' = FALSE /\ shut' = FALSE
      /\ queued' = << >> /\ timer' = FALSE
      /\ ready' = [s \in Sockets |-> "free"]
      /\ up' = [s \in Sockets |-> << >>] /\ down' = [s \in Sockets |-> << >>]
      /\ srv' = [s \in Sockets |-> "none"] /\ tok' = [s \in Sockets |-> None]
      /\ engine' = FALSE /\ refresh' = Idle
      /\ leaving' = [at |-> "init", token |-> store.token] /\ screen' = "loading"
      /\ UNCHANGED <<row, store, sent>>
  BY DEF Restart
<1>1. Net'
  BY <1>0, ConstantFacts DEF RtInv, Net
<1>2. Client'
  BY <1>0, ConstantFacts DEF Client
<1>3. Desk'
  BY <1>0, ConstantFacts DEF RtInv, Desk, Idle
<1>4. turns' # turns
  BY DEF Restart
<1> QED BY <1>1, <1>2, <1>3, <1>4 DEF RtInv

LEMMA RtStep ==
  ASSUME RtInv, turns \in Nat, [Next]_vars
  PROVE  RtInv' /\ (Kept \/ turns' # turns)
<1>1. CASE \/ \E s \in Sockets : ServerStep(s)
           \/ Fault \/ Heartbeat
  BY <1>1, OutsideSteps
<1>2. ASSUME NEW s \in Sockets, ClientStep(s) PROVE RtInv' /\ Kept
  BY <1>2, OpenedStep, CloseEventStep, WelcomedStep, RefusedStep, ForcedOutStep DEF ClientStep
<1>3. CASE Send \/ Reconnect
  BY <1>3, SendStep, ReconnectStep
<1>4. CASE Login \/ Logout \/ LogoutDone \/ RefreshDone
  BY <1>4, LoginStep, LogoutStep, LogoutDoneStep, RefreshDoneStep
<1>5. CASE Wake \/ RefreshAnswer \/ Bootstrap
  BY <1>5, DeskSteps
<1>6. CASE Restart
  BY <1>6, RestartStep
<1>7. CASE UNCHANGED vars
  <2>1. UNCHANGED <<clientVars, loginVars, sent>> /\ UNCHANGED <<row, ready, up, down, srv, tok>>
    BY <1>7 DEF vars, serverVars
  <2>2. Net'
    BY <2>1 DEF RtInv, Net
  <2> QED BY <2>1, <2>2, OutsideStep
<1> QED BY <1>1, <1>2, <1>3, <1>4, <1>5, <1>6, <1>7 DEF Next

\* Nothing but a wake and a restart counts a turn.
LEMMA TurnsCount ==
  ASSUME turns \in Nat, [Next]_vars
  PROVE  turns' \in Nat
<1>1. turns' = turns \/ turns' = turns + 1
  <2>1. ASSUME NEW s \in Sockets, ServerStep(s) \/ ClientStep(s) PROVE turns' = turns
    BY <2>1 DEF ServerStep, ClientStep, Opened, CloseEvent, Welcomed, Refused, ForcedOut
  <2>2. CASE Fault \/ Send \/ Reconnect \/ Heartbeat \/ Login \/ Logout \/ LogoutDone
             \/ RefreshAnswer \/ RefreshDone \/ Bootstrap \/ UNCHANGED vars
    BY <2>2 DEF Fault, Send, Reconnect, Heartbeat, Login, Logout, LogoutDone, RefreshAnswer,
                RefreshDone, Bootstrap, vars
  <2>3. CASE Wake \/ Restart
    BY <2>3 DEF Wake, Restart
  <2> QED BY <2>1, <2>2, <2>3 DEF Next
<1> QED BY <1>1

THEOREM RtAlways == Spec => [](RtInv /\ turns \in Nat)
<1>1. Init => RtInv /\ turns \in Nat
  BY RtStart DEF Init
<1>2. RtInv /\ turns \in Nat /\ [Next]_vars => (RtInv /\ turns \in Nat)'
  BY RtStep, TurnsCount
<1> QED BY <1>1, <1>2, PTL DEF Spec

-----------------------------------------------------------------------------
\* What the runs check.

\* The types of all the variables.
THEOREM TypeCorrect == Spec => []TypeOK
<1>1. RtInv => TypeOK
  <2> SUFFICES ASSUME RtInv PROVE TypeOK
    OBVIOUS
  <2>1. ASSUME NEW S, NEW q \in Seq(S) PROVE Range(q) \subseteq S
    BY DEF Range
  <2>2. \A s \in Sockets : Range(up[s]) \subseteq Messages
    <3> SUFFICES ASSUME NEW s \in Sockets PROVE Range(up[s]) \subseteq Messages
      OBVIOUS
    <3>1. up[s] \in Seq(Messages)
      BY DEF RtInv, Net
    <3> QED BY <2>1, <3>1
  <2>3. \A s \in Sockets : Range(down[s]) \subseteq Envelopes
    <3> SUFFICES ASSUME NEW s \in Sockets PROVE Range(down[s]) \subseteq Envelopes
      OBVIOUS
    <3>1. down[s] \in Seq(Envelopes)
      BY DEF RtInv, Net
    <3> QED BY <2>1, <3>1
  <2>4. Range(queued) \subseteq Messages
    BY <2>1 DEF RtInv, Client
  <2> HIDE DEF Range
  <2> QED BY <2>2, <2>3, <2>4 DEF RtInv, Net, Client, Desk, TypeOK, Envelopes
<1> QED BY <1>1, RtAlways, PTL

\* "Offline queue": no step of the client, of the server or of the network
\* loses a message that is queued, but the end of the process.  The flush is
\* one write on the connection the client holds, or no write at all, and
\* whatever opens, closes or is opened twice leaves the queue to the next one.
THEOREM QueueIsKept == Spec => KeptUntilWritten
<1>1. RtInv /\ turns \in Nat /\ [Next]_vars =>
        [\A i \in DOMAIN queued :
           \/ turns' # turns
           \/ Contains(queued', queued[i])
           \/ \E s \in Sockets : ready[s] = "open" /\ Contains(up'[s], queued[i])]_vars
  BY RtStep DEF Kept
<1> QED BY <1>1, RtAlways, PTL DEF Spec, KeptUntilWritten

=============================================================================
