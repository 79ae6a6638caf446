-------------------------------- MODULE Roster ---------------------------------
(***************************************************************************)
(* The roll call of the chair's window (renderer pages/Chair.tsx and       *)
(* store.ts), and the handlers of the server behind it                     *)
(* (committee/service.ts, realtime/presence.ts, realtime/ws.ts).           *)
(*                                                                         *)
(* The window takes a delegate's attendance and whether they are enabled   *)
(* from the rows of the last committee_state, and their connection from    *)
(* the last delegate_status.  (Until there is one it takes the connection  *)
(* of the row, which Presence models and this module does not.)  A         *)
(* committee_state is built by several queries, and other handlers run in  *)
(* between.  A delegate_status is sent when the record in memory changes;  *)
(* no committee_state replaces it, and nothing sends it again to a chair   *)
(* who was away.                                                           *)
(***************************************************************************)
EXTENDS Naturals, Sequences

CONSTANTS
  Roll,     \* the delegates of the committee
  Works,    \* requests that the server may have in hand at one time (a bound)
  MaxMail   \* bound: messages on the way to the chair's window

ASSUME RosterConstants == MaxMail \in Nat

VARIABLES
  seat,     \* the rows of the delegates
  record,   \* PresenceStore.records: connectionStatus, or that there is none
  online,   \* the socket of the delegate is subscribed
  works,    \* the requests in hand
  signedIn, \* the window belongs to the chair
  attached, \* its socket is subscribed
  mail,     \* messages on the way to it
  roll,     \* delegates in the store of the pages, or that there are none
  status,   \* delegateStatus in the store of the pages: connectionStatus
  called,   \* whether the last rows sent to the window were those of a request
            \* that had the server for itself, and none has overlapped since
  watched   \* whether no two requests have overlapped, and the window has kept
            \* its socket, since the chair signed in

window == <<roll, status>>
flags == <<called, watched>>
rosterVars == <<seat, record, online, works, signedIn, attached, mail, window, flags>>

None == "none"
NoRows == <<>>
Attendance == {"not_checked_in", "present"}
Connection == {"connected", "disconnected"}
Seats == [attendance : Attendance, enabled : BOOLEAN]

\* A request: whom it is about, its next step, the rows it has read, whether it
\* has had the server for itself, and, while it marks a delegate disconnected,
\* whether the record it holds has been replaced.
Spare == [who |-> None, at |-> "idle", then |-> "idle", rows |-> NoRows, alone |-> TRUE, replaced |-> FALSE]

RosterInit ==
  /\ seat = [d \in Roll |-> [attendance |-> "not_checked_in", enabled |-> TRUE]]
  /\ record = [d \in Roll |-> None] /\ online = [d \in Roll |-> FALSE]
  /\ works = [w \in Works |-> Spare]
  /\ signedIn = FALSE /\ attached = FALSE /\ mail = <<>>
  /\ roll = NoRows /\ status = [d \in Roll |-> None]
  /\ called = FALSE /\ watched = FALSE

\* The table of the roll call has rows, and buttons.
RollShown == roll # NoRows

InHand == {w \in Works : works[w] # Spare}

\* Request w arrives, and every other in hand is no longer alone.
Arrive(w, d, at, then, held) ==
  /\ works[w] = Spare
  /\ works' = [v \in Works |->
       IF v = w THEN [who |-> d, at |-> at, then |-> then, rows |-> NoRows, alone |-> InHand = {}, replaced |-> FALSE]
       ELSE IF v \in InHand THEN [held[v] EXCEPT !.alone = FALSE]
       ELSE Spare]
  /\ called' = (called /\ InHand = {})

\* Messages to the sink of the chair, if there is one.
Mail(msgs) ==
  /\ Len(mail) + Len(msgs) <= MaxMail
  /\ mail' = IF attached THEN mail \o msgs ELSE mail

\* presence.broadcast
StatusOf(d, connection) == <<[t |-> "delegate_status", who |-> d, connection |-> connection]>>

\* presence.update: the record, if there is one, is broadcast as it now is.
Updated(d) == IF record[d] = None THEN <<>> ELSE StatusOf(d, record[d])

-----------------------------------------------------------------------------
\* The chair's requests.  The vice chair has the same page, and may see an
\* older roll than this window.

\* setAttendance: UPDATE and presence.update; then broadcastCommitteeState.
RollCall(w, d, attendance) ==
  /\ RollShown
  /\ seat' = [seat EXCEPT ![d].attendance = attendance]
  /\ Mail(Updated(d))
  /\ Arrive(w, d, "read", "idle", works)
  /\ watched' = (watched /\ InHand = {})
  /\ UNCHANGED <<record, online, signedIn, attached, window>>

\* setEnabled: UPDATE and presence.update; its audit entry is written before
\* the rows are read.
SetEnabled(w, d, enabled) ==
  /\ RollShown
  /\ seat' = [seat EXCEPT ![d].enabled = enabled]
  /\ Mail(Updated(d))
  /\ Arrive(w, d, "read", "idle", works)
  /\ watched' = (watched /\ InHand = {})
  /\ UNCHANGED <<record, online, signedIn, attached, window>>

\* forceLogoutDelegate: the sessions are revoked and the audit entry written.
ForceLogout(w, d) ==
  /\ RollShown
  /\ Arrive(w, d, "mark", "read", works)
  /\ watched' = (watched /\ InHand = {})
  /\ UNCHANGED <<seat, record, online, signedIn, attached, mail, window>>

-----------------------------------------------------------------------------
\* Requests, step by step.

\* What a request does after markDisconnected: end, or read the rows.
Onward(work) ==
  IF work.then = "idle" THEN Spare ELSE [work EXCEPT !.at = work.then, !.replaced = FALSE]

\* markDisconnected looks at the record, and returns if there is nothing to do.
Mark(w) ==
  LET d == works[w].who IN
  /\ works[w].at = "mark"
  /\ IF record[d] = "connected"
       THEN /\ record' = [record EXCEPT ![d] = "disconnected"]
            /\ works' = [works EXCEPT ![w].at = "tell"]
       ELSE /\ works' = [works EXCEPT ![w] = Onward(@)]
            /\ UNCHANGED record
  /\ UNCHANGED <<seat, online, signedIn, attached, mail, window, flags>>

\* It writes the row, and broadcasts the record it holds: the delegate may have
\* a new one since.
Tell(w) ==
  LET d == works[w].who IN
  /\ works[w].at = "tell"
  /\ Mail(StatusOf(d, IF works[w].replaced THEN "disconnected" ELSE record[d]))
  /\ works' = [works EXCEPT ![w] = Onward(@)]
  /\ UNCHANGED <<seat, record, online, signedIn, attached, window, flags>>

\* broadcastCommitteeState: listCommitteeDelegates.
ReadRoll(w) ==
  /\ works[w].at = "read"
  /\ works' = [works EXCEPT ![w].at = "send", ![w].rows = seat]
  /\ UNCHANGED <<seat, record, online, signedIn, attached, mail, window, flags>>

\* The votes and the break are read too: broadcastCommitteeAll.
SendRoll(w) ==
  /\ works[w].at = "send"
  /\ Mail(<<[t |-> "committee_state", rows |-> works[w].rows]>>)
  /\ works' = [works EXCEPT ![w] = Spare]
  /\ called' = (attached /\ (called \/ works[w].alone))
  /\ UNCHANGED <<seat, record, online, signedIn, attached, window, watched>>

-----------------------------------------------------------------------------
\* The sockets of the delegates.

\* handleHello: subscribe, presence.register; broadcastCommitteeState is not
\* awaited.
DelegateHello(w, d) ==
  /\ ~online[d]
  /\ online' = [online EXCEPT ![d] = TRUE]
  /\ record' = [record EXCEPT ![d] = "connected"]
  /\ Mail(StatusOf(d, "connected"))
  /\ Arrive(w, d, "read", "idle",
       [v \in Works |-> [works[v] EXCEPT !.replaced = @ \/ (works[v].who = d /\ works[v].at = "tell")]])
  /\ watched' = (watched /\ InHand = {})
  /\ UNCHANGED <<seat, signedIn, attached, window>>

\* presence.heartbeat
DelegateBeat(d) ==
  /\ online[d]
  /\ record' = [record EXCEPT ![d] = "connected"]
  /\ Mail(StatusOf(d, "connected"))
  /\ UNCHANGED <<seat, online, works, signedIn, attached, window, flags>>

\* The socket closes: unsubscribe, and markDisconnected is not awaited.
DelegateGone(w, d) ==
  /\ online[d]
  /\ online' = [online EXCEPT ![d] = FALSE]
  /\ Arrive(w, d, "mark", "idle", works)
  /\ watched' = (watched /\ InHand = {})
  /\ UNCHANGED <<seat, record, signedIn, attached, mail, window>>

-----------------------------------------------------------------------------
\* The chair's window.

\* Login, or the connection is back: handleHello subscribes the sink, and its
\* broadcastCommitteeState is not awaited.
Attach(w) ==
  /\ ~attached
  /\ attached' = TRUE /\ signedIn' = TRUE
  /\ Arrive(w, None, "read", "idle", works)
  /\ watched' = (InHand = {} /\ (watched \/ ~signedIn))
  /\ UNCHANGED <<seat, record, online, mail, window>>

\* dispatchEvent
ReadMail ==
  /\ mail # <<>>
  /\ LET m == Head(mail) IN
       IF m.t = "committee_state"
         THEN roll' = m.rows /\ UNCHANGED status
         ELSE status' = [status EXCEPT ![m.who] = m.connection] /\ UNCHANGED roll
  /\ mail' = Tail(mail)
  /\ UNCHANGED <<seat, record, online, works, signedIn, attached, flags>>

\* The connection is lost, and with it what was on the way.  The store keeps
\* what it had.
Detach ==
  /\ attached
  /\ attached' = FALSE /\ mail' = <<>>
  /\ called' = FALSE /\ watched' = FALSE
  /\ UNCHANGED <<seat, record, online, works, signedIn, window>>

\* logout
ChairLeaves ==
  /\ signedIn
  /\ signedIn' = FALSE /\ attached' = FALSE /\ mail' = <<>>
  /\ roll' = NoRows /\ status' = [d \in Roll |-> None]
  /\ called' = FALSE /\ watched' = FALSE
  /\ UNCHANGED <<seat, record, online, works>>

RosterNext ==
  \/ \E w \in Works :
       \/ \E d \in Roll : \/ \E a \in Attendance : RollCall(w, d, a)
                          \/ \E e \in BOOLEAN : SetEnabled(w, d, e)
                          \/ ForceLogout(w, d) \/ DelegateHello(w, d) \/ DelegateGone(w, d)
       \/ Mark(w) \/ Tell(w) \/ ReadRoll(w) \/ SendRoll(w) \/ Attach(w)
  \/ \E d \in Roll : DelegateBeat(d)
  \/ ReadMail \/ Detach \/ ChairLeaves

-----------------------------------------------------------------------------
\* Properties.

\* The values that the variables take.
RosterTypeOK ==
  /\ seat \in [Roll -> Seats] /\ record \in [Roll -> Connection \union {None}]
  /\ online \in [Roll -> BOOLEAN]
  /\ \A w \in Works : /\ works[w].at \in {"idle", "mark", "tell", "read", "send"}
                      /\ works[w].at = "send" <=> works[w].rows # NoRows
  /\ signedIn \in BOOLEAN /\ attached \in BOOLEAN /\ Len(mail) <= MaxMail
  /\ (attached => signedIn) /\ (~attached => mail = <<>>)
  /\ roll \in {NoRows} \union [Roll -> Seats]
  /\ status \in [Roll -> Connection \union {None}]
  /\ flags \in BOOLEAN \X BOOLEAN

\* Nothing is in hand or on the way.
Still == attached /\ InHand = {} /\ mail = <<>>

\* When nothing is on the way and the requests did not overlap, the roll call
\* shows attendance and enabled as the rows have them, and, to a chair who has
\* stayed connected, a connection as the record has it: the snapshots and the
\* pushes of setAttendance, setEnabled, forceLogoutDelegate and presence bring
\* every change to the window.
RollHonest ==
  Still =>
    /\ called => roll = seat
    /\ watched => \A d \in Roll : status[d] # None => status[d] = record[d]
=============================================================================
