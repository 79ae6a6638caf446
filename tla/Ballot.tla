-------------------------------- MODULE Ballot --------------------------------
(***************************************************************************)
(* How a delegate's window casts votes: the page (renderer pages/          *)
(* Delegate.tsx and store.ts), the promise of the main process             *)
(* (backend.ts castVote), the connection and the server's answer           *)
(* (ws.ts handleCastVote, voting/service.ts castVote).                     *)
(*                                                                         *)
(* What the server does with a vote is the subject of Voting; here a cast  *)
(* is stored or refused in one step.  A refusal is an error message, which *)
(* no client reads, so the window learns of it by its timer.  What the     *)
(* connection does is the subject of Realtime; here it is up or down, a    *)
(* cast waits in the queue while it is down, and messages on the way are   *)
(* lost with it.  committee_state is read from the database and sent       *)
(* later, so it may be older than what was pushed in between.              *)
(*                                                                         *)
(* An operator that nothing uses is a faulty variant of the one after it.  *)
(***************************************************************************)
EXTENDS Naturals, Sequences, FiniteSets

CONSTANTS
  Votes,      \* the votes of the committee
  Delegates,  \* the delegations that may sign in on this computer
  Nobody,     \* no delegate, no vote
  MaxCasts,   \* bounds: calls of castVote,
  MaxDown     \*         messages on the way to the window

ASSUME BallotConstants == {MaxCasts, MaxDown} \subseteq Nat /\ Nobody \notin Votes \union Delegates

VARIABLES
  vote,       \* votes.status
  stored,     \* vote_records: the votes and who has cast in them
  present,    \* the delegates checked in
  line,       \* the window's socket is welcomed
  queue,      \* casts that wait for a connection
  up,         \* casts on the way to the server
  down,       \* messages on the way to the window
  snapshots,  \* committee_state messages that are read and not sent
  user,       \* who the pages say is signed in
  owner,      \* who the main process says is signed in
  shown,      \* the votes in the store of the pages
  voting,     \* DelegateScreen: the vote whose buttons are disabled
  voted,      \*                 the votes that doVote has come back from
  ack,        \* pendingCastAck in the store of the pages
  pending,    \* pendingAcks: the casts that wait for an answer
  casts       \* casts so far

serverSide == <<vote, stored, present, snapshots>>
wires == <<line, queue, up, down>>
page == <<user, shown, voting, voted, ack>>
ballotVars == <<serverSide, wires, page, owner, pending, casts>>

Statuses == {"none", "open", "closed", "revealed"}
Cast == [id : 1 .. MaxCasts, vote : Votes, signer : Delegates]
NoAck == [vote |-> Nobody, accepted |-> FALSE]

BallotInit ==
  /\ vote = [v \in Votes |-> "none"] /\ stored = {} /\ present = {} /\ snapshots = {}
  /\ line = FALSE /\ queue = <<>> /\ up = <<>> /\ down = <<>>
  /\ user = Nobody /\ owner = Nobody /\ shown = vote
  /\ voting = Nobody /\ voted = {} /\ ack = NoAck
  /\ pending = {} /\ casts = 0

-----------------------------------------------------------------------------
\* The server.

\* broadcastCommitteeAll: to the sockets that are subscribed.
ToWindow(msgs) ==
  /\ Len(down) + Len(msgs) <= MaxDown
  /\ down' = IF line THEN down \o msgs ELSE down

VoteState(v, status) == [t |-> "vote_state", vote |-> v, status |-> status]
VoteRevealed(v) == [t |-> "vote_revealed", vote |-> v, status |-> "revealed"]

\* A vote goes from one of these statuses to another, and that is pushed.
MoveVote(v, from, to, push) ==
  /\ vote[v] \in from
  /\ vote' = [vote EXCEPT ![v] = to]
  /\ ToWindow(<<push>>)
  /\ UNCHANGED <<stored, present, snapshots, line, queue, up, page, owner, pending, casts>>

OpenVote(v) == MoveVote(v, {"none"}, "open", VoteState(v, "open"))

CloseVote(v) == MoveVote(v, {"open"}, "closed", VoteState(v, "closed"))

RevealVote(v) ==
  /\ \A d \in present : <<v, d>> \in stored
  /\ MoveVote(v, {"open", "closed"}, "revealed", VoteRevealed(v))

\* setAttendance, and the broadcastCommitteeState that ends it.
SetAttendance(d) ==
  /\ present' = (present \ {d}) \union ({d} \ present)
  /\ snapshots' = snapshots \union {vote}
  /\ UNCHANGED <<vote, stored, wires, page, owner, pending, casts>>

\* The last query of broadcastCommitteeState is answered.
SendSnapshot(votes) ==
  /\ votes \in snapshots
  /\ snapshots' = snapshots \ {votes}
  /\ ToWindow(<<[t |-> "committee_state", votes |-> votes]>>)
  /\ UNCHANGED <<vote, stored, present, line, queue, up, page, owner, pending, casts>>

\* The tests of castVote; the key and the signature are those of the signer.
Castable(c) == vote[c.vote] = "open" /\ owner \in present /\ c.signer = owner

Answer(c) ==
  IF Castable(c)
  THEN (IF <<c.vote, owner>> \in stored THEN <<>> ELSE <<VoteState(c.vote, "open")>>)
         \o <<[t |-> "vote_cast_ack", cast |-> c]>>
  ELSE <<[t |-> "error"]>>

\* handleCastVote, for the delegate of the socket the cast came on.
HandleCast ==
  /\ up # <<>> /\ owner # Nobody
  /\ stored' = IF Castable(Head(up)) THEN stored \union {<<Head(up).vote, owner>>} ELSE stored
  /\ ToWindow(Answer(Head(up)))
  /\ up' = Tail(up)
  /\ UNCHANGED <<vote, present, snapshots, line, queue, page, owner, pending, casts>>

-----------------------------------------------------------------------------
\* The window.

\* What the page offers of an open vote (the first of them, which any may be,
\* as pushes reorder the list): the words "Your vote was recorded.", or its
\* buttons.
Recorded(v) == shown[v] = "open" /\ (v \in voted \/ (ack.vote = v /\ ack.accepted))
Buttons(v) == user # Nobody /\ shown[v] = "open" /\ ~Recorded(v) /\ voting # v

\* castVote: the cast is sent; without a connection the Electron client queues
\* it and the Tauri client does nothing more.
Send(c) ==
  /\ up' = IF line THEN Append(up, c) ELSE up
  /\ queue' \in IF line THEN {queue} ELSE {queue, Append(queue, c)}

\* doVote: castVote keeps a resolver, and sends the cast.  It throws when the
\* main process knows no delegate, and doVote goes no further.
DoVote(v) ==
  /\ Buttons(v)
  /\ voting' = v
  /\ IF owner = Nobody
     THEN UNCHANGED <<queue, up, pending, casts>>
     ELSE /\ casts < MaxCasts
          /\ casts' = casts + 1
          /\ LET c == [id |-> casts', vote |-> v, signer |-> owner] IN
             pending' = pending \union {c} /\ Send(c)
  /\ UNCHANGED <<serverSide, line, down, user, shown, voted, ack, owner>>

\* The promise of castVote is resolved, and doVote goes on after its await.
Resolve(c, accepted) ==
  /\ pending' = pending \ {c}
  /\ ack' = [vote |-> c.vote, accepted |-> accepted]
  /\ voted' = voted \union {c.vote}
  /\ voting' = Nobody

\* The timeout of castVote, that only takes the resolver away.
Forgotten(c) ==
  /\ c \in pending
  /\ pending' = pending \ {c}
  /\ UNCHANGED <<serverSide, wires, page, owner, casts>>

\* The timeout of castVote.
TimedOut(c) ==
  /\ c \in pending
  /\ Resolve(c, FALSE)
  /\ UNCHANGED <<serverSide, wires, user, shown, owner, casts>>

\* dispatchEvent: what a push does to the votes of the page.  A vote that is
\* not in the list is added by vote_state, and not by vote_revealed.
Shown(msg) ==
  CASE msg.t = "vote_state" -> [shown EXCEPT ![msg.vote] = msg.status]
    [] msg.t = "vote_revealed" -> [shown EXCEPT ![msg.vote] = IF @ = "none" THEN @ ELSE msg.status]
    [] msg.t = "committee_state" -> msg.votes
    [] OTHER -> shown

\* The window reads a message: the pages first, then the main process.
ReadMessage ==
  /\ down # <<>>
  /\ down' = Tail(down)
  /\ shown' = Shown(Head(down))
  /\ IF Head(down).t # "vote_cast_ack" THEN UNCHANGED <<ack, voting, voted, pending>>
     ELSE IF Head(down).cast \in pending THEN Resolve(Head(down).cast, TRUE)
     ELSE /\ ack' = [vote |-> Head(down).cast.vote, accepted |-> TRUE]
          /\ UNCHANGED <<voting, voted, pending>>
  /\ UNCHANGED <<serverSide, line, queue, up, user, owner, casts>>

\* login, join: the page is mounted anew.
SignIn(d) ==
  /\ user = Nobody
  /\ user' = d /\ owner' = d
  /\ voting' = Nobody /\ voted' = {}
  /\ UNCHANGED <<serverSide, wires, shown, ack, pending, casts>>

\* welcome: the queue is sent, and the committee's state is on its way.
Connect ==
  /\ owner # Nobody /\ ~line
  /\ line' = TRUE
  /\ up' = queue /\ queue' = <<>>
  /\ snapshots' = snapshots \union {vote}
  /\ UNCHANGED <<vote, stored, present, down, page, owner, pending, casts>>

Disconnect ==
  /\ line
  /\ line' = FALSE /\ up' = <<>> /\ down' = <<>>
  /\ UNCHANGED <<serverSide, queue, page, owner, pending, casts>>

\* logout, or a forced one, which leaves the votes in the store of the pages.
SignOut ==
  /\ user # Nobody
  /\ user' = Nobody /\ owner' = Nobody
  /\ line' = FALSE /\ up' = <<>> /\ down' = <<>>
  /\ pending' = {}
  /\ voting' = Nobody /\ voted' = {}
  /\ shown' \in {shown, [v \in Votes |-> "none"]}
  /\ UNCHANGED <<serverSide, queue, ack, casts>>

\* refreshSession fails: store.clear(), of which the pages are not told.
LoginForgotten ==
  /\ owner # Nobody
  /\ owner' = Nobody
  /\ line' = FALSE /\ up' = <<>> /\ down' = <<>>
  /\ UNCHANGED <<serverSide, queue, page, pending, casts>>

-----------------------------------------------------------------------------
BallotNext ==
  \/ \E v \in Votes : OpenVote(v) \/ CloseVote(v) \/ RevealVote(v) \/ DoVote(v)
  \/ \E d \in Delegates : SetAttendance(d) \/ SignIn(d)
  \/ \E votes \in snapshots : SendSnapshot(votes)
  \/ \E c \in pending : TimedOut(c)
  \/ HandleCast \/ ReadMessage
  \/ Connect \/ Disconnect \/ SignOut \/ LoginForgotten

\* The timer of a cast fires, whatever the network does.
BallotFairness == \A c \in Cast : WF_ballotVars(TimedOut(c))

-----------------------------------------------------------------------------
\* Properties.

\* The values the variables take.
BallotTypeOK ==
  /\ vote \in [Votes -> Statuses] /\ shown \in [Votes -> Statuses]
  /\ stored \subseteq Votes \X Delegates /\ present \subseteq Delegates
  /\ {user, owner} \subseteq Delegates \union {Nobody}
  /\ voting \in Votes \union {Nobody} /\ voted \subseteq Votes
  /\ pending \subseteq Cast /\ Len(down) <= MaxDown /\ casts <= MaxCasts

\* A pair of vote buttons that a click has disabled comes back, with the
\* acknowledgement, by the timer or with the next sign-in, as long as the
\* main process still knows who is signed in (Delegate.tsx doVote).
ButtonsReturn ==
  \A v \in Votes : (voting = v /\ owner # Nobody) ~> (voting # v \/ owner = Nobody)

\* The words "Your vote was recorded." (pages/Delegate.tsx) are shown only to
\* a delegate whose ballot the server has stored.
RecordedIsTrue ==
  \A v \in Votes : user # Nobody /\ Recorded(v) => <<v, user>> \in stored
=============================================================================
