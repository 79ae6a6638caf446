----------------------------- MODULE VoteLedger -----------------------------
(***************************************************************************)
(* What the voting service promises of one vote, whatever its handlers and *)
(* the database do in between: at most one ballot for each delegate,       *)
(* collected only while the vote is open and never changed or removed, a   *)
(* counter that advances with each ballot, and a status that only advances.*)
(***************************************************************************)
EXTENDS Naturals

CONSTANTS Delegates, Choices

VARIABLES
  status,    \* "absent", "open", "closed" or "revealed"
  ballots,   \* the immutable vote records
  count      \* the number of submitted votes the service announces

vars == <<status, ballots, count>>

Ballots == [delegate : Delegates, choice : Choices]

Init == status = "absent" /\ ballots = {} /\ count = 0

Open ==
  /\ status = "absent"
  /\ status' = "open"
  /\ UNCHANGED <<ballots, count>>

Cast(b) ==
  /\ status = "open"
  /\ \A c \in ballots : c.delegate # b.delegate
  /\ ballots' = ballots \union {b}
  /\ count' = count + 1
  /\ UNCHANGED status

Close ==
  /\ status = "open"
  /\ status' = "closed"
  /\ UNCHANGED <<ballots, count>>

\* An open vote may be revealed without having been closed.
Reveal ==
  /\ status \in {"open", "closed"}
  /\ status' = "revealed"
  /\ UNCHANGED <<ballots, count>>

Next == Open \/ Close \/ Reveal \/ \E b \in Ballots : Cast(b)

Spec == Init /\ [][Next]_vars
=============================================================================
