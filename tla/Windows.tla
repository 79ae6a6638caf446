-------------------------------- MODULE Windows --------------------------------
(***************************************************************************)
(* The windows of the delegate, the chair and the admin, and what they     *)
(* show: a delegate's ballot (Ballot), the chair's board of submissions,   *)
(* and of warnings (Board), the chair's roll call (Roster), and three tabs *)
(* of the admin's console (Slate, Accounts, Rules).                        *)
(*                                                                         *)
(* They share no rows, and none reads the messages of another, so their    *)
(* steps need not be interleaved: a behaviour has one scene from beginning *)
(* to end, and the rest of the state stays as it was.                      *)
(***************************************************************************)
EXTENDS Ballot, Board, Roster, Slate, Accounts, Rules

CONSTANT Scenes  \* the scenes to be checked

VARIABLE scene

ASSUME ScenesAssumption ==
  Scenes \subseteq {"ballot", "board", "alarms", "roster", "slate", "accounts", "rules"}

vars == <<scene, ballotVars, boardVars, rosterVars, slateVars, accountsVars, rulesVars>>

Init ==
  /\ scene \in Scenes
  /\ BallotInit /\ BoardInit /\ RosterInit /\ SlateInit /\ AccountsInit /\ RulesInit

Next ==
  /\ UNCHANGED scene
  /\ \/ /\ scene = "ballot" /\ BallotNext
        /\ UNCHANGED <<boardVars, rosterVars, slateVars, accountsVars, rulesVars>>
     \/ /\ \/ scene = "board" /\ SubmissionsNext
           \/ scene = "alarms" /\ WarningsNext
        /\ UNCHANGED <<ballotVars, rosterVars, slateVars, accountsVars, rulesVars>>
     \/ /\ scene = "roster" /\ RosterNext
        /\ UNCHANGED <<ballotVars, boardVars, slateVars, accountsVars, rulesVars>>
     \/ /\ scene = "slate" /\ SlateNext
        /\ UNCHANGED <<ballotVars, boardVars, rosterVars, accountsVars, rulesVars>>
     \/ /\ scene = "accounts" /\ AccountsNext
        /\ UNCHANGED <<ballotVars, boardVars, rosterVars, slateVars, rulesVars>>
     \/ /\ scene = "rules" /\ RulesNext
        /\ UNCHANGED <<ballotVars, boardVars, rosterVars, slateVars, accountsVars>>

Spec == Init /\ [][Next]_vars /\ BallotFairness /\ BoardFairness

-----------------------------------------------------------------------------
\* Properties.

\* The values that the variables of each window take.
TypeOK ==
  /\ BallotTypeOK /\ BoardTypeOK /\ RosterTypeOK
  /\ SlateTypeOK /\ AccountsTypeOK /\ RulesTypeOK

\* What the chair's board and roll call and the admin's slate show is what the
\* server holds, when nothing has overlapped (Chair.tsx and store.ts, Admin.tsx).
WindowsHonest == BoardHonest /\ RollHonest /\ SlateHonest
=============================================================================
