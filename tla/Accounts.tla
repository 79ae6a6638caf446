-------------------------------- MODULE Accounts --------------------------------
(***************************************************************************)
(* The accounts of chairs, vices and admins, and the offices that they     *)
(* hold: createUser and deleteUser of admin/service.ts, createCommittee    *)
(* and updateCommittee of committee/service.ts, behind the users and the   *)
(* committees tabs of the admins' windows (pages/Admin.tsx).               *)
(*                                                                         *)
(* deleteUser makes three queries, without a transaction, and requests of  *)
(* several admins are served at the same time.  A window offers what its   *)
(* tab listed last.  One committee stands for all, which share nothing.    *)
(*                                                                         *)
(* An operator that nothing uses is a faulty variant of the one after it.  *)
(***************************************************************************)
EXTENDS Naturals, FiniteSets

CONSTANTS
  Users,     \* the accounts that there may be
  Founders,  \* those that the seed makes admins
  Deletions  \* calls of deleteUser under way at one time (a bound)

ASSUME AccountsConstants == Founders \subseteq Users /\ Founders # {}

VARIABLES
  account,   \* users.role of each account, or that it is not there
  office,    \* chair_user_id and vice_user_id of the committee
  deletions, \* the calls of deleteUser: what they are about and their next query
  seen       \* the accounts that the tab of each admin lists, with their roles

accountsVars == <<account, office, deletions, seen>>

Unborn == "unborn"
Gone == "gone"
Offices == {"chair", "vice"}
Roles == Offices \union {"admin"}
Rest == [user |-> Gone, by |-> Gone, at |-> "rest"]
Existing == {u \in Users : account[u] \in Roles}
Admins == {u \in Users : account[u] = "admin"}
Listed == {<<u, account[u]>> : u \in Existing}

\* runSeed.
AccountsInit ==
  /\ account = [u \in Users |-> IF u \in Founders THEN "admin" ELSE Unborn]
  /\ office = [o \in Offices |-> Gone]
  /\ deletions = [d \in Deletions |-> Rest]
  /\ seen = [u \in Users |-> {}]

\* The tab asks for the accounts: when it opens, and after what it has done.
ListUsers(a) ==
  /\ a \in Admins
  /\ seen' = [seen EXCEPT ![a] = Listed]
  /\ UNCHANGED <<account, office, deletions>>

\* createUser: a name that is taken is refused, and an id is never used again.
CreateUser(u, role) ==
  /\ Admins # {}
  /\ account[u] = Unborn
  /\ account' = [account EXCEPT ![u] = role]
  /\ UNCHANGED <<office, deletions, seen>>

\* An office is offered to all who are listed.
OfferedToAll(a, o) == {pair[1] : pair \in seen[a]}

\* CommitteesTab: the chairs, or the vices, of its list.
Candidates(a, o) == {pair[1] : pair \in {p \in seen[a] : p[2] = o}}

\* setChair, setVice, create: one query; the foreign key refuses an account
\* that is not there any more.
Appoint(a, o, u) ==
  /\ a \in Admins /\ u \in Candidates(a, o)
  /\ u \in Existing
  /\ office' = [office EXCEPT ![o] = u]
  /\ seen' = [seen EXCEPT ![a] = Listed]
  /\ UNCHANGED <<account, deletions>>

\* "Unassigned".
Vacate(a, o) ==
  /\ a \in Admins
  /\ office' = [office EXCEPT ![o] = Gone]
  /\ seen' = [seen EXCEPT ![a] = Listed]
  /\ UNCHANGED <<account, deletions>>

\* An admin clicks "Delete" and confirms.  The session of the caller is looked
\* up here, and not again.
AskDelete(d, a, u) ==
  /\ deletions[d] = Rest
  /\ a \in Admins /\ u \in {pair[1] : pair \in seen[a]}
  /\ deletions' = [deletions EXCEPT ![d] = [user |-> u, by |-> a, at |-> "role"]]
  /\ UNCHANGED <<account, office, seen>>

Go(d, at) == deletions' = [deletions EXCEPT ![d].at = at]

\* The call is refused.
Refuse(d) == deletions' = [deletions EXCEPT ![d] = Rest]

\* SELECT role: an account that is not there is refused.
ReadRole(d) ==
  /\ deletions[d].at = "role"
  /\ \/ deletions[d].user \notin Existing /\ Refuse(d)
     \/ deletions[d].user \in Admins /\ Go(d, "count")
     \/ deletions[d].user \in Existing \ Admins /\ Go(d, "delete")
  /\ UNCHANGED <<account, office, seen>>

\* SELECT COUNT(*): the last admin is not deleted.
CountAdmins(d) ==
  /\ deletions[d].at = "count"
  /\ IF Cardinality(Admins) <= 1 THEN Refuse(d) ELSE Go(d, "delete")
  /\ UNCHANGED <<account, office, seen>>

\* DELETE, with the sessions of the account, which gives up its offices.  The
\* tab then lists the accounts anew, if there was one to delete.
DeleteRow(d) ==
  LET u == deletions[d].user  a == deletions[d].by IN
  /\ deletions[d].at = "delete"
  /\ account' = [account EXCEPT ![u] = Gone]
  /\ office' = [o \in Offices |-> IF office[o] = u THEN Gone ELSE office[o]]
  /\ seen' = IF u \in Existing THEN [seen EXCEPT ![a] = {p \in Listed : p[1] # u}] ELSE seen
  /\ deletions' = [deletions EXCEPT ![d] = Rest]

\* The query fails for one who has created votes: they keep their author.
DeleteRefused(d) ==
  /\ deletions[d].at = "delete"
  /\ Refuse(d)
  /\ UNCHANGED <<account, office, seen>>

AccountsNext ==
  \/ \E a \in Users : ListUsers(a)
  \/ \E u \in Users, role \in Roles : CreateUser(u, role)
  \/ \E a \in Users, o \in Offices : Vacate(a, o) \/ \E u \in Users : Appoint(a, o, u)
  \/ \E d \in Deletions :
       \/ \E a, u \in Users : AskDelete(d, a, u)
       \/ ReadRole(d) \/ CountAdmins(d) \/ DeleteRow(d) \/ DeleteRefused(d)

-----------------------------------------------------------------------------
\* Properties.

AccountsTypeOK ==
  /\ account \in [Users -> Roles \union {Unborn, Gone}]
  /\ office \in [Offices -> Users \union {Gone}]
  /\ seen \in [Users -> SUBSET (Users \X Roles)]
  /\ \A d \in Deletions : deletions[d].at \in {"rest", "role", "count", "delete"}

\* Whoever the committee has as chair or vice is an account with that role,
\* although it is appointed from a list that may be out of date and may be
\* deleted meanwhile (Admin.tsx setChair, setVice and deleteUser).
OfficesHeld == \A o \in Offices : office[o] # Gone => account[office[o]] = o
=============================================================================
