----------------------------- MODULE WindowsProofs -----------------------------
(***************************************************************************)
(* Theorems about Windows: the rules that reach a delegate's window, the   *)
(* offices of a committee, and what the admin's slate and the chair's      *)
(* board and roll call show, for every number of users, rows, requests and *)
(* messages.                                                               *)
(***************************************************************************)
EXTENDS Windows, SequenceTheorems, TLAPS

-----------------------------------------------------------------------------
\* Rules.

Edit == [at : {"done", "select", "set"}, read : SUBSET RuleIds, alone : BOOLEAN]

RulesTypes ==
  /\ rules \in SUBSET RuleIds /\ cache \in SUBSET RuleIds
  /\ edits \in [Edits -> Edit]
  /\ wire \in Seq(SUBSET RuleIds)
  /\ inOrder \in BOOLEAN

\* The last message on the way to a welcomed window carries the cache.
LastIsCache ==
  link = "welcomed" =>
    IF wire = <<>> THEN engine = cache ELSE wire[Len(wire)] = cache

\* An edit that is alone is the only one, and what it has read is the table.
AloneHasRead ==
  \A e \in Edits : edits[e] # Done /\ edits[e].alone =>
    /\ \A i \in Edits : edits[i] # Done => i = e
    /\ edits[e].at = "set" => edits[e].read = rules

\* While edits are in order, one that is under way is alone, and without one
\* the cache is the table.
InOrder ==
  inOrder =>
    /\ \A e \in Edits : edits[e] # Done => edits[e].alone
    /\ (\A e \in Edits : edits[e] = Done) => cache = rules

RulesInv == RulesTypes /\ LastIsCache /\ AloneHasRead /\ InOrder

LEMMA RulesStart == RulesInit => RulesInv
  BY DEF RulesInit, RulesInv, RulesTypes, LastIsCache, AloneHasRead, InOrder, Edit, Done

LEMMA EditRuleStep ==
  ASSUME RulesInv, NEW e \in Edits, NEW r \in RuleIds, EditRule(e, r)
  PROVE  RulesInv'
<1> DEFINE new(i) == IF i = e THEN [at |-> "select", read |-> {}, alone |-> Editing = {}]
                     ELSE [at |-> edits[i].at, read |-> edits[i].read, alone |-> i \notin Editing]
<1>1. edits' = [i \in Edits |-> new(i)] /\ edits[e] = Done
  BY DEF EditRule
<1>2. \A i \in Edits : new(i) \in Edit
  BY DEF RulesInv, RulesTypes, Edit
<1>3. \A i \in Edits : i # e => (edits'[i] # Done <=> i \in Editing) /\ (i \in Editing => ~edits'[i].alone)
  <2> SUFFICES ASSUME NEW i \in Edits, i # e
               PROVE  /\ edits'[i] # Done <=> i \in Editing
                      /\ i \in Editing => ~edits'[i].alone
    OBVIOUS
  <2>1. /\ edits'[i] = [at |-> edits[i].at, read |-> edits[i].read, alone |-> i \notin Editing]
        /\ edits[i] \in Edit
    BY <1>1 DEF RulesInv, RulesTypes
  <2>2. CASE i \in Editing
    <3>1. ~edits'[i].alone
      <4>1. edits'[i].alone = (i \notin Editing)
        BY <2>1
      <4> QED BY <4>1, <2>2
    <3>2. edits'[i] # Done
      BY <3>1 DEF Done
    <3> QED BY <2>2, <3>1, <3>2
  <2>3. CASE i \notin Editing
    <3>1. edits[i] = Done
      BY <2>3 DEF Editing
    <3>2. (i \notin Editing) = TRUE
      BY <2>3
    <3>3. edits'[i] = [at |-> edits[i].at, read |-> edits[i].read, alone |-> TRUE]
      BY <2>1, <3>2
    <3> QED BY <2>3, <3>1, <3>3 DEF Done
  <2> QED BY <2>2, <2>3
<1>4. edits'[e] = [at |-> "select", read |-> {}, alone |-> Editing = {}] /\ edits'[e] # Done
  BY <1>1 DEF Done
<1>5. RulesTypes'
  BY <1>1, <1>2 DEF EditRule, RulesInv, RulesTypes
<1>6. LastIsCache'
  BY DEF EditRule, RulesInv, LastIsCache
<1>7. AloneHasRead'
  <2> SUFFICES ASSUME NEW i \in Edits, edits'[i] # Done, edits'[i].alone
               PROVE  /\ \A k \in Edits : edits'[k] # Done => k = i
                      /\ edits'[i].at = "set" => edits'[i].read = rules'
    BY DEF AloneHasRead, Done
  <2>1. i = e
    BY <1>3
  <2>2. Editing = {}
    <3>1. [at |-> "select", read |-> {}, alone |-> Editing = {}].alone
      BY <1>4, <2>1, Zenon
    <3> QED BY <3>1
  <2>3. edits'[i].at = "select"
    BY <1>4, <2>1
  <2> QED BY <1>3, <2>1, <2>2, <2>3
<1>8. InOrder'
  BY <1>3, <1>4 DEF EditRule, InOrder
<1> QED BY <1>5, <1>6, <1>7, <1>8 DEF RulesInv

LEMMA SelectRulesStep ==
  ASSUME RulesInv, NEW e \in Edits, SelectRules(e)
  PROVE  RulesInv'
<1> DEFINE new == [at |-> "set", read |-> rules, alone |-> edits[e].alone]
<1>t. edits \in [Edits -> Edit] /\ edits[e] \in Edit
  BY DEF RulesInv, RulesTypes
<1>1. /\ edits' = [edits EXCEPT ![e] = new]
      /\ edits[e] # Done /\ new # Done /\ edits'[e] = new
      /\ \A i \in Edits : i # e => edits'[i] = edits[i]
  BY <1>t DEF SelectRules, Done
<1>2. RulesTypes'
  <2>1. new \in Edit
    BY <1>t DEF RulesInv, RulesTypes, Edit
  <2>2. edits' \in [Edits -> Edit]
    BY <1>t, <1>1, <2>1
  <2> QED BY <2>2 DEF SelectRules, RulesInv, RulesTypes
<1>3. LastIsCache'
  BY DEF SelectRules, RulesInv, LastIsCache
<1>4. AloneHasRead'
  BY <1>1 DEF SelectRules, RulesInv, AloneHasRead
<1>5. InOrder'
  BY <1>1 DEF SelectRules, RulesInv, InOrder
<1> QED BY <1>2, <1>3, <1>4, <1>5 DEF RulesInv

LEMMA SetAndBroadcastStep ==
  ASSUME RulesInv, NEW e \in Edits, SetAndBroadcast(e)
  PROVE  RulesInv'
<1>1. /\ edits[e] # Done /\ edits[e].at = "set" /\ edits[e].read \in SUBSET RuleIds
      /\ edits' = [edits EXCEPT ![e] = Done]
      /\ cache' = edits[e].read /\ rules' = rules
  BY DEF SetAndBroadcast, RulesInv, RulesTypes, Edit, Done
<1>2. RulesTypes'
  BY <1>1 DEF SetAndBroadcast, RulesInv, RulesTypes, Edit, Done
<1>3. LastIsCache'
  BY <1>1 DEF SetAndBroadcast, RulesInv, RulesTypes, LastIsCache
<1>4. AloneHasRead'
  BY <1>1 DEF RulesInv, RulesTypes, AloneHasRead
<1>5. InOrder'
  <2>1. CASE edits[e].alone
    <3>1. \A i \in Edits : edits'[i] = Done
      BY <1>1, <2>1 DEF RulesInv, RulesTypes, AloneHasRead
    <3>2. cache' = rules'
      BY <1>1, <2>1 DEF RulesInv, AloneHasRead
    <3> QED BY <3>1, <3>2 DEF InOrder
  <2>2. CASE ~edits[e].alone
    BY <1>1, <2>2 DEF SetAndBroadcast, RulesInv, RulesTypes, InOrder
  <2> QED BY <2>1, <2>2
<1> QED BY <1>2, <1>3, <1>4, <1>5 DEF RulesInv

LEMMA RestartStep == RulesInv /\ Restart => RulesInv'
  BY DEF Restart, RulesInv, RulesTypes, LastIsCache, AloneHasRead, InOrder, Edit, Done

LEMMA ReadRulesStep ==
  ASSUME RulesInv, ReadRules
  PROVE  RulesInv'
<1>1. /\ wire # <<>> /\ wire' = Tail(wire) /\ engine' = Head(wire)
      /\ UNCHANGED <<rules, cache, edits, link, inOrder>>
  BY DEF ReadRules
<1>2. wire \in Seq(SUBSET RuleIds)
  BY DEF RulesInv, RulesTypes
<1>3. /\ Tail(wire) \in Seq(SUBSET RuleIds) /\ Len(Tail(wire)) = Len(wire) - 1
      /\ Len(wire) \in Nat \ {0}
      /\ Tail(wire) # <<>> => Tail(wire)[Len(Tail(wire))] = wire[Len(wire)]
      /\ Tail(wire) = <<>> => Head(wire) = wire[Len(wire)]
  BY <1>1, <1>2
<1>4. RulesTypes'
  BY <1>1, <1>3 DEF RulesInv, RulesTypes
<1>5. LastIsCache'
  BY <1>1, <1>3 DEF RulesInv, LastIsCache
<1>6. AloneHasRead' /\ InOrder'
  BY <1>1 DEF RulesInv, AloneHasRead, InOrder
<1> QED BY <1>4, <1>5, <1>6 DEF RulesInv

\* The other steps of the delegate's window touch neither table nor cache.
LEMMA WindowStep ==
  ASSUME RulesInv, Login \/ Hello \/ Welcome \/ ConnectionLost \/ Refresh \/ Refreshed \/ Logout
  PROVE  RulesInv'
<1>1. UNCHANGED <<rules, cache, edits, inOrder>>
  BY DEF Login, Hello, Welcome, ConnectionLost, Refresh, Refreshed, Logout
<1>2. AloneHasRead' /\ InOrder'
  BY <1>1 DEF RulesInv, AloneHasRead, InOrder
<1>3. RulesTypes'
  <2>1. wire' \in Seq(SUBSET RuleIds)
    <3>1. CASE Welcome
      <4>1. wire \in Seq(SUBSET RuleIds) /\ cache \in SUBSET RuleIds /\ wire' = Append(wire, cache)
        BY <3>1 DEF RulesInv, RulesTypes, Welcome
      <4>2. Append(wire, cache) \in Seq(SUBSET RuleIds)
        BY <4>1, AppendProperties
      <4> QED BY <4>1, <4>2
    <3>2. CASE Login \/ Hello \/ Refresh
      BY <3>2 DEF RulesInv, RulesTypes, Login, Hello, Refresh
    <3>3. CASE ConnectionLost \/ Refreshed \/ Logout
      <4>1. wire' = <<>>
        BY <3>3 DEF ConnectionLost, Refreshed, Logout
      <4>2. <<>> \in Seq(SUBSET RuleIds)
        OBVIOUS
      <4> QED BY <4>1, <4>2
    <3> QED BY <3>1, <3>2, <3>3
  <2> QED BY <1>1, <2>1 DEF RulesInv, RulesTypes
<1>4. LastIsCache'
  <2>1. CASE Welcome
    BY <2>1 DEF Welcome, RulesInv, RulesTypes, LastIsCache
  <2>2. CASE Login \/ Hello \/ ConnectionLost \/ Refreshed \/ Logout
    BY <2>2 DEF Login, Hello, ConnectionLost, Refreshed, Logout, LastIsCache
  <2>3. CASE Refresh
    BY <2>3 DEF Refresh, RulesInv, LastIsCache
  <2> QED BY <2>1, <2>2, <2>3
<1> QED BY <1>2, <1>3, <1>4 DEF RulesInv

LEMMA RulesStep == RulesInv /\ (RulesNext \/ UNCHANGED rulesVars) => RulesInv'
<1> SUFFICES ASSUME RulesInv, RulesNext \/ UNCHANGED rulesVars PROVE RulesInv'
  OBVIOUS
<1>1. CASE UNCHANGED rulesVars
  BY <1>1 DEF rulesVars, RulesInv, RulesTypes, LastIsCache, AloneHasRead, InOrder
<1>2. CASE RulesNext
  BY <1>2, EditRuleStep, SelectRulesStep, SetAndBroadcastStep, RestartStep, ReadRulesStep, WindowStep
     DEF RulesNext
<1> QED BY <1>1, <1>2

\* A welcomed window that has read its messages has the rules of the cache, and
\* the cache is the table after edits that did not overlap.
THEOREM RulesAlwaysFollow == Spec => []RulesFollow
<1>1. Init => RulesInv
  BY RulesStart DEF Init
<1>2. RulesInv /\ [Next]_vars => RulesInv'
  <2>1. [Next]_vars => RulesNext \/ UNCHANGED rulesVars
    BY DEF Next, vars
  <2> QED BY <2>1, RulesStep
<1>3. RulesInv => RulesFollow
  BY DEF RulesInv, LastIsCache, InOrder, RulesFollow, Editing
<1> QED BY <1>1, <1>2, <1>3, PTL DEF Spec

-----------------------------------------------------------------------------
\* Accounts.

\* What a tab lists was so once, and a role never changes.
ListsStale ==
  \A a \in Users : \A p \in seen[a] : account[p[1]] \in {p[2], Gone}

AccountsInv ==
  /\ account \in [Users -> Roles \union {Unborn, Gone}]
  /\ office \in [Offices -> Users \union {Gone}]
  /\ seen \in [Users -> SUBSET (Users \X Roles)]
  /\ ListsStale
  /\ OfficesHeld

LEMMA AccountsStart == AccountsInit => AccountsInv
  BY DEF AccountsInit, AccountsInv, ListsStale, OfficesHeld, Roles, Offices

\* A list that is fetched is true and well-formed.
LEMMA ListedTrue ==
  ASSUME account \in [Users -> Roles \union {Unborn, Gone}]
  PROVE  /\ Listed \in SUBSET (Users \X Roles)
         /\ \A p \in Listed : account[p[1]] = p[2]
  BY DEF Listed, Existing

LEMMA ListUsersStep ==
  ASSUME AccountsInv, NEW a \in Users, UNCHANGED <<account, office>>,
         seen' = [seen EXCEPT ![a] = Listed]
  PROVE  AccountsInv'
<1>1. seen' \in [Users -> SUBSET (Users \X Roles)]
  BY ListedTrue DEF AccountsInv
<1>2. ListsStale'
  BY ListedTrue DEF AccountsInv, ListsStale
<1> QED BY <1>1, <1>2 DEF AccountsInv, OfficesHeld

LEMMA CreateUserStep ==
  ASSUME AccountsInv, NEW u \in Users, NEW role \in Roles, CreateUser(u, role)
  PROVE  AccountsInv'
<1>1. /\ account[u] = Unborn /\ account' = [account EXCEPT ![u] = role]
      /\ UNCHANGED <<office, seen>>
  BY DEF CreateUser
<1>2. ListsStale'
  <2> SUFFICES ASSUME NEW a \in Users, NEW p \in seen[a]
               PROVE  account'[p[1]] \in {p[2], Gone}
    BY <1>1 DEF ListsStale
  <2>1. p[1] \in Users /\ p[2] \in Roles /\ account[p[1]] \in {p[2], Gone}
    BY DEF AccountsInv, ListsStale
  <2>2. p[1] # u
    BY <1>1, <2>1 DEF Roles, Offices, Unborn, Gone
  <2> QED BY <1>1, <2>1, <2>2 DEF AccountsInv
<1>3. OfficesHeld'
  BY <1>1 DEF AccountsInv, OfficesHeld, Offices, Unborn
<1> QED BY <1>1, <1>2, <1>3 DEF AccountsInv

LEMMA AppointStep ==
  ASSUME AccountsInv, NEW a \in Users, NEW o \in Offices, NEW u \in Users, Appoint(a, o, u)
  PROVE  AccountsInv'
<1>1. PICK p \in seen[a] : p[2] = o /\ p[1] = u
  BY DEF Appoint, Candidates
<1>2. account[u] = o
  BY <1>1 DEF Appoint, Existing, AccountsInv, ListsStale, Roles, Offices, Gone
<1>3. office' \in [Offices -> Users \union {Gone}] /\ OfficesHeld'
  BY <1>2 DEF Appoint, AccountsInv, OfficesHeld
<1>4. seen' \in [Users -> SUBSET (Users \X Roles)] /\ ListsStale'
  BY ListedTrue DEF Appoint, AccountsInv, ListsStale
<1> QED BY <1>3, <1>4 DEF Appoint, AccountsInv

LEMMA VacateStep ==
  ASSUME AccountsInv, NEW a \in Users, NEW o \in Offices, Vacate(a, o)
  PROVE  AccountsInv'
<1>1. office' \in [Offices -> Users \union {Gone}] /\ OfficesHeld'
  BY DEF Vacate, AccountsInv, OfficesHeld
<1>2. seen' \in [Users -> SUBSET (Users \X Roles)] /\ ListsStale'
  BY ListedTrue DEF Vacate, AccountsInv, ListsStale
<1> QED BY <1>1, <1>2 DEF Vacate, AccountsInv

LEMMA DeleteRowStep ==
  ASSUME AccountsInv, NEW d \in Deletions, DeleteRow(d)
  PROVE  AccountsInv'
<1> DEFINE u == deletions[d].user
           a == deletions[d].by
<1>1. /\ account' = [account EXCEPT ![u] = Gone]
      /\ office' = [o \in Offices |-> IF office[o] = u THEN Gone ELSE office[o]]
      /\ seen' = IF u \in Existing THEN [seen EXCEPT ![a] = {p \in Listed : p[1] # u}] ELSE seen
  BY DEF DeleteRow
<1> HIDE DEF u, a
<1>2. account' \in [Users -> Roles \union {Unborn, Gone}]
  BY <1>1 DEF AccountsInv
<1>3. office' \in [Offices -> Users \union {Gone}] /\ OfficesHeld'
  BY <1>1 DEF AccountsInv, OfficesHeld
<1>4. seen' \in [Users -> SUBSET (Users \X Roles)]
  BY <1>1, ListedTrue DEF AccountsInv
<1>5. ListsStale'
  <2> SUFFICES ASSUME NEW b \in Users, NEW p \in seen'[b]
               PROVE  account'[p[1]] \in {p[2], Gone}
    BY DEF ListsStale
  <2>1. p \in seen[b] \/ p \in Listed
    BY <1>1 DEF AccountsInv
  <2>2. p[1] \in Users /\ account[p[1]] \in {p[2], Gone}
    BY <2>1, ListedTrue DEF AccountsInv, ListsStale
  <2> QED BY <1>1, <2>2 DEF AccountsInv
<1> QED BY <1>2, <1>3, <1>4, <1>5 DEF AccountsInv

LEMMA AccountsStep == AccountsInv /\ (AccountsNext \/ UNCHANGED accountsVars) => AccountsInv'
<1> SUFFICES ASSUME AccountsInv, AccountsNext \/ UNCHANGED accountsVars PROVE AccountsInv'
  OBVIOUS
<1>1. CASE UNCHANGED <<account, office, seen>>
  BY <1>1 DEF AccountsInv, ListsStale, OfficesHeld
<1>2. ASSUME NEW a \in Users, ListUsers(a) PROVE AccountsInv'
  BY <1>2, ListUsersStep DEF ListUsers
<1>3. ASSUME NEW d \in Deletions,
             \/ \E a, u \in Users : AskDelete(d, a, u)
             \/ ReadRole(d) \/ CountAdmins(d) \/ DeleteRefused(d)
      PROVE  AccountsInv'
  BY <1>1, <1>3 DEF AskDelete, ReadRole, CountAdmins, DeleteRefused
<1>4. CASE UNCHANGED accountsVars
  BY <1>1, <1>4 DEF accountsVars
<1> QED BY <1>2, <1>3, <1>4, CreateUserStep, AppointStep, VacateStep, DeleteRowStep DEF AccountsNext

\* Every chair and vice is an account with that role, for any number of admins
\* that appoint from old lists and delete meanwhile (setChair, setVice, and the
\* three queries of deleteUser).
THEOREM OfficesAlwaysHeld == Spec => []OfficesHeld
<1>1. Init => AccountsInv
  BY AccountsStart DEF Init
<1>2. AccountsInv /\ [Next]_vars => AccountsInv'
  <2>1. [Next]_vars => AccountsNext \/ UNCHANGED accountsVars
    BY DEF Next, vars
  <2> QED BY <2>1, AccountsStep
<1>3. AccountsInv => OfficesHeld
  BY DEF AccountsInv
<1> QED BY <1>1, <1>2, <1>3, PTL DEF Spec

-----------------------------------------------------------------------------
\* The slate.

Slots == Committees \X Countries

\* A request of the tab.
Call == [op : {"none", "get", "add", "remove"}, committee : Committees \union {NoCommittee},
         slots : SUBSET Slots, at : {"idle", "server", "answer"},
         read : SUBSET Slots, alone : BOOLEAN]

SlateTypes ==
  /\ slate \in [Committees -> SUBSET Slots]
  /\ selected \in Committees \union {NoCommittee}
  /\ shownSlate \in SUBSET Slots
  /\ calls \in [Calls -> Call]
  /\ \A j \in Calls : calls[j] # NoCall => calls[j].committee \in Committees /\ calls[j].op # "none"

\* A request j for a slate will show that of the committee that is selected,
\* and has no other beside it.
Alright(j, call) ==
  /\ \A i \in Calls : i # j => calls[i] = NoCall
  /\ call.op = "get" =>
       /\ call.committee = selected
       /\ call.at = "answer" => call.read = slate[selected]

SlateInv ==
  /\ SlateTypes
  /\ \A j \in Calls : calls[j] # NoCall /\ calls[j].alone => Alright(j, calls[j])
  /\ current => Open = {} /\ shownSlate = slate[selected]

LEMMA SlateStart == SlateInit => SlateInv
<1> SUFFICES ASSUME SlateInit PROVE SlateInv
  OBVIOUS
<1>1. NoCall \in Call
  BY DEF NoCall, Call
<1>2. SlateTypes
  BY <1>1 DEF SlateInit, SlateTypes
<1> QED BY <1>2 DEF SlateInit, SlateInv

\* One that is not alone any more is whatever it was.
LEMMA AloneFacts ==
  ASSUME SlateTypes, NEW i \in Calls
  PROVE  /\ i \in Open => Alone(i, i \notin Open) \in Call /\ ~Alone(i, i \notin Open).alone
         /\ i \in Open => Alone(i, i \notin Open).committee = calls[i].committee
                         /\ Alone(i, i \notin Open).op = calls[i].op
         /\ i \in Open => Alone(i, i \notin Open) # NoCall
         /\ i \notin Open => Alone(i, i \notin Open) = NoCall
<1>1. CASE i \in Open
  <2>1. (i \notin Open) = FALSE
    BY <1>1
  <2>2. /\ Alone(i, FALSE) \in Call /\ ~Alone(i, FALSE).alone
        /\ Alone(i, FALSE).committee = calls[i].committee /\ Alone(i, FALSE).op = calls[i].op
    BY DEF Alone, SlateTypes, Call
  <2>3. Alone(i, FALSE) # NoCall
    <3>1. calls[i].op # "none"
      BY <1>1 DEF Open, SlateTypes
    <3>2. NoCall.op = "none"
      BY DEF NoCall
    <3> QED BY <2>2, <3>1, <3>2
  <2> QED BY <1>1, <2>1, <2>2, <2>3
<1>2. CASE i \notin Open
  <2>1. (i \notin Open) = TRUE /\ calls[i] = NoCall
    BY <1>2 DEF Open
  <2>2. Alone(i, TRUE) = NoCall
    BY <2>1 DEF Alone, NoCall
  <2> QED BY <1>2, <2>1, <2>2
<1> QED BY <1>1, <1>2

LEMMA AskStep ==
  ASSUME SlateInv, NEW j \in Calls, NEW op \in {"get", "add", "remove"}, NEW c \in Committees,
         NEW ks \in SUBSET Slots, Ask(j, op, c, ks), slate' = slate, shownSlate' = shownSlate,
         selected' \in Committees \union {NoCommittee}, op = "get" => selected' = c
  PROVE  SlateInv'
<1> DEFINE new == [op |-> op, committee |-> c, slots |-> ks, at |-> "server",
                   read |-> {}, alone |-> Open = {}]
<1>1. /\ calls' = [i \in Calls |-> IF i = j THEN new ELSE Alone(i, i \notin Open)]
      /\ current' = FALSE
  BY DEF Ask
<1>2. new \in Call /\ new # NoCall
  BY DEF Call, NoCall
<1>3. \A i \in Calls : i # j => calls'[i] = Alone(i, i \notin Open)
  BY <1>1
<1>4. calls'[j] = new
  BY <1>1
<1>5. NoCall \in Call
  BY DEF NoCall, Call
<1>6. SlateTypes
  BY DEF SlateInv
<1>7. SlateTypes'
  <2>1. \A i \in Calls : calls'[i] \in Call /\ (calls'[i] # NoCall => calls'[i].committee \in Committees /\ calls'[i].op # "none")
    <3> SUFFICES ASSUME NEW i \in Calls
                 PROVE  calls'[i] \in Call /\ (calls'[i] # NoCall => calls'[i].committee \in Committees /\ calls'[i].op # "none")
      OBVIOUS
    <3>1. CASE i = j
      BY <1>2, <1>4, <3>1
    <3>2. CASE i # j
      BY <1>3, <1>5, <1>6, <3>2, AloneFacts DEF SlateTypes, Open
    <3> QED BY <3>1, <3>2
  <2>2. calls' \in [Calls -> Call]
    BY <1>1, <2>1
  <2> QED BY <1>6, <2>1, <2>2 DEF SlateTypes
<1>8. ASSUME NEW i \in Calls, calls'[i] # NoCall, calls'[i].alone
      PROVE  Alright(i, calls[i])'
  <2>1. i = j
    BY <1>3, <1>6, <1>8, AloneFacts
  <2>2. Open = {}
    <3>1. new.alone
      BY <1>4, <1>8, <2>1
    <3> QED BY <3>1
  <2>3. \A k \in Calls : k # j => calls'[k] = NoCall
    BY <1>3, <1>6, <2>2, AloneFacts
  <2> QED BY <1>4, <2>1, <2>3 DEF Alright
<1> QED BY <1>1, <1>7, <1>8 DEF SlateInv

\* A request that is alone goes on.
LEMMA BecomeStep ==
  ASSUME SlateInv, NEW j \in Calls, NEW op \in {"get", "add", "remove"},
         NEW at \in {"server", "answer"}, NEW read \in SUBSET Slots,
         Become(j, op, at, read), calls[j] # NoCall,
         slate' \in [Committees -> SUBSET Slots],
         selected' \in Committees \union {NoCommittee}, shownSlate' = shownSlate, current' = current,
         op = "get" /\ calls[j].alone =>
           calls[j].committee = selected' /\ (at = "answer" => read = slate'[selected']),
         \A i \in Calls : calls[i] # NoCall /\ i # j => ~calls[i].alone
  PROVE  SlateInv'
<1> DEFINE new == [op |-> op, committee |-> calls[j].committee, slots |-> calls[j].slots,
                   at |-> at, read |-> read, alone |-> calls[j].alone]
<1>1. calls' = [calls EXCEPT ![j] = new] /\ calls'[j] = new
      /\ \A i \in Calls : i # j => calls'[i] = calls[i]
  BY DEF Become, SlateInv, SlateTypes
<1>2. new \in Call /\ new # NoCall /\ new.committee \in Committees
  BY DEF SlateInv, SlateTypes, Call, NoCall
<1>3. SlateTypes'
  BY <1>1, <1>2 DEF SlateInv, SlateTypes
<1>4. ASSUME NEW i \in Calls, calls'[i] # NoCall, calls'[i].alone
      PROVE  Alright(i, calls[i])'
  <2>1. i = j
    BY <1>1, <1>4
  <2>2. \A k \in Calls : k # j => calls[k] = NoCall
    BY <1>1, <1>4, <2>1 DEF SlateInv, Alright
  <2> QED BY <1>1, <1>4, <2>1, <2>2 DEF Alright
<1>5. ~current
  BY DEF SlateInv, Open
<1> QED BY <1>3, <1>4, <1>5 DEF SlateInv

\* While one request goes on, another is not alone.
LEMMA OthersNotAlone ==
  ASSUME SlateInv, NEW j \in Calls, calls[j] # NoCall
  PROVE  \A i \in Calls : calls[i] # NoCall /\ i # j => ~calls[i].alone
  BY DEF SlateInv, Alright

LEMMA ServeStep ==
  ASSUME SlateInv, NEW j \in Calls, Serve(j)
  PROVE  SlateInv'
<1>1. calls[j].at = "server" /\ calls[j] # NoCall /\ calls[j] \in Call /\ calls[j].committee \in Committees
  BY DEF Serve, SlateInv, SlateTypes, NoCall
<1> DEFINE c == calls[j].committee
           ks == calls[j].slots
<1>2. /\ slate' = CASE calls[j].op = "add" -> [slate EXCEPT ![c] = @ \union ks]
                    [] calls[j].op = "remove" -> [d \in Committees |-> slate[d] \ ks]
                    [] OTHER -> slate
      /\ Become(j, calls[j].op, "answer", slate[c])
      /\ UNCHANGED <<selected, shownSlate, current>>
  BY DEF Serve
<1>3. calls[j].op \in {"get", "add", "remove"}
  BY <1>1 DEF SlateInv, SlateTypes, Call, NoCall
<1>4. SlateTypes /\ slate[c] \in SUBSET Slots /\ ks \in SUBSET Slots
  BY <1>1 DEF SlateInv, SlateTypes, Call
<1>5. CASE calls[j].op = "get"
  <2>1. slate' = slate
    BY <1>2, <1>5
  <2>2. calls[j].alone => c = selected
    BY <1>1, <1>5 DEF SlateInv, Alright
  <2>3. \A i \in Calls : calls[i] # NoCall /\ i # j => ~calls[i].alone
    BY <1>1, OthersNotAlone
  <2>4. /\ slate' \in [Committees -> SUBSET Slots]
        /\ selected' \in Committees \union {NoCommittee}
        /\ shownSlate' = shownSlate /\ current' = current
    BY <1>2, <1>4, <2>1 DEF SlateTypes
  <2>5. calls[j].alone => c = selected' /\ slate[c] = slate'[selected']
    BY <1>2, <2>1, <2>2
  <2>6. Become(j, "get", "answer", slate[c])
    BY <1>2, <1>5
  <2> QED BY <1>1, <1>4, <2>3, <2>4, <2>5, <2>6, BecomeStep
<1>6. CASE calls[j].op # "get"
  <2>1. slate' \in [Committees -> SUBSET Slots]
    <3>1. CASE calls[j].op = "add"
      <4>1. slate' = [slate EXCEPT ![c] = @ \union ks]
        BY <1>2, <3>1
      <4> QED BY <1>4, <4>1 DEF SlateTypes
    <3>2. CASE calls[j].op = "remove"
      <4>1. slate' = [d \in Committees |-> slate[d] \ ks]
        BY <1>2, <3>2
      <4> QED BY <1>4, <4>1 DEF SlateTypes
    <3> QED BY <1>3, <1>6, <3>1, <3>2
  <2> QED BY <1>1, <1>2, <1>3, <1>4, <1>6, <2>1, OthersNotAlone, BecomeStep DEF SlateTypes
<1> QED BY <1>5, <1>6

LEMMA AnsweredStep ==
  ASSUME SlateInv, NEW j \in Calls, Answered(j)
  PROVE  SlateInv'
<1>1. calls[j].at = "answer" /\ calls[j] # NoCall /\ calls[j].committee \in Committees
  BY DEF Answered, SlateInv, SlateTypes, NoCall
<1>2. /\ Become(j, "get", "server", {}) /\ selected' = calls[j].committee
      /\ slate' = slate /\ shownSlate' = shownSlate /\ current' = current
  BY DEF Answered
<1>3. SlateTypes /\ {} \in SUBSET Slots
  BY DEF SlateInv
<1> QED BY <1>1, <1>2, <1>3, OthersNotAlone, BecomeStep DEF SlateTypes

\* A request ends.
LEMMA EndStep ==
  ASSUME SlateInv, NEW j \in Calls, calls[j] # NoCall, calls' = [calls EXCEPT ![j] = NoCall],
         UNCHANGED <<slate, selected>>, shownSlate' \in SUBSET Slots,
         current' => calls[j].alone /\ shownSlate' = slate[selected]
  PROVE  SlateInv'
<1>1. /\ calls'[j] = NoCall
      /\ \A i \in Calls : i # j => calls'[i] = calls[i]
  BY DEF SlateInv, SlateTypes
<1>2. NoCall \in Call
  BY DEF NoCall, Call
<1>3. SlateTypes'
  BY <1>1, <1>2 DEF SlateInv, SlateTypes
<1>4. \A i \in Calls : calls'[i] # NoCall /\ calls'[i].alone => Alright(i, calls[i])'
  BY <1>1 DEF SlateInv, Alright
<1>5. calls[j].alone => Open' = {}
  BY <1>1 DEF SlateInv, Alright, Open
<1> QED BY <1>3, <1>4, <1>5 DEF SlateInv

LEMMA SlateArrivesStep ==
  ASSUME SlateInv, NEW j \in Calls, SlateArrives(j)
  PROVE  SlateInv'
<1>1. /\ calls[j].at = "answer" /\ calls[j].op = "get" /\ shownSlate' = calls[j].read
      /\ calls' = [calls EXCEPT ![j] = NoCall] /\ current' = calls[j].alone
      /\ UNCHANGED <<slate, selected>>
  BY DEF SlateArrives
<1>2. calls[j] # NoCall
  BY <1>1 DEF NoCall
<1>3. calls[j].read \in SUBSET Slots
  BY DEF SlateInv, SlateTypes, Call
<1>4. calls[j].alone => calls[j].read = slate[selected]
  BY <1>1, <1>2 DEF SlateInv, Alright
<1>5. current' => calls[j].alone /\ shownSlate' = slate[selected]
  BY <1>1, <1>4
<1> QED BY <1>1, <1>2, <1>3, <1>5, EndStep

LEMMA SlateFailsStep ==
  ASSUME SlateInv, NEW j \in Calls, SlateFails(j)
  PROVE  SlateInv'
<1>1. calls[j] # NoCall
  BY DEF SlateFails, NoCall
<1>2. ~current
  BY <1>1 DEF SlateInv, Open
<1>3. shownSlate \in SUBSET Slots
  BY DEF SlateInv, SlateTypes
<1> QED BY <1>1, <1>2, <1>3, EndStep DEF SlateFails

LEMMA AnotherAdminStep ==
  ASSUME SlateInv, NEW c \in Committees, NEW k \in Countries, AnotherAdmin(c, k)
  PROVE  SlateInv'
<1>1. /\ slate' = [slate EXCEPT ![c] = (@ \ {<<c, k>>}) \union ({<<c, k>>} \ @)]
      /\ calls' = [j \in Calls |-> Alone(j, j \notin Open)]
      /\ ~current' /\ UNCHANGED <<selected, shownSlate>>
  BY DEF AnotherAdmin
<1>2. SlateTypes /\ NoCall \in Call
  BY DEF SlateInv, NoCall, Call
<1>3. slate' \in [Committees -> SUBSET Slots]
  <2>1. (slate[c] \ {<<c, k>>}) \union ({<<c, k>>} \ slate[c]) \in SUBSET Slots
    BY <1>2 DEF SlateTypes, Slots
  <2> QED BY <1>1, <1>2, <2>1 DEF SlateTypes
<1>4. ASSUME NEW j \in Calls
      PROVE  /\ calls'[j] \in Call
             /\ calls'[j] # NoCall => /\ ~calls'[j].alone
                                      /\ calls'[j].committee \in Committees /\ calls'[j].op # "none"
  BY <1>1, <1>2, AloneFacts DEF SlateTypes, Open
<1>5. calls' \in [Calls -> Call]
  BY <1>1, <1>4
<1>6. SlateTypes'
  BY <1>1, <1>2, <1>3, <1>4, <1>5 DEF SlateTypes
<1> QED BY <1>1, <1>4, <1>6 DEF SlateInv

LEMMA SlateStep == SlateInv /\ (SlateNext \/ UNCHANGED slateVars) => SlateInv'
<1> SUFFICES ASSUME SlateInv, SlateNext \/ UNCHANGED slateVars PROVE SlateInv'
  OBVIOUS
<1>1. ASSUME NEW j \in Calls, NEW c \in Committees, SelectCommittee(j, c) PROVE SlateInv'
  BY <1>1, AskStep DEF SelectCommittee
<1>2. ASSUME NEW j \in Calls, NEW k \in Countries, AddCountry(j, k) PROVE SlateInv'
  <2>1. selected \in Committees /\ {<<selected, k>>} \in SUBSET Slots
    BY <1>2 DEF AddCountry, CanAdd, SlateInv, SlateTypes, Slots
  <2> QED BY <1>2, <2>1, AskStep DEF AddCountry
<1>3. ASSUME NEW j \in Calls, NEW k \in shownSlate, RemoveCountry(j, k) PROVE SlateInv'
  <2>1. selected \in Committees /\ {k} \in SUBSET Slots
    BY <1>3 DEF RemoveCountry, Removable, SlateInv, SlateTypes
  <2> QED BY <1>3, <2>1, AskStep DEF RemoveCountry
<1>4. CASE UNCHANGED slateVars
  BY <1>4 DEF slateVars, SlateInv, SlateTypes, Alright, Open
<1> QED BY <1>1, <1>2, <1>3, <1>4, ServeStep, AnsweredStep, SlateArrivesStep, SlateFailsStep,
           AnotherAdminStep DEF SlateNext

\* An admin who makes one request at a time, with no other admin beside them,
\* sees the slate of the committee that is selected, for any number of requests
\* and whichever fail (CommitteesTab).  It is the third part of WindowsHonest.
THEOREM SlateAlwaysHonest == Spec => []SlateHonest
<1>1. Init => SlateInv
  BY SlateStart DEF Init
<1>2. SlateInv /\ [Next]_vars => SlateInv'
  <2>1. [Next]_vars => SlateNext \/ UNCHANGED slateVars
    BY DEF Next, vars
  <2> QED BY <2>1, SlateStep
<1>3. SlateInv => SlateHonest
  BY DEF SlateInv, SlateHonest
<1> QED BY <1>1, <1>2, <1>3, PTL DEF Spec

-----------------------------------------------------------------------------
\* The board.

\* A request in hand, and a push on the way to the chair's window.
Job == [op : {"none", "submit", "review", "delete", "withdraw", "acknowledge", "list", "mine"},
        row : Submissions \union Warnings \union {Absent},
        at : {"idle", "read", "push", "answer"},
        read : SubmissionStatus \union [Submissions -> SubmissionStatus],
        alone : BOOLEAN]

Pushes ==
  [row : Submissions, status : SubmissionStatus] \union [row : Warnings, status : WarningStatus]

\* What a request is about and has read fits what it does.
Fits(job) ==
  /\ job.op \in {"submit", "review", "delete", "withdraw"} => job.row \in Submissions
  /\ job.op = "acknowledge" => job.row \in Warnings
  /\ job.op \in {"submit", "review"} /\ job.at = "push" => job.read \in SubmissionStatus
  /\ job.op \in {"list", "mine"} /\ job.at = "answer" =>
       job.read \in [Submissions -> SubmissionStatus]

BoardTypes ==
  /\ submission \in [Submissions -> SubmissionStatus] /\ warning \in [Warnings -> WarningStatus]
  /\ list \in [Submissions -> SubmissionStatus] /\ card \in [Submissions -> SubmissionStatus]
  /\ alerts \in [Warnings -> WarningStatus]
  /\ jobs \in [Jobs -> Job]
  /\ \A j \in Jobs : jobs[j] # Idle => jobs[j].op # "none" /\ Fits(jobs[j])
  /\ inbox \in Seq(Pushes)

\* A request that is alone is the only one, and has the rows to itself.
AloneOnBoard ==
  \A j \in Jobs : jobs[j] # Idle /\ jobs[j].alone =>
    /\ \A i \in Jobs : i # j => jobs[i] = Idle
    /\ jobs[j].op \in {"list", "mine"} /\ jobs[j].at = "answer" => jobs[j].read = submission
    /\ jobs[j].op \in {"submit", "review"} => submission[jobs[j].row] # Absent
    /\ jobs[j].op \in {"submit", "review"} /\ jobs[j].at = "push" =>
         jobs[j].read = submission[jobs[j].row]
    /\ jobs[j].op \in {"delete", "withdraw"} => submission[jobs[j].row] = Absent

\* The window will show s as v when it has read its inbox.
WillShow(s, v) ==
  /\ \A i \in 1 .. Len(inbox) :
       inbox[i].row = s /\ (\A k \in 1 .. Len(inbox) : k > i => inbox[k].row # s)
         => inbox[i].status = v
  /\ (\A i \in 1 .. Len(inbox) : inbox[i].row # s) => list[s] = v

\* A settled list lacks only what the request in hand is about.
ListFollows ==
  settled =>
    /\ \A j \in Jobs : jobs[j] # Idle => jobs[j].alone /\ jobs[j].op # "withdraw"
    /\ \A s \in Submissions :
         \/ WillShow(s, submission[s])
         \/ \E j \in Jobs : jobs[j].op \in {"submit", "review", "delete"} /\ jobs[j].row = s

\* So does a card that is kept.
CardFollows ==
  kept =>
    /\ \A j \in Jobs : jobs[j] # Idle =>
         jobs[j].alone /\ jobs[j].op \in {"withdraw", "list", "acknowledge"}
    /\ \A s \in Submissions :
         \/ card[s] = submission[s]
         \/ \E j \in Jobs : jobs[j].op = "withdraw" /\ jobs[j].row = s

\* Whatever is shown, pushed or handled as acknowledged is.
AcksTrue ==
  /\ \A w \in Warnings : alerts[w] = "acknowledged" => warning[w] = "acknowledged"
  /\ \A i \in 1 .. Len(inbox) :
       inbox[i].row \in Warnings /\ inbox[i].status = "acknowledged" =>
         warning[inbox[i].row] = "acknowledged"
  /\ \A j \in Jobs : jobs[j].op = "acknowledge" => warning[jobs[j].row] = "acknowledged"

BoardInv == BoardTypes /\ AloneOnBoard /\ ListFollows /\ CardFollows /\ AcksTrue

LEMMA BoardStart == BoardInit => BoardInv
<1> SUFFICES ASSUME BoardInit PROVE BoardInv
  OBVIOUS
<1>1. Idle \in Job
  BY DEF Idle, Job, SubmissionStatus
<1>2. inbox \in Seq(Pushes)
  <2>1. <<>> \in Seq(Pushes)
    OBVIOUS
  <2> QED BY <2>1 DEF BoardInit
<1>3. BoardTypes
  BY <1>1, <1>2 DEF BoardInit, BoardTypes, Empty, SubmissionStatus, WarningStatus, Absent
<1>4. \A w \in Warnings : alerts[w] # "acknowledged"
  BY DEF BoardInit, Absent
<1>5. AcksTrue
  BY <1>4 DEF BoardInit, AcksTrue, Idle
<1> QED BY <1>3, <1>5 DEF BoardInit, BoardInv, AloneOnBoard, ListFollows, CardFollows

(***************************************************************************)
(* What the three operators on the requests in hand do.                    *)
(***************************************************************************)

\* A request arrives: the others stay what they are, but are not alone.
LEMMA BeginFacts ==
  ASSUME BoardTypes, NEW j \in Jobs,
         NEW op \in {"submit", "review", "delete", "withdraw", "acknowledge", "list", "mine"},
         NEW row \in Submissions \union Warnings \union {Absent},
         NEW at \in {"read", "push", "answer"}, Begin(j, op, row, at)
  PROVE  /\ jobs' \in [Jobs -> Job] /\ jobs[j] = Idle /\ jobs'[j] # Idle
         /\ jobs'[j].op = op /\ jobs'[j].row = row /\ jobs'[j].at = at /\ jobs'[j].read = Absent
         /\ jobs'[j].alone <=> Busy = {}
         /\ \A i \in Jobs : i # j /\ jobs[i] = Idle => jobs'[i] = Idle
         /\ \A i \in Jobs : i # j /\ jobs[i] # Idle =>
              /\ jobs'[i] # Idle /\ ~jobs'[i].alone
              /\ jobs'[i].op = jobs[i].op /\ jobs'[i].row = jobs[i].row
              /\ jobs'[i].at = jobs[i].at /\ jobs'[i].read = jobs[i].read
         /\ settled' => settled /\ Busy = {} /\ op # "withdraw"
         /\ kept' => kept /\ Busy = {} /\ op \in {"withdraw", "list", "acknowledge"}
<1> DEFINE new == [op |-> op, row |-> row, at |-> at, read |-> Absent, alone |-> Busy = {}]
<1>1. jobs[j] = Idle /\ jobs' = [Disturbed EXCEPT ![j] = new]
  BY DEF Begin
<1>2. settled' => settled /\ Busy = {} /\ op # "withdraw"
  BY Zenon DEF Begin
<1>3. kept' => kept /\ Busy = {} /\ op \in {"withdraw", "list", "acknowledge"}
  BY Zenon DEF Begin
<1>4. new \in Job
  BY DEF Job, SubmissionStatus
<1>5. new.alone <=> Busy = {}
  <2>1. new.alone = (Busy = {})
    BY Zenon
  <2> QED BY <2>1
<1>6. new # Idle
  <2>1. new.op # "none" /\ Idle.op = "none"
    BY DEF Idle
  <2> QED BY <2>1
<1>7. new.op = op /\ new.row = row /\ new.at = at /\ new.read = Absent
  OBVIOUS
<1> HIDE DEF new
<1>8. ASSUME NEW i \in Jobs, jobs[i] # Idle
      PROVE  /\ Disturbed[i] \in Job /\ Disturbed[i] # Idle /\ ~Disturbed[i].alone
             /\ Disturbed[i].op = jobs[i].op /\ Disturbed[i].row = jobs[i].row
             /\ Disturbed[i].at = jobs[i].at /\ Disturbed[i].read = jobs[i].read
  <2>1. Disturbed[i] = [jobs[i] EXCEPT !.alone = FALSE]
    BY <1>8 DEF Disturbed, Busy
  <2>2. jobs[i] \in Job
    BY DEF BoardTypes
  <2>3. ~Disturbed[i].alone
    BY <2>1, <2>2 DEF Job
  <2>4. Idle.alone
    BY DEF Idle
  <2> QED BY <2>1, <2>2, <2>3, <2>4 DEF Job
<1>9. \A i \in Jobs : jobs[i] = Idle => Disturbed[i] = Idle
  BY DEF Disturbed, Busy
<1>10. Idle \in Job
  BY DEF Idle, Job, SubmissionStatus
<1>11. jobs'[j] = new /\ \A i \in Jobs : i # j => jobs'[i] = Disturbed[i]
  BY <1>1 DEF Disturbed
<1>12. jobs' \in [Jobs -> Job]
  BY <1>1, <1>4, <1>8, <1>9, <1>10 DEF Disturbed
<1> QED BY <1>1, <1>2, <1>3, <1>5, <1>6, <1>7, <1>8, <1>9, <1>11, <1>12

\* A request goes on, or ends.
LEMMA StepFacts ==
  ASSUME BoardTypes, NEW j \in Jobs, jobs[j] # Idle,
         NEW at \in {"push", "answer"},
         NEW read \in SubmissionStatus \union [Submissions -> SubmissionStatus],
         jobs' = [jobs EXCEPT ![j].at = at, ![j].read = read]
  PROVE  /\ jobs' \in [Jobs -> Job] /\ jobs'[j] # Idle
         /\ jobs'[j].op = jobs[j].op /\ jobs'[j].row = jobs[j].row
         /\ jobs'[j].at = at /\ jobs'[j].read = read /\ jobs'[j].alone = jobs[j].alone
         /\ \A i \in Jobs : i # j => jobs'[i] = jobs[i]
<1> DEFINE new == [op |-> jobs[j].op, row |-> jobs[j].row, at |-> at, read |-> read,
                   alone |-> jobs[j].alone]
<1>1. jobs[j] \in Job /\ jobs \in [Jobs -> Job] /\ jobs[j].op # "none"
  BY DEF BoardTypes
<1>2. [[jobs[j] EXCEPT !.at = at] EXCEPT !.read = read] = new
  <2> DEFINE mid == [op |-> jobs[j].op, row |-> jobs[j].row, at |-> at, read |-> jobs[j].read,
                     alone |-> jobs[j].alone]
  <2>1. [jobs[j] EXCEPT !.at = at] = mid
    BY <1>1 DEF Job
  <2>2. [mid EXCEPT !.read = read] = new
    OBVIOUS
  <2> QED BY <2>1, <2>2
<1>3. jobs' = [jobs EXCEPT ![j] = new]
  BY <1>1, <1>2
<1>4. new \in Job /\ new.op # "none"
  BY <1>1 DEF Job
<1>5. Idle.op = "none"
  BY DEF Idle
<1>6. jobs'[j] = new /\ new # Idle
  BY <1>1, <1>3, <1>4, <1>5
<1> QED BY <1>1, <1>3, <1>4, <1>6

LEMMA EndFacts ==
  ASSUME BoardTypes, NEW j \in Jobs, End(j)
  PROVE  /\ jobs' \in [Jobs -> Job] /\ jobs'[j] = Idle
         /\ \A i \in Jobs : i # j => jobs'[i] = jobs[i]
<1>1. Idle \in Job
  BY DEF Idle, Job, SubmissionStatus
<1> QED BY <1>1 DEF End, BoardTypes

(***************************************************************************)
(* What the window will show.                                              *)
(***************************************************************************)

LEMMA ShowSame ==
  ASSUME inbox' = inbox, NEW s, NEW v, list'[s] = list[s], WillShow(s, v)
  PROVE  WillShow(s, v)'
  BY DEF WillShow

\* With nothing on the way it is what the window shows.
LEMMA ShowNow ==
  ASSUME inbox = <<>>, NEW s, list[s] = submission[s]
  PROVE  WillShow(s, submission[s])
  BY DEF WillShow

\* A push about s decides what is shown of s, and of nothing else.
LEMMA ShowPushed ==
  ASSUME BoardTypes, NEW m \in Pushes, inbox' = Append(inbox, m), list' = list, NEW s, NEW v
  PROVE  /\ m.row # s /\ WillShow(s, v) => WillShow(s, v)'
         /\ m.row = s /\ m.status = v => WillShow(s, v)'
<1>1. /\ Len(inbox) \in Nat /\ Len(inbox') = Len(inbox) + 1
      /\ inbox'[Len(inbox) + 1] = m
      /\ \A i \in 1 .. Len(inbox) : inbox'[i] = inbox[i]
  BY DEF BoardTypes
<1>2. ASSUME m.row # s, WillShow(s, v) PROVE WillShow(s, v)'
  <2>1. ASSUME NEW i \in 1 .. Len(inbox'), inbox'[i].row = s,
               \A k \in 1 .. Len(inbox') : k > i => inbox'[k].row # s
        PROVE  inbox'[i].status = v
    <3>1. i \in 1 .. Len(inbox)
      BY <1>1, <1>2, <2>1
    <3>2. \A k \in 1 .. Len(inbox) : k > i => inbox[k].row # s
      BY <1>1, <2>1
    <3> QED BY <1>1, <1>2, <2>1, <3>1, <3>2 DEF WillShow
  <2>2. ASSUME \A i \in 1 .. Len(inbox') : inbox'[i].row # s PROVE list'[s] = v
    <3>1. \A i \in 1 .. Len(inbox) : inbox[i].row # s
      BY <1>1, <2>2
    <3> QED BY <1>2, <3>1 DEF WillShow
  <2> QED BY <2>1, <2>2 DEF WillShow
<1>3. ASSUME m.row = s, m.status = v PROVE WillShow(s, v)'
  <2>1. Len(inbox) + 1 \in 1 .. Len(inbox')
    BY <1>1
  <2>2. ASSUME NEW i \in 1 .. Len(inbox'), \A k \in 1 .. Len(inbox') : k > i => inbox'[k].row # s
        PROVE  i = Len(inbox) + 1
    BY <1>1, <1>3, <2>1, <2>2
  <2> QED BY <1>1, <1>3, <2>1, <2>2 DEF WillShow
<1> QED BY <1>2, <1>3

\* Reading the oldest push changes nothing of it.
LEMMA ShowRead ==
  ASSUME BoardTypes, inbox # <<>>, inbox' = Tail(inbox), NEW s, NEW v, WillShow(s, v),
         list'[s] = IF Head(inbox).row = s THEN Head(inbox).status ELSE list[s]
  PROVE  WillShow(s, v)'
<1>1. /\ Len(inbox) \in Nat \ {0} /\ Len(inbox') = Len(inbox) - 1
      /\ Head(inbox) = inbox[1] /\ 1 \in 1 .. Len(inbox)
      /\ \A i \in 1 .. Len(inbox') : inbox'[i] = inbox[i + 1] /\ i + 1 \in 1 .. Len(inbox)
  BY DEF BoardTypes
<1>2. ASSUME NEW k \in 1 .. Len(inbox), k > 1
      PROVE  k - 1 \in 1 .. Len(inbox') /\ inbox'[k - 1] = inbox[k]
  <2>1. k - 1 \in 1 .. Len(inbox') /\ (k - 1) + 1 = k
    BY <1>1, <1>2
  <2> QED BY <1>1, <2>1
<1>3. ASSUME NEW i \in 1 .. Len(inbox'), inbox'[i].row = s,
             \A k \in 1 .. Len(inbox') : k > i => inbox'[k].row # s
      PROVE  inbox'[i].status = v
  <2>1. inbox[i + 1].row = s /\ i + 1 \in 1 .. Len(inbox) /\ inbox'[i] = inbox[i + 1]
    BY <1>1, <1>3
  <2>2. ASSUME NEW k \in 1 .. Len(inbox), k > i + 1 PROVE inbox[k].row # s
    <3>1. k > 1 /\ k - 1 > i
      BY <1>1, <2>2
    <3> QED BY <1>2, <1>3, <3>1
  <2> QED BY <2>1, <2>2 DEF WillShow
<1>4. ASSUME \A i \in 1 .. Len(inbox') : inbox'[i].row # s PROVE list'[s] = v
  <2>1. \A k \in 1 .. Len(inbox) : k > 1 => inbox[k].row # s
    BY <1>2, <1>4
  <2>2. CASE Head(inbox).row = s
    BY <1>1, <2>1, <2>2 DEF WillShow
  <2>3. CASE Head(inbox).row # s
    <3>1. \A i \in 1 .. Len(inbox) : inbox[i].row # s
      BY <1>1, <2>1, <2>3
    <3> QED BY <2>3, <3>1 DEF WillShow
  <2> QED BY <2>2, <2>3
<1> QED BY <1>3, <1>4 DEF WillShow

(***************************************************************************)
(* Steps by which a request arrives.                                       *)
(***************************************************************************)

\* A request that arrives may write the row it is about, and nothing else.
LEMMA ArrivalStep ==
  ASSUME BoardInv, NEW j \in Jobs,
         NEW op \in {"submit", "review", "delete", "withdraw", "acknowledge", "list", "mine"},
         NEW row \in Submissions \union Warnings \union {Absent},
         NEW at \in {"read", "push", "answer"}, Begin(j, op, row, at),
         UNCHANGED <<inbox, list, alerts, card>>,
         op \in {"submit", "review", "delete", "withdraw"} => row \in Submissions,
         op = "acknowledge" => row \in Warnings,
         at = "push" => op = "acknowledge",
         at = "answer" => op \in {"delete", "withdraw"},
         submission' \in [Submissions -> SubmissionStatus],
         warning' \in [Warnings -> WarningStatus],
         \A s \in Submissions : submission'[s] # submission[s] =>
           s = row /\ op \in {"submit", "review", "delete", "withdraw"},
         op \in {"submit", "review"} => submission'[row] # Absent,
         op \in {"delete", "withdraw"} => submission'[row] = Absent,
         \A w \in Warnings : warning[w] = "acknowledged" => warning'[w] = "acknowledged",
         op = "acknowledge" => warning'[row] = "acknowledged"
  PROVE  BoardInv'
<1>t. BoardTypes
  BY DEF BoardInv
<1>b. /\ jobs' \in [Jobs -> Job] /\ jobs[j] = Idle /\ jobs'[j] # Idle
      /\ jobs'[j].op = op /\ jobs'[j].row = row /\ jobs'[j].at = at /\ jobs'[j].read = Absent
      /\ jobs'[j].alone <=> Busy = {}
      /\ \A i \in Jobs : i # j /\ jobs[i] = Idle => jobs'[i] = Idle
      /\ \A i \in Jobs : i # j /\ jobs[i] # Idle =>
           /\ jobs'[i] # Idle /\ ~jobs'[i].alone
           /\ jobs'[i].op = jobs[i].op /\ jobs'[i].row = jobs[i].row
           /\ jobs'[i].at = jobs[i].at /\ jobs'[i].read = jobs[i].read
      /\ settled' => settled /\ Busy = {} /\ op # "withdraw"
      /\ kept' => kept /\ Busy = {} /\ op \in {"withdraw", "list", "acknowledge"}
  BY <1>t, BeginFacts
<1>i. Idle.op = "none"
  BY DEF Idle
<1>1. BoardTypes'
  <2>1. ASSUME NEW i \in Jobs, jobs'[i] # Idle PROVE jobs'[i].op # "none" /\ Fits(jobs'[i])
    <3>1. CASE i = j
      BY <1>b, <3>1 DEF Fits
    <3>2. CASE i # j
      BY <1>t, <1>b, <2>1, <3>2 DEF BoardTypes, Fits
    <3> QED BY <3>1, <3>2
  <2>2. \A i \in Jobs : (jobs[i] # Idle => jobs[i].op # "none" /\ Fits(jobs[i]))'
    BY <2>1 DEF Fits, Idle
  <2> QED BY <1>t, <1>b, <2>2 DEF BoardTypes
<1>2. AloneOnBoard'
  <2> SUFFICES ASSUME NEW i \in Jobs, jobs'[i] # Idle, jobs'[i].alone
               PROVE  /\ \A k \in Jobs : k # i => jobs'[k] = Idle
                      /\ ~ (jobs'[i].op \in {"list", "mine"} /\ jobs'[i].at = "answer")
                      /\ jobs'[i].op \in {"submit", "review"} => submission'[jobs'[i].row] # Absent
                      /\ ~ (jobs'[i].op \in {"submit", "review"} /\ jobs'[i].at = "push")
                      /\ jobs'[i].op \in {"delete", "withdraw"} => submission'[jobs'[i].row] = Absent
    BY DEF AloneOnBoard, Idle
  <2>1. i = j /\ Busy = {}
    BY <1>b
  <2>2. \A k \in Jobs : k # i => jobs'[k] = Idle
    BY <1>b, <2>1 DEF Busy
  <2> QED BY <1>b, <2>1, <2>2
<1>3. ListFollows'
  <2> SUFFICES ASSUME settled'
               PROVE  /\ \A i \in Jobs : jobs'[i] # Idle => jobs'[i].alone /\ jobs'[i].op # "withdraw"
                      /\ \A s \in Submissions :
                           \/ WillShow(s, submission[s])'
                           \/ \E i \in Jobs : jobs'[i].op \in {"submit", "review", "delete"}
                                              /\ jobs'[i].row = s
    BY DEF ListFollows, Idle
  <2>1. settled /\ Busy = {} /\ op # "withdraw" /\ jobs'[j].alone
    BY <1>b
  <2>2. \A i \in Jobs : jobs[i] = Idle
    BY <2>1 DEF Busy
  <2>3. \A i \in Jobs : jobs'[i] # Idle => i = j
    BY <1>b, <2>2
  <2>4. \A s \in Submissions : WillShow(s, submission[s])
    BY <1>i, <2>1, <2>2 DEF BoardInv, ListFollows
  <2>5. ASSUME NEW s \in Submissions, submission'[s] = submission[s]
        PROVE  WillShow(s, submission[s])'
    BY <2>4, <2>5 DEF WillShow
  <2> QED BY <1>b, <2>1, <2>3, <2>5
<1>4. CardFollows'
  <2> SUFFICES ASSUME kept'
               PROVE  /\ \A i \in Jobs : jobs'[i] # Idle =>
                           jobs'[i].alone /\ jobs'[i].op \in {"withdraw", "list", "acknowledge"}
                      /\ \A s \in Submissions :
                           \/ card'[s] = submission'[s]
                           \/ \E i \in Jobs : jobs'[i].op = "withdraw" /\ jobs'[i].row = s
    BY DEF CardFollows, Idle
  <2>1. kept /\ Busy = {} /\ op \in {"withdraw", "list", "acknowledge"} /\ jobs'[j].alone
    BY <1>b
  <2>2. \A i \in Jobs : jobs[i] = Idle
    BY <2>1 DEF Busy
  <2>3. \A i \in Jobs : jobs'[i] # Idle => i = j
    BY <1>b, <2>2
  <2>4. \A s \in Submissions : card[s] = submission[s]
    BY <1>i, <2>1, <2>2 DEF BoardInv, CardFollows
  <2> QED BY <1>b, <2>1, <2>3, <2>4
<1>5. AcksTrue'
  <2>1. ASSUME NEW i \in 1 .. Len(inbox), inbox[i].row \in Warnings,
               inbox[i].status = "acknowledged"
        PROVE  warning'[inbox[i].row] = "acknowledged"
    BY <2>1 DEF BoardInv, AcksTrue
  <2>2. ASSUME NEW i \in Jobs, jobs'[i].op = "acknowledge"
        PROVE  warning'[jobs'[i].row] = "acknowledged"
    <3>1. CASE i = j
      BY <1>b, <2>2, <3>1
    <3>2. CASE i # j
      <4>1. jobs[i] # Idle /\ jobs[i].op = "acknowledge" /\ jobs'[i].row = jobs[i].row
        BY <1>b, <1>i, <2>2, <3>2
      <4>2. jobs[i].row \in Warnings
        BY <1>t, <4>1 DEF BoardTypes, Fits
      <4> QED BY <4>1, <4>2 DEF BoardInv, AcksTrue
    <3> QED BY <3>1, <3>2
  <2> QED BY <2>1, <2>2 DEF BoardInv, AcksTrue
<1> QED BY <1>1, <1>2, <1>3, <1>4, <1>5 DEF BoardInv

LEMMA SubmissionArrivals ==
  ASSUME BoardInv, NEW j \in Jobs, NEW s \in Submissions,
         Submit(j, s) \/ MarkReviewed(j, s) \/ Delete(j, s) \/ Withdraw(j, s)
  PROVE  BoardInv'
<1> USE DEF SubmissionStatus, Absent
<1>t. submission \in [Submissions -> SubmissionStatus] /\ warning \in [Warnings -> WarningStatus]
  BY DEF BoardInv, BoardTypes
<1>1. CASE Submit(j, s)
  BY <1>t, <1>1, ArrivalStep DEF Submit, cardWindow
<1>2. CASE MarkReviewed(j, s)
  BY <1>t, <1>2, ArrivalStep DEF MarkReviewed, cardWindow
<1>3. CASE Delete(j, s)
  BY <1>t, <1>3, ArrivalStep DEF Delete, cardWindow
<1>4. CASE Withdraw(j, s)
  BY <1>t, <1>4, ArrivalStep DEF Withdraw, cardWindow
<1> QED BY <1>1, <1>2, <1>3, <1>4

LEMMA OtherArrivals ==
  ASSUME BoardInv, NEW j \in Jobs,
         (\E w \in Warnings : Acknowledge(j, w)) \/ Mount(j) \/ CardMount(j)
  PROVE  BoardInv'
<1> USE DEF WarningStatus
<1>t. submission \in [Submissions -> SubmissionStatus] /\ warning \in [Warnings -> WarningStatus]
  BY DEF BoardInv, BoardTypes
<1>1. ASSUME NEW w \in Warnings, Acknowledge(j, w) PROVE BoardInv'
  BY <1>t, <1>1, ArrivalStep DEF Acknowledge, cardWindow
<1>2. CASE Mount(j)
  BY <1>t, <1>2, ArrivalStep DEF Mount, rows, cardWindow
<1>3. CASE CardMount(j)
  BY <1>t, <1>3, ArrivalStep DEF CardMount, rows
<1> QED BY <1>1, <1>2, <1>3

(***************************************************************************)
(* Steps by which a request goes on.                                       *)
(***************************************************************************)

LEMMA GoOnStep ==
  ASSUME BoardInv, NEW j \in Jobs, ReadBack(j) \/ ListRead(j)
  PROVE  BoardInv'
<1> DEFINE mine == jobs[j].op \in {"list", "mine"}
           at == IF mine THEN "answer" ELSE "push"
           read == IF mine THEN submission ELSE submission[jobs[j].row]
<1>t. BoardTypes /\ Idle.op = "none"
  BY DEF BoardInv, Idle
<1>1. /\ jobs[j] # Idle /\ jobs[j].op \in {"submit", "review", "list", "mine"}
      /\ jobs' = [jobs EXCEPT ![j].at = at, ![j].read = read]
      /\ UNCHANGED <<submission, warning, inbox, list, alerts, settled, card, kept>>
  BY <1>t DEF ReadBack, ListRead, Step, rows, cardWindow
<1>2. /\ ~mine => jobs[j].row \in Submissions /\ read \in SubmissionStatus
      /\ mine => read \in [Submissions -> SubmissionStatus]
      /\ at \in {"push", "answer"} /\ (mine <=> at = "answer")
      /\ mine => read = submission
      /\ ~mine => read = submission[jobs[j].row]
  BY <1>t, <1>1 DEF BoardTypes, Fits
<1>3. jobs[j].op \in {"list", "mine"} <=> mine
  OBVIOUS
<1> HIDE DEF mine, at, read
<1>4. /\ jobs' \in [Jobs -> Job] /\ jobs'[j] # Idle
      /\ jobs'[j].op = jobs[j].op /\ jobs'[j].row = jobs[j].row
      /\ jobs'[j].at = at /\ jobs'[j].read = read /\ jobs'[j].alone = jobs[j].alone
      /\ \A i \in Jobs : i # j => jobs'[i] = jobs[i]
  BY <1>t, <1>1, <1>2, StepFacts
<1>5. BoardTypes'
  <2>1. ASSUME NEW i \in Jobs PROVE (jobs[i] # Idle => jobs[i].op # "none" /\ Fits(jobs[i]))'
    <3>1. CASE i = j
      BY <1>1, <1>2, <1>3, <1>4, <3>1 DEF Fits
    <3>2. CASE i # j
      BY <1>t, <1>4, <3>2 DEF BoardTypes, Fits, Idle
    <3> QED BY <3>1, <3>2
  <2> QED BY <1>t, <1>1, <1>4, <2>1 DEF BoardTypes
<1>6. AloneOnBoard'
  <2> SUFFICES ASSUME NEW i \in Jobs, jobs'[i] # Idle, jobs'[i].alone
               PROVE  /\ \A k \in Jobs : k # i => jobs'[k] = Idle
                      /\ jobs'[i].op \in {"list", "mine"} /\ jobs'[i].at = "answer" =>
                           jobs'[i].read = submission
                      /\ jobs'[i].op \in {"submit", "review"} => submission[jobs'[i].row] # Absent
                      /\ jobs'[i].op \in {"submit", "review"} /\ jobs'[i].at = "push" =>
                           jobs'[i].read = submission[jobs'[i].row]
                      /\ jobs'[i].op \in {"delete", "withdraw"} =>
                           submission[jobs'[i].row] = Absent
    BY <1>1 DEF AloneOnBoard, Idle
  <2>1. i = j
    BY <1>1, <1>4 DEF BoardInv, AloneOnBoard
  <2> QED BY <1>1, <1>2, <1>3, <1>4, <2>1 DEF BoardInv, AloneOnBoard
<1>7. \A i \in Jobs : /\ jobs'[i].op = jobs[i].op /\ jobs'[i].row = jobs[i].row
                      /\ jobs'[i].alone = jobs[i].alone /\ (jobs'[i] # Idle => jobs[i] # Idle)
  BY <1>1, <1>4
<1>8. ListFollows'
  <2>1. \A s \in Submissions : WillShow(s, submission[s]) => WillShow(s, submission[s])'
    BY <1>1 DEF WillShow
  <2>2. settled' = settled
    BY <1>1
  <2> QED BY <1>7, <2>1, <2>2 DEF BoardInv, ListFollows, Idle
<1>9. CardFollows'
  <2> SUFFICES ASSUME kept'
               PROVE  /\ \A i \in Jobs : jobs'[i] # Idle =>
                           jobs'[i].alone /\ jobs'[i].op \in {"withdraw", "list", "acknowledge"}
                      /\ \A s \in Submissions :
                           \/ card[s] = submission[s]
                           \/ \E i \in Jobs : jobs'[i].op = "withdraw" /\ jobs'[i].row = s
    BY <1>1 DEF CardFollows, Idle
  <2>1. kept
    BY <1>1
  <2>2. \A i \in Jobs : jobs[i] # Idle =>
          jobs[i].alone /\ jobs[i].op \in {"withdraw", "list", "acknowledge"}
    BY <2>1 DEF BoardInv, CardFollows
  <2>3. \A s \in Submissions :
          card[s] = submission[s] \/ \E i \in Jobs : jobs[i].op = "withdraw" /\ jobs[i].row = s
    BY <2>1 DEF BoardInv, CardFollows
  <2> QED BY <1>7, <2>2, <2>3
<1>10. AcksTrue'
  BY <1>1, <1>7 DEF BoardInv, AcksTrue
<1> QED BY <1>5, <1>6, <1>8, <1>9, <1>10 DEF BoardInv

(***************************************************************************)
(* Steps by which a request ends.                                          *)
(***************************************************************************)

\* What is left in hand was in hand, and is alone if it was.
LEMMA EndKeeps ==
  ASSUME BoardInv, NEW j \in Jobs, End(j), submission' = submission
  PROVE  /\ jobs' \in [Jobs -> Job] /\ jobs'[j] = Idle
         /\ \A i \in Jobs : jobs'[i] # Idle => jobs'[i] = jobs[i]
         /\ \A i \in Jobs : (jobs[i] # Idle => jobs[i].op # "none" /\ Fits(jobs[i]))'
         /\ AloneOnBoard'
<1>t. BoardTypes
  BY DEF BoardInv
<1>1. /\ jobs' \in [Jobs -> Job] /\ jobs'[j] = Idle
      /\ \A i \in Jobs : jobs'[i] # Idle => jobs'[i] = jobs[i] /\ jobs[i] # Idle
      /\ \A i \in Jobs : jobs[i] = Idle => jobs'[i] = Idle
  BY <1>t, EndFacts
<1>2. \A i \in Jobs : (jobs[i] # Idle => jobs[i].op # "none" /\ Fits(jobs[i]))'
  BY <1>t, <1>1 DEF BoardTypes, Fits, Idle
<1>3. AloneOnBoard'
  BY <1>1 DEF BoardInv, AloneOnBoard, Idle
<1> QED BY <1>1, <1>2, <1>3

\* A request that had nothing to tell the list leaves it as settled as it was.
LEMMA EndKeepsList ==
  ASSUME BoardInv, NEW j \in Jobs, End(j), submission' = submission,
         settled' => settled /\ (jobs[j].op \in {"submit", "review", "delete"} => FALSE),
         \A s \in Submissions : WillShow(s, submission[s]) => WillShow(s, submission[s])'
  PROVE  ListFollows'
<1>1. \A i \in Jobs : (jobs'[i] # Idle => jobs'[i] = jobs[i]) /\ jobs'[j] = Idle
  BY EndKeeps
<1>2. \A i \in Jobs : i # j => jobs'[i] = jobs[i]
  BY EndFacts DEF BoardInv
<1> QED BY <1>1, <1>2 DEF BoardInv, ListFollows, Idle

LEMMA EndKeepsCard ==
  ASSUME BoardInv, NEW j \in Jobs, End(j), submission' = submission, card' = card,
         kept' => kept /\ jobs[j].op # "withdraw"
  PROVE  CardFollows'
<1> SUFFICES ASSUME kept'
             PROVE  /\ \A i \in Jobs : jobs'[i] # Idle =>
                         jobs'[i].alone /\ jobs'[i].op \in {"withdraw", "list", "acknowledge"}
                    /\ \A s \in Submissions :
                         \/ card[s] = submission[s]
                         \/ \E i \in Jobs : jobs'[i].op = "withdraw" /\ jobs'[i].row = s
  BY DEF CardFollows, Idle
<1>1. jobs'[j] = Idle /\ \A i \in Jobs : i # j => jobs'[i] = jobs[i]
  BY EndFacts DEF BoardInv
<1>2. kept /\ jobs[j].op # "withdraw"
  OBVIOUS
<1>3. \A i \in Jobs : jobs[i] # Idle =>
        jobs[i].alone /\ jobs[i].op \in {"withdraw", "list", "acknowledge"}
  BY <1>2 DEF BoardInv, CardFollows
<1>4. \A s \in Submissions :
        card[s] = submission[s] \/ \E i \in Jobs : jobs[i].op = "withdraw" /\ jobs[i].row = s
  BY <1>2 DEF BoardInv, CardFollows
<1> QED BY <1>1, <1>2, <1>3, <1>4

\* A push that is true keeps the acknowledgements true.
LEMMA AcksPushed ==
  ASSUME BoardInv, NEW m \in Pushes, inbox' = Append(inbox, m), UNCHANGED <<warning, alerts>>,
         m.row \in Warnings /\ m.status = "acknowledged" => warning[m.row] = "acknowledged",
         \A i \in Jobs : jobs'[i].op = "acknowledge" =>
           jobs[i].op = "acknowledge" /\ jobs'[i].row = jobs[i].row
  PROVE  AcksTrue' /\ inbox' \in Seq(Pushes)
<1>1. inbox \in Seq(Pushes)
  BY DEF BoardInv, BoardTypes
<1>2. /\ Len(inbox) \in Nat /\ Len(inbox') = Len(inbox) + 1
      /\ inbox'[Len(inbox) + 1] = m
      /\ \A i \in 1 .. Len(inbox) : inbox'[i] = inbox[i]
      /\ inbox' \in Seq(Pushes)
  BY <1>1
<1>3. ASSUME NEW i \in 1 .. Len(inbox'), inbox'[i].row \in Warnings,
             inbox'[i].status = "acknowledged"
      PROVE  warning[inbox'[i].row] = "acknowledged"
  <2>1. i \in 1 .. Len(inbox) \/ i = Len(inbox) + 1
    BY <1>2
  <2> QED BY <1>2, <1>3, <2>1 DEF BoardInv, AcksTrue
<1> QED BY <1>2, <1>3 DEF BoardInv, AcksTrue

\* With nothing pushed they stay true as well.
LEMMA AcksQuiet ==
  ASSUME BoardInv, UNCHANGED <<inbox, warning, alerts>>,
         \A i \in Jobs : jobs'[i].op = "acknowledge" =>
           jobs[i].op = "acknowledge" /\ jobs'[i].row = jobs[i].row
  PROVE  AcksTrue' /\ inbox' \in Seq(Pushes)
  BY DEF BoardInv, BoardTypes, AcksTrue

LEMMA PushSubmissionStep ==
  ASSUME BoardInv, NEW j \in Jobs, PushSubmission(j)
  PROVE  BoardInv'
<1> DEFINE s == jobs[j].row
           m == [row |-> s, status |-> jobs[j].read]
<1>t. BoardTypes /\ Idle.op = "none" /\ Submissions \intersect Warnings = {}
  BY BoardConstants DEF BoardInv, Idle
<1>1. /\ jobs[j] # Idle /\ jobs[j].op \in {"submit", "review"} /\ jobs[j].at = "push"
      /\ End(j) /\ UNCHANGED <<submission, warning, list, alerts, card, kept>>
      /\ inbox' = inbox \/ (inbox' = Append(inbox, m))
      /\ jobs[j].read # Absent => inbox' = IF subscribed THEN Append(inbox, m) ELSE inbox
  BY <1>t DEF PushSubmission, Push, rows, cardWindow
<1>2. settled' => settled /\ subscribed
  BY Zenon DEF PushSubmission
<1>3. s \in Submissions /\ jobs[j].read \in SubmissionStatus
  BY <1>t, <1>1 DEF BoardTypes, Fits
<1>4. m \in Pushes /\ m.row = s /\ m.status = jobs[j].read
  BY <1>3 DEF Pushes
<1> HIDE DEF m
<1>5. /\ jobs' \in [Jobs -> Job] /\ jobs'[j] = Idle
      /\ \A i \in Jobs : jobs'[i] # Idle => jobs'[i] = jobs[i]
      /\ \A i \in Jobs : (jobs[i] # Idle => jobs[i].op # "none" /\ Fits(jobs[i]))'
      /\ AloneOnBoard'
  BY <1>1, EndKeeps
<1>6. AcksTrue' /\ inbox' \in Seq(Pushes)
  <2>1. \A i \in Jobs : jobs'[i].op = "acknowledge" =>
          jobs[i].op = "acknowledge" /\ jobs'[i].row = jobs[i].row
    BY <1>t, <1>5
  <2>2. m.row \notin Warnings
    BY <1>t, <1>3, <1>4
  <2> QED BY <1>1, <1>4, <2>1, <2>2, AcksPushed, AcksQuiet
<1>7. CardFollows'
  BY <1>1, EndKeepsCard
<1>8. ListFollows'
  <2> SUFFICES ASSUME settled'
               PROVE  /\ \A i \in Jobs : jobs'[i] = Idle
                      /\ \A r \in Submissions : WillShow(r, submission[r])'
    BY DEF ListFollows, Idle
  <2>1. jobs[j].alone /\ \A i \in Jobs : i # j => jobs[i] = Idle
    BY <1>1, <1>2 DEF BoardInv, ListFollows, AloneOnBoard
  <2>2. jobs[j].read = submission[s] /\ jobs[j].read # Absent
    BY <1>1, <2>1 DEF BoardInv, AloneOnBoard
  <2>3. inbox' = Append(inbox, m)
    BY <1>1, <1>2, <2>2
  <2>4. \A i \in Jobs : jobs'[i] = Idle
    BY <1>5, <2>1
  <2>5. ASSUME NEW r \in Submissions PROVE WillShow(r, submission[r])'
    <3>1. CASE r = s
      BY <1>t, <1>1, <1>4, <2>2, <2>3, <3>1, ShowPushed
    <3>2. CASE r # s
      <4>1. WillShow(r, submission[r])
        BY <1>t, <1>2, <2>1, <3>2 DEF BoardInv, ListFollows
      <4> QED BY <1>t, <1>1, <1>4, <2>3, <3>2, <4>1, ShowPushed
    <3> QED BY <3>1, <3>2
  <2> QED BY <2>4, <2>5
<1>9. BoardTypes'
  BY <1>t, <1>1, <1>5, <1>6 DEF BoardTypes
<1> QED BY <1>5, <1>6, <1>7, <1>8, <1>9 DEF BoardInv

LEMMA PushAcknowledgedStep ==
  ASSUME BoardInv, NEW j \in Jobs, PushAcknowledged(j)
  PROVE  BoardInv'
<1> DEFINE m == [row |-> jobs[j].row, status |-> "acknowledged"]
<1>t. BoardTypes /\ Idle.op = "none" /\ Submissions \intersect Warnings = {}
  BY BoardConstants DEF BoardInv, Idle
<1>1. /\ jobs[j] # Idle /\ jobs[j].op = "acknowledge" /\ End(j)
      /\ UNCHANGED <<submission, warning, list, alerts, settled, card, kept>>
      /\ inbox' = inbox \/ inbox' = Append(inbox, m)
  BY <1>t DEF PushAcknowledged, Push, rows, cardWindow
<1>2. m \in Pushes /\ m.row \in Warnings /\ m.row = jobs[j].row
  BY <1>t, <1>1 DEF BoardTypes, Fits, Pushes, WarningStatus
<1> HIDE DEF m
<1>3. warning[m.row] = "acknowledged"
  BY <1>1, <1>2 DEF BoardInv, AcksTrue
<1>4. /\ jobs' \in [Jobs -> Job] /\ jobs'[j] = Idle
      /\ \A i \in Jobs : jobs'[i] # Idle => jobs'[i] = jobs[i]
      /\ \A i \in Jobs : (jobs[i] # Idle => jobs[i].op # "none" /\ Fits(jobs[i]))'
      /\ AloneOnBoard'
  BY <1>1, EndKeeps
<1>5. AcksTrue' /\ inbox' \in Seq(Pushes)
  <2>1. \A i \in Jobs : jobs'[i].op = "acknowledge" =>
          jobs[i].op = "acknowledge" /\ jobs'[i].row = jobs[i].row
    BY <1>t, <1>4
  <2> QED BY <1>1, <1>2, <1>3, <2>1, AcksPushed, AcksQuiet
<1>6. CardFollows'
  BY <1>1, EndKeepsCard
<1>7. \A s \in Submissions : WillShow(s, submission[s]) => WillShow(s, submission[s])'
  <2> SUFFICES ASSUME NEW s \in Submissions, WillShow(s, submission[s])
               PROVE  WillShow(s, submission[s])'
    OBVIOUS
  <2>1. m.row # s
    BY <1>t, <1>2
  <2>2. CASE inbox' = inbox
    BY <1>1, <2>2 DEF WillShow
  <2>3. CASE inbox' = Append(inbox, m)
    BY <1>t, <1>1, <1>2, <2>1, <2>3, ShowPushed
  <2> QED BY <1>1, <2>2, <2>3
<1>8. ListFollows'
  BY <1>1, <1>7, EndKeepsList
<1>9. BoardTypes'
  BY <1>t, <1>1, <1>4, <1>5 DEF BoardTypes
<1> QED BY <1>4, <1>5, <1>6, <1>8, <1>9 DEF BoardInv

\* The end of a request that pushes nothing and writes no row.
LEMMA QuietEnd ==
  ASSUME BoardInv, NEW j \in Jobs, End(j), UNCHANGED <<submission, warning, inbox, alerts>>,
         list' \in [Submissions -> SubmissionStatus], card' \in [Submissions -> SubmissionStatus],
         ListFollows', CardFollows'
  PROVE  BoardInv'
<1>1. /\ jobs' \in [Jobs -> Job]
      /\ \A i \in Jobs : jobs'[i] # Idle => jobs'[i] = jobs[i]
      /\ \A i \in Jobs : (jobs[i] # Idle => jobs[i].op # "none" /\ Fits(jobs[i]))'
      /\ AloneOnBoard'
  BY EndKeeps
<1>2. AcksTrue' /\ inbox' \in Seq(Pushes)
  <2>1. \A i \in Jobs : jobs'[i].op = "acknowledge" =>
          jobs[i].op = "acknowledge" /\ jobs'[i].row = jobs[i].row
    BY <1>1 DEF Idle
  <2> QED BY <2>1, AcksQuiet
<1>3. BoardTypes'
  BY <1>1, <1>2 DEF BoardInv, BoardTypes
<1> QED BY <1>1, <1>2, <1>3 DEF BoardInv

LEMMA DeleteAnsweredStep ==
  ASSUME BoardInv, NEW j \in Jobs, DeleteAnswered(j)
  PROVE  BoardInv'
<1> DEFINE s == jobs[j].row
<1>t. BoardTypes /\ Idle.op = "none"
  BY DEF BoardInv, Idle
<1>1. /\ jobs[j] # Idle /\ jobs[j].op = "delete" /\ End(j)
      /\ list' = [list EXCEPT ![s] = Absent]
      /\ UNCHANGED <<submission, warning, inbox, alerts, card, kept>>
  BY <1>t DEF DeleteAnswered, rows, cardWindow
<1>2. settled' => settled /\ inbox = <<>>
  BY Zenon DEF DeleteAnswered
<1>3. s \in Submissions /\ list' \in [Submissions -> SubmissionStatus]
  BY <1>t, <1>1 DEF BoardTypes, Fits, SubmissionStatus
<1>4. CardFollows'
  BY <1>1, EndKeepsCard
<1>5. ListFollows'
  <2> SUFFICES ASSUME settled'
               PROVE  /\ \A i \in Jobs : jobs'[i] = Idle
                      /\ \A r \in Submissions : WillShow(r, submission[r])'
    BY DEF ListFollows, Idle
  <2>1. jobs[j].alone /\ \A i \in Jobs : i # j => jobs[i] = Idle
    BY <1>1, <1>2 DEF BoardInv, ListFollows, AloneOnBoard
  <2>2. submission[s] = Absent
    BY <1>1, <2>1 DEF BoardInv, AloneOnBoard
  <2>3. \A i \in Jobs : jobs'[i] = Idle
    BY <1>t, <1>1, <2>1, EndFacts
  <2>4. ASSUME NEW r \in Submissions, r # s PROVE list[r] = submission[r]
    <3>1. WillShow(r, submission[r])
      BY <1>t, <1>2, <2>1, <2>4 DEF BoardInv, ListFollows
    <3> QED BY <1>2, <3>1 DEF WillShow
  <2>5. \A r \in Submissions : list'[r] = submission'[r]
    BY <1>t, <1>1, <1>3, <2>2, <2>4 DEF BoardTypes
  <2>6. inbox' = <<>>
    BY <1>1, <1>2
  <2> QED BY <2>3, <2>5, <2>6 DEF WillShow
<1> QED BY <1>t, <1>1, <1>3, <1>4, <1>5, QuietEnd DEF BoardTypes

LEMMA WithdrawnStep ==
  ASSUME BoardInv, NEW j \in Jobs, Withdrawn(j)
  PROVE  BoardInv'
<1> DEFINE s == jobs[j].row
<1>t. BoardTypes /\ Idle.op = "none"
  BY DEF BoardInv, Idle
<1>1. /\ jobs[j] # Idle /\ jobs[j].op = "withdraw" /\ End(j)
      /\ card' = [card EXCEPT ![s] = Absent]
      /\ UNCHANGED <<submission, warning, inbox, alerts, list, settled, kept>>
  BY <1>t DEF Withdrawn, rows
<1>2. s \in Submissions /\ card' \in [Submissions -> SubmissionStatus]
  BY <1>t, <1>1 DEF BoardTypes, Fits, SubmissionStatus
<1>3. ListFollows'
  BY <1>1 DEF BoardInv, ListFollows
<1>4. CardFollows'
  <2> SUFFICES ASSUME kept'
               PROVE  /\ \A i \in Jobs : jobs'[i] = Idle
                      /\ \A r \in Submissions : card'[r] = submission'[r]
    BY DEF CardFollows, Idle
  <2>1. jobs[j].alone /\ \A i \in Jobs : i # j => jobs[i] = Idle
    BY <1>1 DEF BoardInv, CardFollows, AloneOnBoard
  <2>2. submission[s] = Absent
    BY <1>1, <2>1 DEF BoardInv, AloneOnBoard
  <2>3. \A i \in Jobs : jobs'[i] = Idle
    BY <1>t, <1>1, <2>1, EndFacts
  <2>4. ASSUME NEW r \in Submissions, r # s PROVE card[r] = submission[r]
    BY <1>t, <1>1, <2>1, <2>4 DEF BoardInv, CardFollows
  <2> QED BY <1>t, <1>1, <1>2, <2>2, <2>3, <2>4 DEF BoardTypes
<1> QED BY <1>t, <1>1, <1>2, <1>3, <1>4, QuietEnd DEF BoardTypes

LEMMA ListAnsweredStep ==
  ASSUME BoardInv, NEW j \in Jobs, ListAnswered(j)
  PROVE  BoardInv'
<1>t. BoardTypes /\ Idle.op = "none"
  BY DEF BoardInv, Idle
<1>1. /\ jobs[j] # Idle /\ jobs[j].op = "list" /\ jobs[j].at = "answer" /\ End(j)
      /\ list' = jobs[j].read
      /\ UNCHANGED <<submission, warning, inbox, alerts, card, kept>>
  BY <1>t DEF ListAnswered, rows, cardWindow
<1>2. settled' => jobs[j].alone /\ inbox = <<>>
  BY Zenon DEF ListAnswered
<1>3. list' \in [Submissions -> SubmissionStatus]
  BY <1>t, <1>1 DEF BoardTypes, Fits
<1>4. CardFollows'
  BY <1>1, EndKeepsCard
<1>5. ListFollows'
  <2> SUFFICES ASSUME settled'
               PROVE  /\ \A i \in Jobs : jobs'[i] = Idle
                      /\ \A r \in Submissions : WillShow(r, submission[r])'
    BY DEF ListFollows, Idle
  <2>1. (\A i \in Jobs : i # j => jobs[i] = Idle) /\ list' = submission
    BY <1>1, <1>2 DEF BoardInv, AloneOnBoard
  <2>2. \A i \in Jobs : jobs'[i] = Idle
    BY <1>t, <1>1, <2>1, EndFacts
  <2>3. list' = submission' /\ inbox' = <<>>
    BY <1>1, <1>2, <2>1
  <2> QED BY <2>2, <2>3 DEF WillShow
<1> QED BY <1>t, <1>1, <1>3, <1>4, <1>5, QuietEnd DEF BoardTypes

LEMMA CardAnsweredStep ==
  ASSUME BoardInv, NEW j \in Jobs, CardAnswered(j)
  PROVE  BoardInv'
<1>t. BoardTypes /\ Idle.op = "none"
  BY DEF BoardInv, Idle
<1>1. /\ jobs[j] # Idle /\ jobs[j].op = "mine" /\ jobs[j].at = "answer" /\ End(j)
      /\ card' = jobs[j].read /\ kept' = jobs[j].alone
      /\ UNCHANGED <<submission, warning, inbox, alerts, list, settled>>
  BY <1>t DEF CardAnswered, rows
<1>2. card' \in [Submissions -> SubmissionStatus]
  BY <1>t, <1>1 DEF BoardTypes, Fits
<1>3. \A s \in Submissions : WillShow(s, submission[s]) => WillShow(s, submission[s])'
  BY <1>1 DEF WillShow
<1>4. ListFollows'
  BY <1>1, <1>3, EndKeepsList
<1>5. CardFollows'
  <2> SUFFICES ASSUME kept'
               PROVE  /\ \A i \in Jobs : jobs'[i] = Idle
                      /\ \A r \in Submissions : card'[r] = submission'[r]
    BY DEF CardFollows, Idle
  <2>1. (\A i \in Jobs : i # j => jobs[i] = Idle) /\ card' = submission
    BY <1>1 DEF BoardInv, AloneOnBoard
  <2>2. \A i \in Jobs : jobs'[i] = Idle
    BY <1>t, <1>1, <2>1, EndFacts
  <2> QED BY <1>1, <2>1, <2>2
<1> QED BY <1>t, <1>1, <1>2, <1>4, <1>5, QuietEnd DEF BoardTypes

LEMMA ListFailedStep ==
  ASSUME BoardInv, NEW j \in Jobs, ListFailed(j)
  PROVE  BoardInv'
<1>t. BoardTypes /\ Idle.op = "none"
  BY DEF BoardInv, Idle
<1>e. Empty \in [Submissions -> SubmissionStatus]
  BY DEF Empty, SubmissionStatus
<1>1. jobs[j].op \in {"list", "mine"} /\ End(j) /\ UNCHANGED <<submission, warning, inbox, alerts>>
  BY DEF ListFailed, rows
<1>2. CASE jobs[j].op = "list"
  <2>1. list' = Empty /\ ~settled' /\ UNCHANGED <<card, kept>>
    BY <1>2 DEF ListFailed
  <2>2. ListFollows'
    BY <2>1 DEF ListFollows
  <2>3. CardFollows'
    BY <1>1, <1>2, <2>1, EndKeepsCard
  <2> QED BY <1>t, <1>e, <1>1, <2>1, <2>2, <2>3, QuietEnd DEF BoardTypes
<1>3. CASE jobs[j].op = "mine"
  <2>1. card' = Empty /\ ~kept' /\ UNCHANGED <<list, settled>>
    BY <1>3 DEF ListFailed
  <2>2. \A s \in Submissions : WillShow(s, submission[s]) => WillShow(s, submission[s])'
    BY <1>1, <2>1 DEF WillShow
  <2>3. ListFollows'
    BY <1>1, <1>3, <2>1, <2>2, EndKeepsList
  <2>4. CardFollows'
    BY <2>1 DEF CardFollows
  <2> QED BY <1>t, <1>e, <1>1, <2>1, <2>3, <2>4, QuietEnd DEF BoardTypes
<1> QED BY <1>1, <1>2, <1>3

(***************************************************************************)
(* Steps of the window and of the connection.                              *)
(***************************************************************************)

\* They leave the requests and the rows of submissions as they are.
LEMMA WindowOnlyStep ==
  ASSUME BoardInv, UNCHANGED <<submission, jobs>>, warning' \in [Warnings -> WarningStatus],
         list' \in [Submissions -> SubmissionStatus], card' \in [Submissions -> SubmissionStatus],
         alerts' \in [Warnings -> WarningStatus], inbox' \in Seq(Pushes), AcksTrue',
         settled' => settled,
         settled' => \A s \in Submissions : WillShow(s, submission[s]) => WillShow(s, submission[s])',
         kept' => kept, kept' => card' = card
  PROVE  BoardInv'
<1>1. BoardTypes'
  BY DEF BoardInv, BoardTypes, Fits, Idle
<1>2. AloneOnBoard'
  BY DEF BoardInv, AloneOnBoard, Idle
<1>3. ListFollows'
  BY DEF BoardInv, ListFollows, Idle
<1>4. CardFollows'
  BY DEF BoardInv, CardFollows, Idle
<1> QED BY <1>1, <1>2, <1>3, <1>4 DEF BoardInv

LEMMA RaiseStep ==
  ASSUME BoardInv, NEW w \in Warnings, Raise(w)
  PROVE  BoardInv'
<1> DEFINE m == [row |-> w, status |-> "raised"]
<1>t. BoardTypes /\ Submissions \intersect Warnings = {}
  BY BoardConstants DEF BoardInv
<1>1. /\ warning[w] = Absent /\ warning' = [warning EXCEPT ![w] = "raised"]
      /\ inbox' = inbox \/ inbox' = Append(inbox, m)
      /\ UNCHANGED <<submission, jobs, list, alerts, settled, card, kept>>
  BY DEF Raise, Push, cardWindow
<1>2. m \in Pushes /\ m.row = w /\ m.status = "raised"
  BY DEF Pushes, WarningStatus
<1> HIDE DEF m
<1>3. /\ warning' \in [Warnings -> WarningStatus]
      /\ \A x \in Warnings : warning[x] = "acknowledged" => warning'[x] = "acknowledged"
  BY <1>t, <1>1 DEF BoardTypes, WarningStatus, Absent
<1>4. /\ inbox' \in Seq(Pushes)
      /\ \A i \in 1 .. Len(inbox') : (i \in 1 .. Len(inbox) /\ inbox'[i] = inbox[i]) \/ inbox'[i] = m
  <2>1. inbox \in Seq(Pushes)
    BY <1>t DEF BoardTypes
  <2> QED BY <1>1, <1>2, <2>1
<1>5. AcksTrue'
  <2>1. ASSUME NEW i \in 1 .. Len(inbox'), inbox'[i].row \in Warnings,
               inbox'[i].status = "acknowledged"
        PROVE  warning'[inbox'[i].row] = "acknowledged"
    <3>1. i \in 1 .. Len(inbox) /\ inbox'[i] = inbox[i]
      BY <1>2, <1>4, <2>1
    <3> QED BY <1>3, <2>1, <3>1 DEF BoardInv, AcksTrue
  <2>2. ASSUME NEW i \in Jobs, jobs[i].op = "acknowledge"
        PROVE  warning'[jobs[i].row] = "acknowledged"
    <3>1. jobs[i].row \in Warnings
      BY <1>t, <2>2 DEF BoardTypes, Fits, Idle
    <3> QED BY <1>3, <2>2, <3>1 DEF BoardInv, AcksTrue
  <2> QED BY <1>1, <1>3, <2>1, <2>2 DEF BoardInv, AcksTrue
<1>6. \A s \in Submissions : WillShow(s, submission[s]) => WillShow(s, submission[s])'
  <2> SUFFICES ASSUME NEW s \in Submissions, WillShow(s, submission[s])
               PROVE  WillShow(s, submission[s])'
    OBVIOUS
  <2>1. m.row # s
    BY <1>t, <1>2
  <2>2. CASE inbox' = inbox
    BY <1>1, <2>2 DEF WillShow
  <2>3. CASE inbox' = Append(inbox, m)
    BY <1>t, <1>1, <1>2, <2>1, <2>3, ShowPushed
  <2> QED BY <1>1, <2>2, <2>3
<1> QED BY <1>t, <1>1, <1>3, <1>4, <1>5, <1>6, WindowOnlyStep DEF BoardTypes

LEMMA ReadPushStep ==
  ASSUME BoardInv, ReadPush
  PROVE  BoardInv'
<1> DEFINE m == Head(inbox)
<1>t. BoardTypes /\ Submissions \intersect Warnings = {}
  BY BoardConstants DEF BoardInv
<1>1. /\ inbox # <<>> /\ inbox' = Tail(inbox)
      /\ UNCHANGED <<submission, warning, jobs, settled, card, kept>>
      /\ m.row \in Submissions =>
           list' = [list EXCEPT ![m.row] = m.status] /\ alerts' = alerts
      /\ m.row \notin Submissions =>
           /\ alerts' = [alerts EXCEPT ![m.row] =
                IF m.status = "acknowledged" /\ alerts[m.row] = Absent
                THEN alerts[m.row] ELSE m.status]
           /\ list' = list
  BY DEF ReadPush, rows, cardWindow
<1>2. /\ m \in Pushes /\ inbox' \in Seq(Pushes) /\ m = inbox[1] /\ 1 \in 1 .. Len(inbox)
      /\ \A i \in 1 .. Len(inbox') : inbox'[i] = inbox[i + 1] /\ i + 1 \in 1 .. Len(inbox)
  <2>1. inbox \in Seq(Pushes)
    BY <1>t DEF BoardTypes
  <2> HIDE DEF Pushes
  <2> QED BY <1>1, <2>1
<1> HIDE DEF m
<1>3. /\ m.row \in Submissions => m.status \in SubmissionStatus
      /\ m.row \notin Submissions => m.row \in Warnings /\ m.status \in WarningStatus
  BY <1>t, <1>2 DEF Pushes
<1>4. list' \in [Submissions -> SubmissionStatus] /\ alerts' \in [Warnings -> WarningStatus]
  BY <1>t, <1>1, <1>3 DEF BoardTypes
<1>5. AcksTrue'
  <2>1. ASSUME NEW w \in Warnings, alerts'[w] = "acknowledged"
        PROVE  warning[w] = "acknowledged"
    <3>1. CASE alerts[w] = "acknowledged"
      BY <3>1 DEF BoardInv, AcksTrue
    <3>2. CASE alerts[w] # "acknowledged"
      <4>1. m.row = w /\ m.status = "acknowledged"
        BY <1>t, <1>1, <1>3, <2>1, <3>2 DEF BoardTypes
      <4> QED BY <1>2, <4>1 DEF BoardInv, AcksTrue
    <3> QED BY <3>1, <3>2
  <2>2. ASSUME NEW i \in 1 .. Len(inbox'), inbox'[i].row \in Warnings,
               inbox'[i].status = "acknowledged"
        PROVE  warning[inbox'[i].row] = "acknowledged"
    BY <1>2, <2>2 DEF BoardInv, AcksTrue
  <2> QED BY <1>1, <2>1, <2>2 DEF BoardInv, AcksTrue
<1>6. ASSUME NEW s \in Submissions, WillShow(s, submission[s])
      PROVE  WillShow(s, submission[s])'
  <2>1. list'[s] = IF m.row = s THEN m.status ELSE list[s]
    BY <1>t, <1>1 DEF BoardTypes
  <2> QED BY <1>t, <1>1, <1>6, <2>1, ShowRead DEF m
<1> QED BY <1>t, <1>1, <1>2, <1>4, <1>5, <1>6, WindowOnlyStep DEF BoardTypes

LEMMA OtherWindowSteps ==
  ASSUME BoardInv,
         \/ \E s \in Submissions : DeleteFailed(s)
         \/ CardUnmount \/ Subscribe \/ Unsubscribe \/ Unmount
  PROVE  BoardInv'
<1>t. BoardTypes /\ <<>> \in Seq(Pushes)
  BY DEF BoardInv
<1>n. Absent \in SubmissionStatus /\ Absent \in WarningStatus /\ Absent # "acknowledged"
  BY DEF SubmissionStatus, WarningStatus, Absent
<1>1. ASSUME NEW s \in Submissions, DeleteFailed(s) PROVE BoardInv'
  <2>1. /\ UNCHANGED <<submission, warning, jobs, inbox, alerts>>
        /\ \/ list' = [list EXCEPT ![s] = Absent] /\ ~settled' /\ UNCHANGED <<card, kept>>
           \/ card' = [card EXCEPT ![s] = Absent] /\ ~kept' /\ UNCHANGED <<list, settled>>
    BY <1>1 DEF DeleteFailed, rows
  <2>2. AcksTrue' /\ inbox' \in Seq(Pushes)
    BY <2>1, AcksQuiet
  <2>3. list' = list => \A r \in Submissions : WillShow(r, submission[r]) => WillShow(r, submission[r])'
    BY <2>1 DEF WillShow
  <2> QED BY <1>t, <1>n, <2>1, <2>2, <2>3, WindowOnlyStep DEF BoardTypes
<1>2. CASE CardUnmount \/ Subscribe
  <2>1. /\ UNCHANGED <<submission, warning, jobs, inbox, alerts, list, settled, card>>
        /\ kept' => kept
    BY <1>2 DEF CardUnmount, Subscribe, rows, cardWindow
  <2>2. AcksTrue' /\ inbox' \in Seq(Pushes)
    BY <2>1, AcksQuiet
  <2>3. \A r \in Submissions : WillShow(r, submission[r]) => WillShow(r, submission[r])'
    BY <2>1 DEF WillShow
  <2> QED BY <1>t, <2>1, <2>2, <2>3, WindowOnlyStep DEF BoardTypes
<1>3. CASE Unsubscribe \/ Unmount
  <2>1. /\ UNCHANGED <<submission, warning, jobs, list, card, kept>>
        /\ inbox' = <<>> /\ ~settled'
        /\ alerts' = alerts \/ alerts' = [w \in Warnings |-> Absent]
    BY <1>3 DEF Unsubscribe, Unmount, rows, cardWindow
  <2>2. AcksTrue'
    BY <1>n, <2>1 DEF BoardInv, AcksTrue
  <2>3. alerts' \in [Warnings -> WarningStatus]
    BY <1>t, <1>n, <2>1 DEF BoardTypes
  <2> QED BY <1>t, <2>1, <2>2, <2>3, WindowOnlyStep DEF BoardTypes
<1> QED BY <1>1, <1>2, <1>3

LEMMA BoardStep ==
  BoardInv /\ (SubmissionsNext \/ WarningsNext \/ UNCHANGED boardVars) => BoardInv'
<1> SUFFICES ASSUME BoardInv, SubmissionsNext \/ WarningsNext \/ UNCHANGED boardVars
             PROVE  BoardInv'
  OBVIOUS
<1>1. CASE UNCHANGED boardVars
  <2>1. UNCHANGED <<submission, warning, jobs, inbox, alerts, list, settled, card, kept>>
    BY <1>1 DEF boardVars, rows, cardWindow
  <2>2. AcksTrue' /\ inbox' \in Seq(Pushes)
    BY <2>1, AcksQuiet
  <2>3. \A r \in Submissions : WillShow(r, submission[r]) => WillShow(r, submission[r])'
    BY <2>1 DEF WillShow
  <2> QED BY <2>1, <2>2, <2>3, WindowOnlyStep DEF BoardInv, BoardTypes
<1>2. CASE ChairNext
  BY <1>2, OtherArrivals, GoOnStep, ListAnsweredStep, ListFailedStep, ReadPushStep,
     OtherWindowSteps DEF ChairNext
<1>3. CASE SubmissionsNext
  BY <1>2, <1>3, SubmissionArrivals, OtherArrivals, GoOnStep, PushSubmissionStep,
     DeleteAnsweredStep, WithdrawnStep, CardAnsweredStep, OtherWindowSteps DEF SubmissionsNext
<1>4. CASE WarningsNext
  BY <1>2, <1>4, RaiseStep, OtherArrivals, PushAcknowledgedStep DEF WarningsNext
<1> QED BY <1>1, <1>3, <1>4

\* The list and the card that were fetched and kept up with one request at a
\* time are the table, and what is shown as acknowledged is, for any number of
\* submissions, warnings, requests and pushes on the way.  It is the first part
\* of WindowsHonest.
THEOREM BoardAlwaysHonest == Spec => []BoardHonest
<1>1. Init => BoardInv
  BY BoardStart DEF Init
<1>2. BoardInv /\ [Next]_vars => BoardInv'
  <2>1. [Next]_vars => SubmissionsNext \/ WarningsNext \/ UNCHANGED boardVars
    BY DEF Next, vars
  <2> QED BY <2>1, BoardStep
<1>3. BoardInv => BoardHonest
  <2> SUFFICES ASSUME BoardInv PROVE BoardHonest
    OBVIOUS
  <2>1. Busy = {} => \A j \in Jobs : jobs[j].op = "none"
    BY DEF Busy, Idle
  <2>2. ASSUME settled, Busy = {}, inbox = <<>> PROVE list = submission
    <3>1. \A s \in Submissions : WillShow(s, submission[s])
      BY <2>1, <2>2 DEF BoardInv, ListFollows
    <3>2. \A s \in Submissions : list[s] = submission[s]
      BY <2>2, <3>1 DEF WillShow
    <3> QED BY <3>2 DEF BoardInv, BoardTypes
  <2>3. ASSUME kept, Busy = {} PROVE card = submission
    <3>1. \A s \in Submissions : card[s] = submission[s]
      BY <2>1, <2>3 DEF BoardInv, CardFollows
    <3> QED BY <3>1 DEF BoardInv, BoardTypes
  <2> QED BY <2>2, <2>3 DEF BoardHonest, BoardInv, AcksTrue
<1> QED BY <1>1, <1>2, <1>3, PTL DEF Spec

-----------------------------------------------------------------------------
\* The roll call.

\* A request in hand, and a message on the way to the chair's window.
Work == [who : Roll \union {None}, at : {"idle", "mark", "tell", "read", "send"},
         then : {"idle", "read"}, rows : {NoRows} \union [Roll -> Seats],
         alone : BOOLEAN, replaced : BOOLEAN]

Messages ==
  [t : {"delegate_status"}, who : Roll, connection : Connection]
    \union [t : {"committee_state"}, rows : {NoRows} \union [Roll -> Seats]]

RosterTypes ==
  /\ seat \in [Roll -> Seats] /\ record \in [Roll -> Connection \union {None}]
  /\ works \in [Works -> Work]
  /\ \A w \in Works : /\ works[w] # Spare <=> works[w].at # "idle"
                      /\ works[w].at \in {"mark", "tell"} => works[w].who \in Roll
                      /\ works[w].at = "tell" => record[works[w].who] \in Connection
  /\ mail \in Seq(Messages)
  /\ status \in [Roll -> Connection \union {None}]

\* A request that is alone is the only one, and has the rows to itself.
AloneOnRoll ==
  \A w \in Works : works[w] # Spare /\ works[w].alone =>
    /\ \A v \in Works : v # w => works[v] = Spare
    /\ works[w].at = "send" => works[w].rows = seat

\* The rows, and the connection of d, that the window will show when it has
\* read its mail.
WillCall(rs) ==
  /\ \A i \in 1 .. Len(mail) :
       /\ mail[i].t = "committee_state"
       /\ \A k \in 1 .. Len(mail) : k > i => mail[k].t # "committee_state"
       => mail[i].rows = rs
  /\ (\A i \in 1 .. Len(mail) : mail[i].t # "committee_state") => roll = rs

About(m, d) == m.t = "delegate_status" /\ m.who = d

WillWatch(d) ==
  /\ \A i \in 1 .. Len(mail) :
       About(mail[i], d) /\ (\A k \in 1 .. Len(mail) : k > i => ~About(mail[k], d))
         => mail[i].connection = record[d]
  /\ (\A i \in 1 .. Len(mail) : ~About(mail[i], d)) => status[d] \in {None, record[d]}

\* The roll that was called is the table, or a request is about to send it.
RollFollows ==
  called =>
    /\ attached
    /\ \A w \in Works : works[w] # Spare => works[w].alone
    /\ WillCall(seat) \/ \E w \in Works : works[w].at \in {"read", "send"}

\* A watched connection is the record, or a request is about to tell it.
StatusFollows ==
  watched =>
    /\ attached
    /\ \A w \in Works : works[w] # Spare => works[w].alone /\ ~works[w].replaced
    /\ \A d \in Roll : WillWatch(d) \/ \E w \in Works : works[w].at = "tell" /\ works[w].who = d

\* A window without the chair, or without its socket, gets and shows nothing.
Unattended ==
  /\ ~attached => mail = <<>>
  /\ attached => signedIn
  /\ ~signedIn => status = [d \in Roll |-> None]

RosterInv == RosterTypes /\ AloneOnRoll /\ RollFollows /\ StatusFollows /\ Unattended

LEMMA RosterStart == RosterInit => RosterInv
<1> SUFFICES ASSUME RosterInit PROVE RosterInv
  OBVIOUS
<1>1. Spare \in Work
  BY DEF Spare, Work
<1>2. mail \in Seq(Messages)
  <2>1. <<>> \in Seq(Messages)
    OBVIOUS
  <2> QED BY <2>1 DEF RosterInit
<1>3. seat \in [Roll -> Seats]
  BY DEF RosterInit, Seats, Attendance
<1>4. RosterTypes
  BY <1>1, <1>2, <1>3 DEF RosterInit, RosterTypes, None, Spare
<1> QED BY <1>4 DEF RosterInit, RosterInv, AloneOnRoll, RollFollows, StatusFollows, Unattended

(***************************************************************************)
(* What the operators on the requests in hand do.                          *)
(***************************************************************************)

\* A request has arrived: the others stay what they are, but are not alone.
Arrived(w, d, at) ==
  /\ works' \in [Works -> Work] /\ works[w] = Spare
  /\ works'[w].who = d /\ works'[w].at = at /\ ~works'[w].replaced
  /\ works'[w].alone <=> InHand = {}
  /\ \A v \in Works : v # w /\ works[v] = Spare => works'[v] = Spare
  /\ \A v \in Works : v # w /\ works[v] # Spare =>
       /\ ~works'[v].alone /\ works'[v].who = works[v].who
       /\ works'[v].at = works[v].at
  /\ \A v \in Works : works'[v] # Spare <=> works'[v].at # "idle"
  /\ called' => called /\ InHand = {}

LEMMA ArriveFacts ==
  ASSUME RosterTypes, NEW w \in Works, NEW d \in Roll \union {None}, NEW at \in {"mark", "read"},
         NEW then \in {"idle", "read"}, NEW held,
         \A v \in Works : /\ held[v] \in Work /\ held[v].who = works[v].who
                          /\ held[v].at = works[v].at,
         Arrive(w, d, at, then, held)
  PROVE  Arrived(w, d, at)
<1> DEFINE new == [who |-> d, at |-> at, then |-> then, rows |-> NoRows,
                   alone |-> InHand = {}, replaced |-> FALSE]
<1>1. /\ works[w] = Spare
      /\ works' = [v \in Works |-> IF v = w THEN new
                                   ELSE IF v \in InHand THEN [held[v] EXCEPT !.alone = FALSE]
                                   ELSE Spare]
  BY DEF Arrive
<1>2. called' => called /\ InHand = {}
  BY Zenon DEF Arrive
<1>3. new \in Work
  BY DEF Work, None
<1>4. new.alone <=> InHand = {}
  <2>1. new.alone = (InHand = {})
    BY Zenon
  <2> QED BY <2>1
<1>5. /\ new.who = d /\ new.at = at /\ ~new.replaced
      /\ new.at # "idle" /\ Spare.at = "idle" /\ Spare.alone /\ Spare \in Work
  BY DEF Spare, Work
<1> HIDE DEF new
<1>6. ASSUME NEW v \in Works, v # w, works[v] # Spare
      PROVE  /\ works'[v] \in Work /\ ~works'[v].alone /\ works'[v].who = works[v].who
             /\ works'[v].at = works[v].at
  <2>1. works'[v] = [held[v] EXCEPT !.alone = FALSE]
    BY <1>1, <1>6 DEF InHand
  <2> QED BY <2>1 DEF Work
<1>7. \A v \in Works : v # w /\ works[v] = Spare => works'[v] = Spare
  BY <1>1 DEF InHand
<1>8. works'[w] = new
  BY <1>1
<1>9. works' \in [Works -> Work]
  <2>1. \A v \in Works : works'[v] \in Work
    BY <1>3, <1>5, <1>6, <1>7, <1>8
  <2> QED BY <1>1, <2>1
<1>10. \A v \in Works : works'[v] # Spare <=> works'[v].at # "idle"
  <2> TAKE v \in Works
  <2>1. CASE v = w
    BY <1>5, <1>8, <2>1
  <2>2. CASE v # w /\ works[v] = Spare
    BY <1>5, <1>7, <2>2
  <2>3. CASE v # w /\ works[v] # Spare
    <3>1. works'[v].at # "idle"
      BY <1>6, <2>3 DEF RosterTypes
    <3> QED BY <1>5, <3>1
  <2> QED BY <2>1, <2>2, <2>3
<1> QED BY <1>1, <1>2, <1>4, <1>5, <1>6, <1>7, <1>8, <1>9, <1>10 DEF Arrived

\* A new connection of a delegate replaces the record that is about to be told.
LEMMA HeldFacts ==
  ASSUME RosterTypes, NEW d \in Roll, NEW v \in Works
  PROVE  LET held == [works[v] EXCEPT !.replaced = @ \/ (works[v].who = d /\ works[v].at = "tell")]
         IN  held \in Work /\ held.who = works[v].who /\ held.at = works[v].at
<1>1. works[v] \in Work
  BY DEF RosterTypes
<1>2. (works[v].replaced \/ (works[v].who = d /\ works[v].at = "tell")) \in BOOLEAN
  BY <1>1 DEF Work
<1> QED BY <1>1, <1>2 DEF Work

\* A request goes on, or ends.
LEMMA OnwardFacts ==
  ASSUME RosterTypes, NEW w \in Works, works[w].at \in {"mark", "tell"},
         works' = [works EXCEPT ![w] = Onward(@)]
  PROVE  /\ works' \in [Works -> Work]
         /\ works'[w] = Spare \/ /\ works'[w] # Spare /\ works'[w].at = "read"
                                 /\ ~works'[w].replaced /\ works'[w].alone = works[w].alone
         /\ \A v \in Works : v # w => works'[v] = works[v]
<1>1. works[w] \in Work /\ works \in [Works -> Work]
  BY DEF RosterTypes
<1>2. works'[w] = Onward(works[w]) /\ \A v \in Works : v # w => works'[v] = works[v]
  BY <1>1
<1>3. Spare \in Work /\ Spare.at = "idle"
  BY DEF Spare, Work
<1>4. CASE works[w].then = "idle"
  <2>1. Onward(works[w]) = Spare
    BY <1>4 DEF Onward
  <2> QED BY <1>1, <1>2, <1>3, <2>1
<1>5. CASE works[w].then # "idle"
  <2> DEFINE mid == [works[w] EXCEPT !.at = "read"]
             new == [mid EXCEPT !.replaced = FALSE]
  <2>1. works[w].then = "read"
    BY <1>1, <1>5 DEF Work
  <2>2. Onward(works[w]) = new
    BY <1>5, <2>1 DEF Onward
  <2>3. mid \in Work /\ mid.at = "read" /\ mid.alone = works[w].alone
    BY <1>1 DEF Work
  <2> HIDE DEF mid
  <2>4. new \in Work /\ new.at = "read" /\ ~new.replaced /\ new.alone = works[w].alone
    BY <2>3 DEF Work
  <2> HIDE DEF new
  <2> QED BY <1>1, <1>2, <1>3, <2>2, <2>4
<1> QED BY <1>4, <1>5

LEMMA RollReadFacts ==
  ASSUME RosterTypes, NEW w \in Works, works[w].at = "read",
         works' = [works EXCEPT ![w].at = "send", ![w].rows = seat]
  PROVE  /\ works' \in [Works -> Work]
         /\ works'[w].at = "send" /\ works'[w].rows = seat /\ works'[w] # Spare
         /\ works'[w].alone = works[w].alone /\ works'[w].replaced = works[w].replaced
         /\ \A v \in Works : v # w => works'[v] = works[v]
<1> DEFINE new == [who |-> works[w].who, at |-> "send", then |-> works[w].then, rows |-> seat,
                   alone |-> works[w].alone, replaced |-> works[w].replaced]
           mid == [who |-> works[w].who, at |-> "send", then |-> works[w].then,
                   rows |-> works[w].rows, alone |-> works[w].alone,
                   replaced |-> works[w].replaced]
<1>1. works[w] \in Work /\ works \in [Works -> Work] /\ seat \in [Roll -> Seats]
  BY DEF RosterTypes
<1>2. [works[w] EXCEPT !.at = "send"] = mid
  BY <1>1 DEF Work
<1>3. [mid EXCEPT !.rows = seat] = new
  OBVIOUS
<1>4. works' = [works EXCEPT ![w] = new]
  BY <1>1, <1>2, <1>3
<1>5. /\ new \in Work /\ new.at = "send" /\ new.rows = seat /\ new.alone = works[w].alone
      /\ new.replaced = works[w].replaced
  BY <1>1 DEF Work
<1>6. Spare.at = "idle"
  BY DEF Spare
<1> HIDE DEF new
<1> QED BY <1>1, <1>4, <1>5, <1>6

(***************************************************************************)
(* What the window will show.                                              *)
(***************************************************************************)

LEMMA MailFacts ==
  ASSUME RosterTypes, NEW m \in Messages, Mail(<<m>>)
  PROVE  /\ mail' \in Seq(Messages)
         /\ attached => mail' = Append(mail, m)
         /\ ~attached => mail' = mail
<1>1. mail \in Seq(Messages)
  BY DEF RosterTypes
<1>2. mail \o <<m>> = Append(mail, m) /\ Append(mail, m) \in Seq(Messages)
  <2> HIDE DEF Messages
  <2> QED BY <1>1
<1> QED BY <1>1, <1>2 DEF Mail

\* Only the rows of the last committee_state count for what is shown.
LEMMA CallPushed ==
  ASSUME RosterTypes, NEW m \in Messages, mail' = Append(mail, m), roll' = roll, NEW rs
  PROVE  /\ m.t # "committee_state" /\ WillCall(rs) => WillCall(rs)'
         /\ m.t = "committee_state" /\ m.rows = rs => WillCall(rs)'
<1>1. /\ Len(mail) \in Nat /\ Len(mail') = Len(mail) + 1
      /\ mail'[Len(mail) + 1] = m
      /\ \A i \in 1 .. Len(mail) : mail'[i] = mail[i]
  BY DEF RosterTypes
<1>2. ASSUME m.t # "committee_state", WillCall(rs) PROVE WillCall(rs)'
  <2>1. ASSUME NEW i \in 1 .. Len(mail'), mail'[i].t = "committee_state",
               \A k \in 1 .. Len(mail') : k > i => mail'[k].t # "committee_state"
        PROVE  mail'[i].rows = rs
    <3>1. i \in 1 .. Len(mail)
      BY <1>1, <1>2, <2>1
    <3>2. \A k \in 1 .. Len(mail) : k > i => mail[k].t # "committee_state"
      BY <1>1, <2>1
    <3> QED BY <1>1, <1>2, <2>1, <3>1, <3>2 DEF WillCall
  <2>2. ASSUME \A i \in 1 .. Len(mail') : mail'[i].t # "committee_state" PROVE roll' = rs
    <3>1. \A i \in 1 .. Len(mail) : mail[i].t # "committee_state"
      BY <1>1, <2>2
    <3> QED BY <1>2, <3>1 DEF WillCall
  <2> QED BY <2>1, <2>2 DEF WillCall
<1>3. ASSUME m.t = "committee_state", m.rows = rs PROVE WillCall(rs)'
  <2>1. Len(mail) + 1 \in 1 .. Len(mail')
    BY <1>1
  <2>2. ASSUME NEW i \in 1 .. Len(mail'),
               \A k \in 1 .. Len(mail') : k > i => mail'[k].t # "committee_state"
        PROVE  i = Len(mail) + 1
    BY <1>1, <1>3, <2>1, <2>2
  <2> QED BY <1>1, <1>3, <2>1, <2>2 DEF WillCall
<1> QED BY <1>2, <1>3

\* Only the last delegate_status of d counts for what is shown of d.
LEMMA WatchPushed ==
  ASSUME RosterTypes, NEW m \in Messages, mail' = Append(mail, m), status' = status, NEW d
  PROVE  /\ ~About(m, d) /\ record'[d] = record[d] /\ WillWatch(d) => WillWatch(d)'
         /\ About(m, d) /\ m.connection = record'[d] => WillWatch(d)'
<1>1. /\ Len(mail) \in Nat /\ Len(mail') = Len(mail) + 1
      /\ mail'[Len(mail) + 1] = m
      /\ \A i \in 1 .. Len(mail) : mail'[i] = mail[i]
  BY DEF RosterTypes
<1>2. ASSUME ~About(m, d), record'[d] = record[d], WillWatch(d) PROVE WillWatch(d)'
  <2>1. ASSUME NEW i \in 1 .. Len(mail'), About(mail'[i], d),
               \A k \in 1 .. Len(mail') : k > i => ~About(mail'[k], d)
        PROVE  mail'[i].connection = record'[d]
    <3>1. i \in 1 .. Len(mail)
      BY <1>1, <1>2, <2>1
    <3>2. \A k \in 1 .. Len(mail) : k > i => ~About(mail[k], d)
      BY <1>1, <2>1
    <3> QED BY <1>1, <1>2, <2>1, <3>1, <3>2 DEF WillWatch
  <2>2. ASSUME \A i \in 1 .. Len(mail') : ~About(mail'[i], d)
        PROVE  status'[d] \in {None, record'[d]}
    <3>1. \A i \in 1 .. Len(mail) : ~About(mail[i], d)
      BY <1>1, <2>2
    <3> QED BY <1>2, <3>1 DEF WillWatch
  <2> QED BY <2>1, <2>2 DEF WillWatch, About
<1>3. ASSUME About(m, d), m.connection = record'[d] PROVE WillWatch(d)'
  <2>1. Len(mail) + 1 \in 1 .. Len(mail') /\ About(mail'[Len(mail) + 1], d)
    BY <1>1, <1>3
  <2>2. ASSUME NEW i \in 1 .. Len(mail'), \A k \in 1 .. Len(mail') : k > i => ~About(mail'[k], d)
        PROVE  i = Len(mail) + 1
    BY <1>1, <1>3, <2>1, <2>2
  <2> QED BY <1>1, <1>3, <2>1, <2>2 DEF WillWatch, About
<1> QED BY <1>2, <1>3

\* The rows of the oldest message are shown, and it is no longer on the way.
LEMMA CallRead ==
  ASSUME RosterTypes, mail # <<>>, mail' = Tail(mail), NEW rs, WillCall(rs),
         roll' = IF Head(mail).t = "committee_state" THEN Head(mail).rows ELSE roll
  PROVE  WillCall(rs)'
<1>1. /\ Len(mail) \in Nat \ {0} /\ Len(mail') = Len(mail) - 1
      /\ Head(mail) = mail[1] /\ 1 \in 1 .. Len(mail)
      /\ \A i \in 1 .. Len(mail') : mail'[i] = mail[i + 1] /\ i + 1 \in 1 .. Len(mail)
  BY DEF RosterTypes
<1>2. ASSUME NEW k \in 1 .. Len(mail), k > 1
      PROVE  k - 1 \in 1 .. Len(mail') /\ mail'[k - 1] = mail[k]
  <2>1. k - 1 \in 1 .. Len(mail') /\ (k - 1) + 1 = k
    BY <1>1, <1>2
  <2> QED BY <1>1, <2>1
<1>3. ASSUME NEW i \in 1 .. Len(mail'), mail'[i].t = "committee_state",
             \A k \in 1 .. Len(mail') : k > i => mail'[k].t # "committee_state"
      PROVE  mail'[i].rows = rs
  <2>1. mail[i + 1].t = "committee_state" /\ i + 1 \in 1 .. Len(mail) /\ mail'[i] = mail[i + 1]
    BY <1>1, <1>3
  <2>2. ASSUME NEW k \in 1 .. Len(mail), k > i + 1 PROVE mail[k].t # "committee_state"
    <3>1. k > 1 /\ k - 1 > i
      BY <1>1, <2>2
    <3> QED BY <1>2, <1>3, <3>1
  <2> QED BY <2>1, <2>2 DEF WillCall
<1>4. ASSUME \A i \in 1 .. Len(mail') : mail'[i].t # "committee_state" PROVE roll' = rs
  <2>1. \A k \in 1 .. Len(mail) : k > 1 => mail[k].t # "committee_state"
    BY <1>2, <1>4
  <2>2. CASE Head(mail).t = "committee_state"
    BY <1>1, <2>1, <2>2 DEF WillCall
  <2>3. CASE Head(mail).t # "committee_state"
    <3>1. \A i \in 1 .. Len(mail) : mail[i].t # "committee_state"
      BY <1>1, <2>1, <2>3
    <3> QED BY <2>3, <3>1 DEF WillCall
  <2> QED BY <2>2, <2>3
<1> QED BY <1>3, <1>4 DEF WillCall

LEMMA WatchRead ==
  ASSUME RosterTypes, mail # <<>>, mail' = Tail(mail), NEW d, WillWatch(d),
         record'[d] = record[d],
         status'[d] = IF About(Head(mail), d) THEN Head(mail).connection ELSE status[d]
  PROVE  WillWatch(d)'
<1>1. /\ Len(mail) \in Nat \ {0} /\ Len(mail') = Len(mail) - 1
      /\ Head(mail) = mail[1] /\ 1 \in 1 .. Len(mail)
      /\ \A i \in 1 .. Len(mail') : mail'[i] = mail[i + 1] /\ i + 1 \in 1 .. Len(mail)
  BY DEF RosterTypes
<1>2. ASSUME NEW k \in 1 .. Len(mail), k > 1
      PROVE  k - 1 \in 1 .. Len(mail') /\ mail'[k - 1] = mail[k]
  <2>1. k - 1 \in 1 .. Len(mail') /\ (k - 1) + 1 = k
    BY <1>1, <1>2
  <2> QED BY <1>1, <2>1
<1>3. ASSUME NEW i \in 1 .. Len(mail'), About(mail'[i], d),
             \A k \in 1 .. Len(mail') : k > i => ~About(mail'[k], d)
      PROVE  mail'[i].connection = record'[d]
  <2>1. About(mail[i + 1], d) /\ i + 1 \in 1 .. Len(mail) /\ mail'[i] = mail[i + 1]
    BY <1>1, <1>3
  <2>2. ASSUME NEW k \in 1 .. Len(mail), k > i + 1 PROVE ~About(mail[k], d)
    <3>1. k > 1 /\ k - 1 > i
      BY <1>1, <2>2
    <3> QED BY <1>2, <1>3, <3>1
  <2> QED BY <2>1, <2>2 DEF WillWatch
<1>4. ASSUME \A i \in 1 .. Len(mail') : ~About(mail'[i], d)
      PROVE  status'[d] \in {None, record'[d]}
  <2>1. \A k \in 1 .. Len(mail) : k > 1 => ~About(mail[k], d)
    BY <1>2, <1>4
  <2>2. CASE About(Head(mail), d)
    BY <1>1, <2>1, <2>2 DEF WillWatch
  <2>3. CASE ~About(Head(mail), d)
    <3>1. \A i \in 1 .. Len(mail) : ~About(mail[i], d)
      BY <1>1, <2>1, <2>3
    <3> QED BY <2>3, <3>1 DEF WillWatch
  <2> QED BY <2>2, <2>3
<1> QED BY <1>3, <1>4 DEF WillWatch, About

(***************************************************************************)
(* Steps by which a request arrives.                                       *)
(***************************************************************************)

LEMMA ArriveKeeps ==
  ASSUME RosterInv, NEW w \in Works, NEW d \in Roll \union {None}, NEW at \in {"mark", "read"},
         Arrived(w, d, at),
         at = "mark" => d \in Roll,
         seat' \in [Roll -> Seats], record' \in [Roll -> Connection \union {None}],
         \A e \in Roll : record[e] \in Connection => record'[e] \in Connection,
         mail' \in Seq(Messages), status' = status
  PROVE  RosterTypes' /\ AloneOnRoll'
<1>t. RosterTypes
  BY DEF RosterInv
<1>s. Spare.at = "idle"
  BY DEF Spare
<1>1. RosterTypes'
  <2>1. ASSUME NEW v \in Works
        PROVE  /\ works'[v].at \in {"mark", "tell"} => works'[v].who \in Roll
               /\ works'[v].at = "tell" => record'[works'[v].who] \in Connection
    <3>1. CASE v = w
      BY <3>1 DEF Arrived
    <3>2. CASE v # w /\ works[v] = Spare
      BY <1>s, <3>2 DEF Arrived
    <3>3. CASE v # w /\ works[v] # Spare
      BY <1>t, <3>3 DEF RosterTypes, Arrived
    <3> QED BY <3>1, <3>2, <3>3
  <2>2. \A v \in Works : (works[v] # Spare <=> works[v].at # "idle")'
    BY DEF Spare, Arrived
  <2> QED BY <1>t, <2>1, <2>2 DEF RosterTypes, Arrived
<1>2. AloneOnRoll'
  <2> SUFFICES ASSUME NEW v \in Works, works'[v] # Spare, works'[v].alone
               PROVE  /\ \A u \in Works : u # v => works'[u] = Spare
                      /\ works'[v].at # "send"
    BY DEF AloneOnRoll, Spare
  <2>1. v = w /\ InHand = {}
    BY DEF Arrived
  <2>2. \A u \in Works : u # v => works'[u] = Spare
    BY <2>1 DEF InHand, Arrived
  <2> QED BY <2>1, <2>2 DEF Arrived
<1> QED BY <1>1, <1>2

\* A request that arrives may write what it is about, and then tells the
\* connection and is about to send the rows.
LEMMA RollArrival ==
  ASSUME RosterInv, NEW w \in Works, NEW d \in Roll, NEW at \in {"mark", "read"},
         Arrived(w, d, at),
         watched' => watched /\ InHand = {},
         UNCHANGED <<signedIn, attached, roll, status>>,
         seat' \in [Roll -> Seats], record' \in [Roll -> Connection \union {None}],
         \A e \in Roll : record[e] \in Connection => record'[e] \in Connection,
         \A e \in Roll : e # d => record'[e] = record[e],
         at = "mark" => seat' = seat /\ record' = record /\ mail' = mail,
         \/ record' = record /\ mail' = mail
         \/ \E m \in Messages : /\ About(m, d) /\ m.connection = record'[d]
                                /\ mail' \in Seq(Messages)
                                /\ attached => mail' = Append(mail, m)
                                /\ ~attached => mail' = mail
  PROVE  RosterInv'
<1>t. RosterTypes
  BY DEF RosterInv
<1>a. /\ works[w] = Spare /\ works'[w].at = at /\ ~works'[w].replaced
      /\ works'[w].alone <=> InHand = {}
      /\ \A v \in Works : v # w /\ works[v] = Spare => works'[v] = Spare
      /\ called' => called /\ InHand = {}
  BY DEF Arrived
<1>s. Spare.at = "idle"
  BY DEF Spare
<1>m. mail' \in Seq(Messages)
  BY <1>t DEF RosterTypes
<1>1. RosterTypes' /\ AloneOnRoll'
  BY <1>m, ArriveKeeps
<1>2. ASSUME InHand = {}
      PROVE  /\ \A v \in Works : works[v] = Spare
             /\ \A v \in Works : works'[v] # Spare => v = w /\ works'[v].alone
  BY <1>a, <1>2 DEF InHand
<1>3. RollFollows'
  <2> SUFFICES ASSUME called'
               PROVE  /\ attached'
                      /\ \A v \in Works : works'[v] # Spare => works'[v].alone
                      /\ WillCall(seat)' \/ \E v \in Works : works'[v].at \in {"read", "send"}
    BY DEF RollFollows, Spare
  <2>1. called /\ InHand = {}
    BY <1>a
  <2>2. attached' /\ \A v \in Works : works'[v] # Spare => works'[v].alone
    BY <1>2, <2>1 DEF RosterInv, RollFollows
  <2>3. CASE at = "mark"
    <3>1. WillCall(seat)
      BY <1>2, <1>s, <2>1 DEF RosterInv, RollFollows
    <3>2. WillCall(seat)'
      BY <2>3, <3>1 DEF WillCall
    <3> QED BY <2>2, <3>2
  <2>4. CASE at = "read"
    BY <1>a, <2>2, <2>4
  <2> QED BY <2>3, <2>4
<1>4. StatusFollows'
  <2> SUFFICES ASSUME watched'
               PROVE  /\ attached'
                      /\ \A v \in Works : works'[v] # Spare => works'[v].alone /\ ~works'[v].replaced
                      /\ \A e \in Roll : WillWatch(e)'
    BY DEF StatusFollows, Spare
  <2>1. watched /\ InHand = {} /\ attached
    BY DEF RosterInv, StatusFollows
  <2>2. \A v \in Works : works'[v] # Spare => works'[v].alone /\ ~works'[v].replaced
    BY <1>a, <1>2, <2>1
  <2>3. \A e \in Roll : WillWatch(e)
    BY <1>2, <1>s, <2>1 DEF RosterInv, StatusFollows
  <2>4. CASE record' = record /\ mail' = mail
    BY <2>1, <2>2, <2>3, <2>4 DEF WillWatch
  <2>5. ASSUME NEW m \in Messages, About(m, d), m.connection = record'[d], mail' = Append(mail, m)
        PROVE  \A e \in Roll : WillWatch(e)'
    <3> SUFFICES ASSUME NEW e \in Roll PROVE WillWatch(e)'
      OBVIOUS
    <3>1. CASE e = d
      BY <1>t, <2>5, <3>1, WatchPushed
    <3>2. CASE e # d
      <4>1. ~About(m, e) /\ record'[e] = record[e] /\ WillWatch(e)
        BY <2>3, <2>5, <3>2 DEF About
      <4> QED BY <1>t, <2>5, <4>1, WatchPushed
    <3> QED BY <3>1, <3>2
  <2> QED BY <2>1, <2>2, <2>4, <2>5
<1>5. Unattended'
  BY DEF RosterInv, Unattended
<1> QED BY <1>1, <1>3, <1>4, <1>5 DEF RosterInv

\* What every request about d that writes its row tells of the record.
LEMMA UpdatedMailed ==
  ASSUME RosterTypes, NEW d \in Roll, Mail(Updated(d)), record' = record
  PROVE  \/ record' = record /\ mail' = mail
         \/ \E m \in Messages : /\ About(m, d) /\ m.connection = record'[d]
                                /\ mail' \in Seq(Messages)
                                /\ attached => mail' = Append(mail, m)
                                /\ ~attached => mail' = mail
<1>1. CASE record[d] = None
  <2>1. mail \o <<>> = mail
    BY DEF RosterTypes
  <2>2. mail' = mail
    BY <1>1, <2>1 DEF Mail, Updated
  <2> QED BY <2>2
<1>2. CASE record[d] # None
  <2>1. PICK m \in Messages : m = [t |-> "delegate_status", who |-> d, connection |-> record[d]]
    BY <1>2 DEF Messages, RosterTypes
  <2>2. About(m, d) /\ m.connection = record'[d]
    BY <2>1 DEF About
  <2>3. Mail(<<m>>)
    BY <1>2, <2>1 DEF Updated, StatusOf
  <2>4. /\ mail' \in Seq(Messages)
        /\ attached => mail' = Append(mail, m)
        /\ ~attached => mail' = mail
    BY <2>3, MailFacts
  <2> QED BY <2>2, <2>4
<1> QED BY <1>1, <1>2

LEMMA ChairRequests ==
  ASSUME RosterInv, NEW w \in Works, NEW d \in Roll,
         \/ \E a \in Attendance : RollCall(w, d, a)
         \/ \E e \in BOOLEAN : SetEnabled(w, d, e)
         \/ ForceLogout(w, d) \/ DelegateGone(w, d)
  PROVE  RosterInv'
<1>t. RosterTypes /\ \A v \in Works : works[v] \in Work
  BY DEF RosterInv, RosterTypes
<1>1. ASSUME NEW a \in Attendance, RollCall(w, d, a) PROVE RosterInv'
  <2>1. /\ Mail(Updated(d)) /\ Arrive(w, d, "read", "idle", works)
        /\ seat' = [seat EXCEPT ![d].attendance = a]
        /\ UNCHANGED <<record, signedIn, attached, roll, status>>
    BY <1>1 DEF RollCall, window
  <2>2. watched' => watched /\ InHand = {}
    BY <1>1, Zenon DEF RollCall
  <2>3. seat' \in [Roll -> Seats]
    BY <1>t, <2>1 DEF RosterTypes, Seats
  <2>4. Arrived(w, d, "read")
    BY <1>t, <2>1, ArriveFacts
  <2> QED BY <1>t, <2>1, <2>2, <2>3, <2>4, UpdatedMailed, RollArrival DEF RosterTypes
<1>2. ASSUME NEW e \in BOOLEAN, SetEnabled(w, d, e) PROVE RosterInv'
  <2>1. /\ Mail(Updated(d)) /\ Arrive(w, d, "read", "idle", works)
        /\ seat' = [seat EXCEPT ![d].enabled = e]
        /\ UNCHANGED <<record, signedIn, attached, roll, status>>
    BY <1>2 DEF SetEnabled, window
  <2>2. watched' => watched /\ InHand = {}
    BY <1>2, Zenon DEF SetEnabled
  <2>3. seat' \in [Roll -> Seats]
    BY <1>t, <2>1 DEF RosterTypes, Seats
  <2>4. Arrived(w, d, "read")
    BY <1>t, <2>1, ArriveFacts
  <2> QED BY <1>t, <2>1, <2>2, <2>3, <2>4, UpdatedMailed, RollArrival DEF RosterTypes
<1>3. CASE ForceLogout(w, d)
  <2>1. /\ Arrive(w, d, "mark", "read", works)
        /\ UNCHANGED <<seat, record, mail, signedIn, attached, roll, status>>
    BY <1>3 DEF ForceLogout, window
  <2>2. watched' => watched /\ InHand = {}
    BY <1>3, Zenon DEF ForceLogout
  <2>3. Arrived(w, d, "mark")
    BY <1>t, <2>1, ArriveFacts
  <2> QED BY <1>t, <2>1, <2>2, <2>3, RollArrival DEF RosterTypes
<1>4. CASE DelegateGone(w, d)
  <2>1. /\ Arrive(w, d, "mark", "idle", works)
        /\ UNCHANGED <<seat, record, mail, signedIn, attached, roll, status>>
    BY <1>4 DEF DelegateGone, window
  <2>2. watched' => watched /\ InHand = {}
    BY <1>4, Zenon DEF DelegateGone
  <2>3. Arrived(w, d, "mark")
    BY <1>t, <2>1, ArriveFacts
  <2> QED BY <1>t, <2>1, <2>2, <2>3, RollArrival DEF RosterTypes
<1> QED BY <1>1, <1>2, <1>3, <1>4

\* What a connection of d tells.
LEMMA ConnectedMailed ==
  ASSUME RosterTypes, NEW d \in Roll, NEW c \in Connection, Mail(StatusOf(d, c))
  PROVE  \E m \in Messages : /\ About(m, d) /\ m.connection = c /\ m.t # "committee_state"
                             /\ mail' \in Seq(Messages)
                             /\ attached => mail' = Append(mail, m)
                             /\ ~attached => mail' = mail
                             /\ \A e \in Roll : e # d => ~About(m, e)
<1>1. PICK m \in Messages : m = [t |-> "delegate_status", who |-> d, connection |-> c]
  BY DEF Messages
<1>2. /\ About(m, d) /\ m.connection = c /\ m.t # "committee_state"
      /\ \A e \in Roll : e # d => ~About(m, e)
  BY <1>1 DEF About
<1>3. Mail(<<m>>)
  BY <1>1 DEF StatusOf
<1>4. /\ mail' \in Seq(Messages)
      /\ attached => mail' = Append(mail, m)
      /\ ~attached => mail' = mail
  BY <1>3, MailFacts
<1> QED BY <1>2, <1>4

LEMMA DelegateHelloStep ==
  ASSUME RosterInv, NEW w \in Works, NEW d \in Roll, DelegateHello(w, d)
  PROVE  RosterInv'
<1> DEFINE held == [v \in Works |-> [works[v] EXCEPT !.replaced =
                      @ \/ (works[v].who = d /\ works[v].at = "tell")]]
<1>t. RosterTypes
  BY DEF RosterInv
<1>1. /\ Mail(StatusOf(d, "connected")) /\ Arrive(w, d, "read", "idle", held)
      /\ record' = [record EXCEPT ![d] = "connected"]
      /\ UNCHANGED <<seat, signedIn, attached, roll, status>>
  BY DEF DelegateHello, window
<1>2. watched' => watched /\ InHand = {}
  BY Zenon DEF DelegateHello
<1>3. \A v \in Works : /\ held[v] \in Work /\ held[v].who = works[v].who
                       /\ held[v].at = works[v].at
  BY <1>t, HeldFacts
<1> HIDE DEF held
<1>4. /\ record' \in [Roll -> Connection \union {None}] /\ record'[d] = "connected"
      /\ \A e \in Roll : e # d => record'[e] = record[e]
      /\ seat' \in [Roll -> Seats] /\ "connected" \in Connection
  BY <1>t, <1>1 DEF RosterTypes, Connection
<1>5. PICK m \in Messages : /\ About(m, d) /\ m.connection = "connected"
                            /\ mail' \in Seq(Messages)
                            /\ attached => mail' = Append(mail, m)
                            /\ ~attached => mail' = mail
  BY <1>t, <1>1, <1>4, ConnectedMailed
<1>6. Arrived(w, d, "read")
  BY <1>t, <1>1, <1>3, ArriveFacts
<1> QED BY <1>1, <1>2, <1>4, <1>5, <1>6, RollArrival

LEMMA AttachStep ==
  ASSUME RosterInv, NEW w \in Works, Attach(w)
  PROVE  RosterInv'
<1>t. RosterTypes /\ \A v \in Works : works[v] \in Work
  BY DEF RosterInv, RosterTypes
<1>1. /\ ~attached /\ attached' /\ signedIn' /\ Arrive(w, None, "read", "idle", works)
      /\ UNCHANGED <<seat, record, mail, roll, status>>
  BY DEF Attach, window
<1>2. watched' => InHand = {} /\ (watched \/ ~signedIn)
  BY Zenon DEF Attach
<1>a. Arrived(w, None, "read")
  BY <1>t, <1>1, ArriveFacts
<1>3. RosterTypes' /\ AloneOnRoll'
  BY <1>t, <1>1, <1>a, ArriveKeeps DEF RosterTypes
<1>4. RollFollows'
  <2>1. ~called'
    BY <1>1, <1>a DEF RosterInv, RollFollows, Arrived
  <2> QED BY <2>1 DEF RollFollows
<1>5. StatusFollows'
  <2> SUFFICES ASSUME watched'
               PROVE  /\ \A v \in Works : works'[v] # Spare => works'[v].alone /\ ~works'[v].replaced
                      /\ \A e \in Roll : WillWatch(e)'
    BY <1>1 DEF StatusFollows, Spare
  <2>1. InHand = {} /\ ~signedIn
    BY <1>1, <1>2 DEF RosterInv, StatusFollows
  <2>2. \A v \in Works : works'[v] # Spare => v = w
    BY <1>a, <2>1 DEF InHand, Arrived
  <2>3. mail' = <<>> /\ \A e \in Roll : status'[e] = None
    BY <1>1, <2>1 DEF RosterInv, Unattended
  <2>4. \A e \in Roll : WillWatch(e)'
    BY <2>3 DEF WillWatch
  <2> QED BY <1>a, <2>1, <2>2, <2>4 DEF Arrived
<1>6. Unattended'
  BY <1>1 DEF Unattended
<1> QED BY <1>3, <1>4, <1>5, <1>6 DEF RosterInv

(***************************************************************************)
(* Steps of a request in hand.                                             *)
(***************************************************************************)

\* The others stay what they are, and who was alone still is.
LEMMA WorkKeeps ==
  ASSUME RosterInv, NEW w \in Works, works[w] # Spare, works' \in [Works -> Work],
         \A v \in Works : v # w => works'[v] = works[v],
         works'[w] # Spare => /\ works'[w].at # "idle" /\ works'[w].alone = works[w].alone
                              /\ works'[w].at \in {"mark", "tell"} => works'[w].who \in Roll
                              /\ works'[w].at = "tell" => record'[works'[w].who] \in Connection
                              /\ works'[w].at = "send" => works'[w].rows = seat,
         seat' = seat, record' \in [Roll -> Connection \union {None}],
         \A e \in Roll : record[e] \in Connection => record'[e] \in Connection,
         mail' \in Seq(Messages), status' = status
  PROVE  RosterTypes' /\ AloneOnRoll'
<1>t. RosterTypes
  BY DEF RosterInv
<1>s. Spare.at = "idle"
  BY DEF Spare
<1>1. RosterTypes'
  <2>1. ASSUME NEW v \in Works
        PROVE  /\ works'[v] # Spare <=> works'[v].at # "idle"
               /\ works'[v].at \in {"mark", "tell"} => works'[v].who \in Roll
               /\ works'[v].at = "tell" => record'[works'[v].who] \in Connection
    <3>1. CASE v = w
      BY <1>s, <3>1
    <3>2. CASE v # w
      BY <1>t, <3>2 DEF RosterTypes
    <3> QED BY <3>1, <3>2
  <2>2. \A v \in Works : (works[v] # Spare <=> works[v].at # "idle")'
    BY <2>1 DEF Spare
  <2> QED BY <1>t, <2>1, <2>2 DEF RosterTypes
<1>2. AloneOnRoll'
  <2> SUFFICES ASSUME NEW v \in Works, works'[v] # Spare, works'[v].alone
               PROVE  /\ \A u \in Works : u # v => works'[u] = Spare
                      /\ works'[v].at = "send" => works'[v].rows = seat'
    BY DEF AloneOnRoll, Spare
  <2>1. v = w
    <3>1. CASE v # w
      BY <3>1 DEF RosterInv, AloneOnRoll
    <3> QED BY <3>1
  <2>2. \A u \in Works : u # w => works[u] = Spare
    BY <2>1 DEF RosterInv, AloneOnRoll
  <2> QED BY <2>1, <2>2
<1> QED BY <1>1, <1>2

\* While the flags hold, a request in hand is the only one.
LEMMA OnlyWork ==
  ASSUME RosterInv, NEW w \in Works, works[w] # Spare, called \/ watched
  PROVE  works[w].alone /\ \A v \in Works : v # w => works[v] = Spare
<1>1. works[w].alone
  BY DEF RosterInv, RollFollows, StatusFollows
<1> QED BY <1>1 DEF RosterInv, AloneOnRoll

LEMMA MarkStep ==
  ASSUME RosterInv, NEW w \in Works, Mark(w)
  PROVE  RosterInv'
<1> DEFINE d == works[w].who
<1>t. RosterTypes /\ works[w] \in Work /\ Spare.at = "idle"
  BY DEF RosterInv, RosterTypes, Spare
<1>0. /\ works[w].at = "mark" /\ works[w] # Spare /\ d \in Roll
      /\ UNCHANGED <<seat, signedIn, attached, mail, roll, status, called, watched>>
  BY <1>t DEF Mark, window, flags, RosterTypes
<1>1. CASE record[d] = "connected"
  <2>1. record' = [record EXCEPT ![d] = "disconnected"] /\ works' = [works EXCEPT ![w].at = "tell"]
    BY <1>1 DEF Mark
  <2>2. /\ works' \in [Works -> Work] /\ works'[w] # Spare /\ works'[w].at = "tell"
        /\ works'[w].who = d /\ works'[w].alone = works[w].alone
        /\ works'[w].replaced = works[w].replaced
        /\ \A v \in Works : v # w => works'[v] = works[v]
    <3>1. works'[w] = [works[w] EXCEPT !.at = "tell"]
      BY <1>t, <2>1 DEF RosterTypes
    <3>2. works'[w] \in Work /\ works'[w].at = "tell"
      BY <1>t, <3>1 DEF Work
    <3> QED BY <1>t, <2>1, <3>1, <3>2 DEF RosterTypes, Work
  <2>3. /\ record' \in [Roll -> Connection \union {None}] /\ record'[d] \in Connection
        /\ \A e \in Roll : record[e] \in Connection => record'[e] \in Connection
        /\ \A e \in Roll : e # d => record'[e] = record[e]
    BY <1>t, <1>0, <2>1 DEF RosterTypes, Connection
  <2>4. mail' \in Seq(Messages)
    BY <1>t, <1>0 DEF RosterTypes
  <2>5. RosterTypes' /\ AloneOnRoll'
    BY <1>0, <2>2, <2>3, <2>4, WorkKeeps
  <2>6. RollFollows'
    <3> SUFFICES ASSUME called'
                 PROVE  /\ attached' /\ WillCall(seat)'
                        /\ \A v \in Works : works'[v] # Spare => works'[v].alone
      BY DEF RollFollows, Spare
    <3>1. called /\ works[w].alone /\ \A v \in Works : v # w => works[v] = Spare
      BY <1>0, OnlyWork
    <3>2. attached /\ WillCall(seat)
      BY <1>t, <1>0, <3>1 DEF RosterInv, RollFollows
    <3> QED BY <1>0, <2>2, <3>1, <3>2 DEF WillCall
  <2>7. StatusFollows'
    <3> SUFFICES ASSUME watched'
                 PROVE  /\ attached'
                        /\ \A v \in Works : works'[v] # Spare => works'[v].alone /\ ~works'[v].replaced
                        /\ \A e \in Roll : e # d => WillWatch(e)'
      BY <2>2 DEF StatusFollows, Spare
    <3>1. /\ watched /\ works[w].alone /\ \A v \in Works : v # w => works[v] = Spare
      BY <1>0, OnlyWork
    <3>2. attached /\ ~works[w].replaced /\ \A e \in Roll : WillWatch(e)
      BY <1>t, <1>0, <3>1 DEF RosterInv, StatusFollows
    <3>3. \A e \in Roll : e # d => WillWatch(e)'
      BY <1>0, <2>3, <3>2 DEF WillWatch
    <3> QED BY <1>0, <2>2, <3>1, <3>2, <3>3
  <2> QED BY <1>0, <2>5, <2>6, <2>7 DEF RosterInv, Unattended
<1>2. CASE record[d] # "connected"
  <2>1. record' = record /\ works' = [works EXCEPT ![w] = Onward(@)]
    BY <1>2 DEF Mark
  <2>2. /\ works' \in [Works -> Work]
        /\ works'[w] = Spare \/ /\ works'[w] # Spare /\ works'[w].at = "read"
                                /\ ~works'[w].replaced /\ works'[w].alone = works[w].alone
        /\ \A v \in Works : v # w => works'[v] = works[v]
    BY <1>t, <1>0, <2>1, OnwardFacts
  <2>3. record' \in [Roll -> Connection \union {None}] /\ mail' \in Seq(Messages)
    BY <1>t, <1>0, <2>1 DEF RosterTypes
  <2>4. RosterTypes' /\ AloneOnRoll'
    BY <1>0, <2>1, <2>2, <2>3, WorkKeeps
  <2>5. RollFollows'
    <3> SUFFICES ASSUME called'
                 PROVE  /\ attached' /\ WillCall(seat)'
                        /\ \A v \in Works : works'[v] # Spare => works'[v].alone
      BY DEF RollFollows, Spare
    <3>1. called /\ works[w].alone /\ \A v \in Works : v # w => works[v] = Spare
      BY <1>0, OnlyWork
    <3>2. attached /\ WillCall(seat)
      BY <1>t, <1>0, <3>1 DEF RosterInv, RollFollows
    <3> QED BY <1>0, <2>2, <3>1, <3>2 DEF WillCall
  <2>6. StatusFollows'
    <3> SUFFICES ASSUME watched'
                 PROVE  /\ attached' /\ \A e \in Roll : WillWatch(e)'
                        /\ \A v \in Works : works'[v] # Spare => works'[v].alone /\ ~works'[v].replaced
      BY DEF StatusFollows, Spare
    <3>1. watched /\ works[w].alone /\ \A v \in Works : v # w => works[v] = Spare
      BY <1>0, OnlyWork
    <3>2. attached /\ \A e \in Roll : WillWatch(e)
      BY <1>t, <1>0, <3>1 DEF RosterInv, StatusFollows
    <3>3. \A e \in Roll : WillWatch(e)'
      BY <1>0, <2>1, <3>2 DEF WillWatch
    <3> QED BY <1>0, <2>2, <3>1, <3>2, <3>3
  <2> QED BY <1>0, <2>4, <2>5, <2>6 DEF RosterInv, Unattended
<1> QED BY <1>1, <1>2

LEMMA TellStep ==
  ASSUME RosterInv, NEW w \in Works, Tell(w)
  PROVE  RosterInv'
<1> DEFINE d == works[w].who
           c == IF works[w].replaced THEN "disconnected" ELSE record[d]
<1>t. RosterTypes /\ works[w] \in Work /\ Spare.at = "idle"
  BY DEF RosterInv, RosterTypes, Spare
<1>0. /\ works[w].at = "tell" /\ works[w] # Spare /\ d \in Roll
      /\ Mail(StatusOf(d, c)) /\ works' = [works EXCEPT ![w] = Onward(@)]
      /\ UNCHANGED <<seat, record, signedIn, attached, roll, status, called, watched>>
  BY <1>t DEF Tell, window, flags, RosterTypes
<1>1. c \in Connection /\ (~works[w].replaced => c = record[d])
  BY <1>t, <1>0 DEF RosterTypes, Connection
<1> HIDE DEF c
<1>2. PICK m \in Messages : /\ About(m, d) /\ m.connection = c /\ m.t # "committee_state"
                            /\ mail' \in Seq(Messages)
                            /\ attached => mail' = Append(mail, m)
                            /\ ~attached => mail' = mail
                            /\ \A e \in Roll : e # d => ~About(m, e)
  BY <1>t, <1>0, <1>1, ConnectedMailed
<1>3. /\ works' \in [Works -> Work]
      /\ works'[w] = Spare \/ /\ works'[w] # Spare /\ works'[w].at = "read"
                              /\ ~works'[w].replaced /\ works'[w].alone = works[w].alone
      /\ \A v \in Works : v # w => works'[v] = works[v]
  BY <1>t, <1>0, OnwardFacts
<1>4. RosterTypes' /\ AloneOnRoll'
  BY <1>t, <1>0, <1>2, <1>3, WorkKeeps DEF RosterTypes
<1>5. RollFollows'
  <2> SUFFICES ASSUME called'
               PROVE  /\ attached' /\ WillCall(seat)'
                      /\ \A v \in Works : works'[v] # Spare => works'[v].alone
    BY DEF RollFollows, Spare
  <2>1. called /\ works[w].alone /\ \A v \in Works : v # w => works[v] = Spare
    BY <1>0, OnlyWork
  <2>2. attached /\ WillCall(seat)
    BY <1>t, <1>0, <2>1 DEF RosterInv, RollFollows
  <2>3. WillCall(seat)'
    BY <1>t, <1>0, <1>2, <2>2, CallPushed
  <2> QED BY <1>0, <1>3, <2>1, <2>2, <2>3
<1>6. StatusFollows'
  <2> SUFFICES ASSUME watched'
               PROVE  /\ attached' /\ \A e \in Roll : WillWatch(e)'
                      /\ \A v \in Works : works'[v] # Spare => works'[v].alone /\ ~works'[v].replaced
    BY DEF StatusFollows, Spare
  <2>1. watched /\ works[w].alone /\ \A v \in Works : v # w => works[v] = Spare
    BY <1>0, OnlyWork
  <2>2. attached /\ ~works[w].replaced /\ \A e \in Roll : e # d => WillWatch(e)
    BY <1>t, <1>0, <2>1 DEF RosterInv, StatusFollows
  <2>3. ASSUME NEW e \in Roll PROVE WillWatch(e)'
    <3>1. CASE e = d
      BY <1>t, <1>0, <1>1, <1>2, <2>2, <3>1, WatchPushed
    <3>2. CASE e # d
      BY <1>t, <1>0, <1>2, <2>2, <3>2, WatchPushed
    <3> QED BY <3>1, <3>2
  <2> QED BY <1>0, <1>3, <2>1, <2>2, <2>3
<1> QED BY <1>0, <1>2, <1>4, <1>5, <1>6 DEF RosterInv, Unattended

LEMMA ReadRollStep ==
  ASSUME RosterInv, NEW w \in Works, ReadRoll(w)
  PROVE  RosterInv'
<1>t. RosterTypes /\ Spare.at = "idle"
  BY DEF RosterInv, Spare
<1>0. /\ works[w].at = "read" /\ works[w] # Spare
      /\ works' = [works EXCEPT ![w].at = "send", ![w].rows = seat]
      /\ UNCHANGED <<seat, record, signedIn, attached, mail, roll, status, called, watched>>
  BY <1>t DEF ReadRoll, window, flags
<1>1. /\ works' \in [Works -> Work]
      /\ works'[w].at = "send" /\ works'[w].rows = seat /\ works'[w] # Spare
      /\ works'[w].alone = works[w].alone /\ works'[w].replaced = works[w].replaced
      /\ \A v \in Works : v # w => works'[v] = works[v]
  BY <1>t, <1>0, RollReadFacts
<1>2. RosterTypes' /\ AloneOnRoll'
  BY <1>t, <1>0, <1>1, WorkKeeps DEF RosterTypes
<1>3. RollFollows'
  <2> SUFFICES ASSUME called'
               PROVE  attached' /\ \A v \in Works : works'[v] # Spare => works'[v].alone
    BY <1>1 DEF RollFollows, Spare
  <2>1. called /\ works[w].alone /\ \A v \in Works : v # w => works[v] = Spare
    BY <1>0, OnlyWork
  <2> QED BY <1>0, <1>1, <2>1 DEF RosterInv, RollFollows
<1>4. StatusFollows'
  <2> SUFFICES ASSUME watched'
               PROVE  /\ attached' /\ \A e \in Roll : WillWatch(e)'
                      /\ \A v \in Works : works'[v] # Spare => works'[v].alone /\ ~works'[v].replaced
    BY DEF StatusFollows, Spare
  <2>1. watched /\ works[w].alone /\ \A v \in Works : v # w => works[v] = Spare
    BY <1>0, OnlyWork
  <2>2. attached /\ ~works[w].replaced /\ \A e \in Roll : WillWatch(e)
    BY <1>t, <1>0, <2>1 DEF RosterInv, StatusFollows
  <2>3. \A e \in Roll : WillWatch(e)'
    BY <1>0, <2>2 DEF WillWatch
  <2> QED BY <1>0, <1>1, <2>1, <2>2, <2>3
<1> QED BY <1>0, <1>2, <1>3, <1>4 DEF RosterInv, Unattended

LEMMA SendRollStep ==
  ASSUME RosterInv, NEW w \in Works, SendRoll(w)
  PROVE  RosterInv'
<1>t. RosterTypes /\ works[w] \in Work /\ Spare.at = "idle" /\ Spare \in Work
  BY DEF RosterInv, RosterTypes, Spare, Work
<1>0. /\ works[w].at = "send" /\ works[w] # Spare
      /\ Mail(<<[t |-> "committee_state", rows |-> works[w].rows]>>)
      /\ works' = [works EXCEPT ![w] = Spare]
      /\ UNCHANGED <<seat, record, signedIn, attached, roll, status, watched>>
  BY <1>t DEF SendRoll, window
<1>1. called' => attached /\ (called \/ works[w].alone)
  BY Zenon DEF SendRoll
<1>2. /\ works' \in [Works -> Work] /\ works'[w] = Spare
      /\ \A v \in Works : v # w => works'[v] = works[v]
  BY <1>t, <1>0 DEF RosterTypes
<1>3. PICK m \in Messages : m = [t |-> "committee_state", rows |-> works[w].rows]
  BY <1>t DEF Messages, Work
<1>4. /\ m.t = "committee_state" /\ m.rows = works[w].rows /\ \A e \in Roll : ~About(m, e)
  BY <1>3 DEF About
<1>5. /\ mail' \in Seq(Messages)
      /\ attached => mail' = Append(mail, m)
      /\ ~attached => mail' = mail
  BY <1>t, <1>0, <1>3, MailFacts
<1>6. RosterTypes' /\ AloneOnRoll'
  BY <1>t, <1>0, <1>2, <1>5, WorkKeeps DEF RosterTypes
<1>7. RollFollows'
  <2> SUFFICES ASSUME called'
               PROVE  /\ attached' /\ WillCall(seat)'
                      /\ \A v \in Works : works'[v] = Spare
    BY DEF RollFollows, Spare
  <2>1. works[w].alone
    BY <1>0, <1>1 DEF RosterInv, RollFollows
  <2>2. works[w].rows = seat /\ \A v \in Works : v # w => works[v] = Spare
    BY <1>0, <2>1 DEF RosterInv, AloneOnRoll
  <2>3. WillCall(seat)'
    BY <1>t, <1>0, <1>1, <1>4, <1>5, <2>2, CallPushed
  <2> QED BY <1>0, <1>1, <1>2, <2>2, <2>3
<1>8. StatusFollows'
  <2> SUFFICES ASSUME watched'
               PROVE  /\ attached' /\ \A e \in Roll : WillWatch(e)'
                      /\ \A v \in Works : works'[v] = Spare
    BY DEF StatusFollows, Spare
  <2>1. watched /\ \A v \in Works : v # w => works[v] = Spare
    BY <1>0, OnlyWork
  <2>2. attached /\ \A e \in Roll : WillWatch(e)
    BY <1>t, <1>0, <2>1 DEF RosterInv, StatusFollows
  <2>3. \A e \in Roll : WillWatch(e)'
    BY <1>t, <1>0, <1>4, <1>5, <2>2, WatchPushed
  <2> QED BY <1>0, <1>2, <2>1, <2>2, <2>3
<1> QED BY <1>0, <1>5, <1>6, <1>7, <1>8 DEF RosterInv, Unattended

(***************************************************************************)
(* Steps of a delegate's socket, of the window and of its connection.      *)
(***************************************************************************)

LEMMA DelegateBeatStep ==
  ASSUME RosterInv, NEW d \in Roll, DelegateBeat(d)
  PROVE  RosterInv'
<1>t. RosterTypes
  BY DEF RosterInv
<1>0. /\ Mail(StatusOf(d, "connected")) /\ record' = [record EXCEPT ![d] = "connected"]
      /\ UNCHANGED <<seat, works, signedIn, attached, roll, status, called, watched>>
  BY DEF DelegateBeat, window, flags
<1>1. /\ record' \in [Roll -> Connection \union {None}] /\ record'[d] = "connected"
      /\ \A e \in Roll : record[e] \in Connection => record'[e] \in Connection
      /\ \A e \in Roll : e # d => record'[e] = record[e]
      /\ "connected" \in Connection
  BY <1>t, <1>0 DEF RosterTypes, Connection
<1>2. PICK m \in Messages : /\ About(m, d) /\ m.connection = "connected" /\ m.t # "committee_state"
                            /\ mail' \in Seq(Messages)
                            /\ attached => mail' = Append(mail, m)
                            /\ ~attached => mail' = mail
                            /\ \A e \in Roll : e # d => ~About(m, e)
  BY <1>t, <1>0, <1>1, ConnectedMailed
<1>3. RosterTypes'
  BY <1>t, <1>0, <1>1, <1>2 DEF RosterTypes, Spare
<1>4. AloneOnRoll'
  BY <1>0 DEF RosterInv, AloneOnRoll, Spare
<1>5. RollFollows'
  <2>1. ASSUME attached, WillCall(seat) PROVE WillCall(seat)'
    BY <1>t, <1>0, <1>2, <2>1, CallPushed
  <2> QED BY <1>0, <2>1 DEF RosterInv, RollFollows, Spare
<1>6. StatusFollows'
  <2>1. ASSUME attached, NEW e \in Roll, WillWatch(e) PROVE WillWatch(e)'
    <3>1. CASE e = d
      BY <1>t, <1>0, <1>1, <1>2, <2>1, <3>1, WatchPushed
    <3>2. CASE e # d
      BY <1>t, <1>0, <1>1, <1>2, <2>1, <3>2, WatchPushed
    <3> QED BY <3>1, <3>2
  <2> QED BY <1>0, <2>1 DEF RosterInv, StatusFollows, Spare
<1> QED BY <1>0, <1>2, <1>3, <1>4, <1>5, <1>6 DEF RosterInv, Unattended

LEMMA ReadMailStep ==
  ASSUME RosterInv, ReadMail
  PROVE  RosterInv'
<1> DEFINE m == Head(mail)
<1>t. RosterTypes
  BY DEF RosterInv
<1>0. /\ mail # <<>> /\ mail' = Tail(mail)
      /\ m.t = "committee_state" => roll' = m.rows /\ status' = status
      /\ m.t # "committee_state" => status' = [status EXCEPT ![m.who] = m.connection] /\ roll' = roll
      /\ UNCHANGED <<seat, record, works, signedIn, attached, called, watched>>
  BY DEF ReadMail, flags
<1>1. m \in Messages /\ mail' \in Seq(Messages)
  <2>1. mail \in Seq(Messages)
    BY <1>t DEF RosterTypes
  <2> HIDE DEF Messages
  <2> QED BY <1>0, <2>1
<1>2. m.t # "committee_state" =>
        m.t = "delegate_status" /\ m.who \in Roll /\ m.connection \in Connection
  BY <1>1 DEF Messages
<1>3. status' \in [Roll -> Connection \union {None}]
  BY <1>t, <1>0, <1>2 DEF RosterTypes
<1>4. RosterTypes'
  BY <1>t, <1>0, <1>1, <1>3 DEF RosterTypes, Spare
<1>5. AloneOnRoll'
  BY <1>0 DEF RosterInv, AloneOnRoll, Spare
<1>6. RollFollows'
  <2>1. ASSUME WillCall(seat) PROVE WillCall(seat)'
    BY <1>t, <1>0, <2>1, CallRead
  <2> QED BY <1>0, <2>1 DEF RosterInv, RollFollows, Spare
<1>7. StatusFollows'
  <2>1. ASSUME NEW d \in Roll, WillWatch(d) PROVE WillWatch(d)'
    <3>1. status'[d] = IF About(m, d) THEN m.connection ELSE status[d]
      <4>1. CASE m.t = "committee_state"
        BY <1>0, <4>1 DEF About
      <4>2. CASE m.t # "committee_state"
        BY <1>t, <1>0, <1>2, <4>2 DEF About, RosterTypes
      <4> QED BY <4>1, <4>2
    <3> QED BY <1>t, <1>0, <2>1, <3>1, WatchRead
  <2> QED BY <1>0, <2>1 DEF RosterInv, StatusFollows, Spare
<1>8. Unattended'
  <2>1. attached /\ signedIn
    BY <1>0 DEF RosterInv, Unattended
  <2> QED BY <1>0, <2>1 DEF Unattended
<1> QED BY <1>4, <1>5, <1>6, <1>7, <1>8 DEF RosterInv

LEMMA ChairGoneStep ==
  ASSUME RosterInv, Detach \/ ChairLeaves
  PROVE  RosterInv'
<1>t. RosterTypes /\ <<>> \in Seq(Messages)
  BY DEF RosterInv
<1>0. /\ ~attached' /\ mail' = <<>> /\ ~called' /\ ~watched'
      /\ UNCHANGED <<seat, record, works>>
      /\ \/ signedIn' = signedIn /\ status' = status
         \/ status' = [d \in Roll |-> None]
  BY DEF Detach, ChairLeaves, window
<1>1. RosterTypes'
  <2>1. status' \in [Roll -> Connection \union {None}]
    BY <1>t, <1>0 DEF RosterTypes
  <2> QED BY <1>t, <1>0, <2>1 DEF RosterTypes, Spare
<1>2. AloneOnRoll'
  BY <1>0 DEF RosterInv, AloneOnRoll, Spare
<1> QED BY <1>0, <1>1, <1>2 DEF RosterInv, RollFollows, StatusFollows, Unattended

LEMMA RosterStep == RosterInv /\ (RosterNext \/ UNCHANGED rosterVars) => RosterInv'
<1> SUFFICES ASSUME RosterInv, RosterNext \/ UNCHANGED rosterVars PROVE RosterInv'
  OBVIOUS
<1>1. CASE UNCHANGED rosterVars
  <2>1. UNCHANGED <<seat, record, works, signedIn, attached, mail, roll, status, called, watched>>
    BY <1>1 DEF rosterVars, window, flags
  <2>2. RosterTypes' /\ AloneOnRoll' /\ Unattended'
    BY <2>1 DEF RosterInv, RosterTypes, AloneOnRoll, Unattended, Spare
  <2>3. WillCall(seat) => WillCall(seat)'
    BY <2>1 DEF WillCall
  <2>4. \A d \in Roll : WillWatch(d) => WillWatch(d)'
    BY <2>1 DEF WillWatch
  <2>5. RollFollows'
    BY <2>1, <2>3 DEF RosterInv, RollFollows, Spare
  <2>6. StatusFollows'
    BY <2>1, <2>4 DEF RosterInv, StatusFollows, Spare
  <2> QED BY <2>2, <2>5, <2>6 DEF RosterInv
<1>2. CASE RosterNext
  BY <1>2, ChairRequests, DelegateHelloStep, AttachStep, MarkStep, TellStep, ReadRollStep,
     SendRollStep, DelegateBeatStep, ReadMailStep, ChairGoneStep DEF RosterNext
<1> QED BY <1>1, <1>2

\* When nothing is on the way and no two requests have overlapped, the chair's
\* roll call shows attendance and enabled as the rows have them, and to a chair
\* who has kept the socket a connection as the record in memory has it, for any
\* number of delegates, requests and messages on the way.  It is the second
\* part of WindowsHonest.
THEOREM RollAlwaysHonest == Spec => []RollHonest
<1>1. Init => RosterInv
  BY RosterStart DEF Init
<1>2. RosterInv /\ [Next]_vars => RosterInv'
  <2>1. [Next]_vars => RosterNext \/ UNCHANGED rosterVars
    BY DEF Next, vars
  <2> QED BY <2>1, RosterStep
<1>3. RosterInv => RollHonest
  <2> SUFFICES ASSUME RosterInv, Still PROVE RollHonest
    BY DEF RollHonest
  <2>1. \A w \in Works : works[w].at = "idle"
    BY DEF Still, InHand, Spare
  <2>2. mail = <<>>
    BY DEF Still
  <2>3. ASSUME called PROVE roll = seat
    <3>1. WillCall(seat)
      BY <2>1, <2>3 DEF RosterInv, RollFollows
    <3> QED BY <2>2, <3>1 DEF WillCall
  <2>4. ASSUME watched, NEW d \in Roll, status[d] # None PROVE status[d] = record[d]
    <3>1. WillWatch(d)
      BY <2>1, <2>4 DEF RosterInv, StatusFollows
    <3> QED BY <2>2, <2>4, <3>1 DEF WillWatch
  <2> QED BY <2>3, <2>4 DEF RollHonest
<1> QED BY <1>1, <1>2, <1>3, PTL DEF Spec

-----------------------------------------------------------------------------
\* The windows of the chair and of the admin.

\* What the chair's board and roll call and the admin's slate show is what the
\* server holds, when nothing has overlapped, for every value of the constants.
THEOREM WindowsAlwaysHonest == Spec => []WindowsHonest
<1>1. BoardHonest /\ RollHonest /\ SlateHonest => WindowsHonest
  BY DEF WindowsHonest
<1> QED BY <1>1, BoardAlwaysHonest, RollAlwaysHonest, SlateAlwaysHonest, PTL
=============================================================================
