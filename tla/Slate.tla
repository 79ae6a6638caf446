--------------------------------- MODULE Slate ---------------------------------
(***************************************************************************)
(* The committees tab of an admin's window (Admin.tsx CommitteesTab):      *)
(* the admin selects a committee, and adds countries to its slate and      *)
(* removes them.  Nothing is pushed to the tab: it fetches the slate when  *)
(* a committee is selected, and again after each change that it asked for. *)
(*                                                                         *)
(* No request waits for another, and an answer is shown without asking     *)
(* whether the committee it is about is still the one selected.  A request *)
(* is carried out by the server in one step, between its click and its     *)
(* answer.                                                                 *)
(*                                                                         *)
(* An operator that nothing uses is a faulty variant of the one after it.  *)
(***************************************************************************)
EXTENDS Naturals, FiniteSets

CONSTANTS
  Committees,  \* the committees
  Countries,   \* the countries that may be added
  Calls,       \* requests of the tab under way at one time (a bound)
  NoCommittee  \* none is selected

ASSUME SlateConstants == NoCommittee \notin Committees

VARIABLES
  slate,       \* delegates: the delegations of each committee
  selected,    \* CommitteesTab: selectedId
  shownSlate,  \*                delegations
  calls,       \* the requests under way
  current      \* whether what is shown was fetched with no other request under
               \* way, and nothing else has changed the slates since

slateVars == <<slate, selected, shownSlate, calls, current>>

NoCall == [op |-> "none", committee |-> NoCommittee, slots |-> {}, at |-> "idle",
           read |-> {}, alone |-> TRUE]

SlateInit ==
  /\ slate = [c \in Committees |-> {}]
  /\ selected = NoCommittee /\ shownSlate = {}
  /\ calls = [j \in Calls |-> NoCall]
  /\ current = FALSE

Open == {j \in Calls : calls[j] # NoCall}

\* The tab: a country can be added to the committee that is selected, and each
\* delegation that is listed has a button to remove it.
CanAdd == selected # NoCommittee
Removable(k) == selected # NoCommittee /\ k \in shownSlate

\* A request goes on as another, or as far as its answer.
Become(j, op, at, read) ==
  calls' = [calls EXCEPT ![j] = [op |-> op, committee |-> @.committee, slots |-> @.slots,
                                 at |-> at, read |-> read, alone |-> @.alone]]

Alone(j, alone) ==
  [op |-> calls[j].op, committee |-> calls[j].committee, slots |-> calls[j].slots,
   at |-> calls[j].at, read |-> calls[j].read, alone |-> alone]

\* The tab sends a request.
Ask(j, op, c, ks) ==
  /\ calls[j] = NoCall
  /\ calls' = [i \in Calls |->
       IF i = j THEN [op |-> op, committee |-> c, slots |-> ks, at |-> "server",
                      read |-> {}, alone |-> Open = {}]
       ELSE Alone(i, i \notin Open)]
  /\ current' = FALSE

\* selectCommittee: the committee is selected and its slate asked for.
SelectCommittee(j, c) ==
  /\ Ask(j, "get", c, {})
  /\ selected' = c
  /\ UNCHANGED <<slate, shownSlate>>

AddCountry(j, k) ==
  /\ CanAdd
  /\ Ask(j, "add", selected, {<<selected, k>>})
  /\ UNCHANGED <<slate, selected, shownSlate>>

\* The delegation is named by its own id; it may be another committee's.
RemoveCountry(j, k) ==
  /\ Removable(k)
  /\ Ask(j, "remove", selected, {k})
  /\ UNCHANGED <<slate, selected, shownSlate>>

\* addDelegation, which refuses a country that is there; removeDelegation;
\* listCommitteeDelegates.
Serve(j) ==
  /\ calls[j].at = "server"
  /\ LET c == calls[j].committee  ks == calls[j].slots IN
     /\ slate' = CASE calls[j].op = "add" -> [slate EXCEPT ![c] = @ \union ks]
                   [] calls[j].op = "remove" -> [d \in Committees |-> slate[d] \ ks]
                   [] OTHER -> slate
     /\ Become(j, calls[j].op, "answer", slate[c])
  /\ UNCHANGED <<selected, shownSlate, current>>

\* The answer to an addition or a removal, if the tab left it at that.
AnswerIgnored(j) ==
  /\ calls[j].at = "answer" /\ calls[j].op # "get"
  /\ calls' = [calls EXCEPT ![j] = NoCall]
  /\ current' = calls[j].alone
  /\ UNCHANGED <<slate, selected, shownSlate>>

\* An addition or a removal is answered, refused or not: selectCommittee again,
\* of the committee that was selected at the click.
Answered(j) ==
  /\ calls[j].at = "answer" /\ calls[j].op # "get"
  /\ Become(j, "get", "server", {})
  /\ selected' = calls[j].committee
  /\ UNCHANGED <<slate, shownSlate, current>>

\* A slate arrives: setDelegations.
SlateArrives(j) ==
  /\ calls[j].at = "answer" /\ calls[j].op = "get"
  /\ shownSlate' = calls[j].read
  /\ calls' = [calls EXCEPT ![j] = NoCall]
  /\ current' = calls[j].alone
  /\ UNCHANGED <<slate, selected>>

\* A request for a slate fails, and the last slate stays.
SlateFails(j) ==
  /\ calls[j].op = "get"
  /\ calls' = [calls EXCEPT ![j] = NoCall]
  /\ UNCHANGED <<slate, selected, shownSlate, current>>

\* Another admin adds or removes a country.
AnotherAdmin(c, k) ==
  /\ slate' = [slate EXCEPT ![c] = (@ \ {<<c, k>>}) \union ({<<c, k>>} \ @)]
  /\ calls' = [j \in Calls |-> Alone(j, j \notin Open)]
  /\ current' = FALSE
  /\ UNCHANGED <<selected, shownSlate>>

SlateNext ==
  \/ \E j \in Calls :
       \/ \E c \in Committees : SelectCommittee(j, c)
       \/ \E k \in Countries : AddCountry(j, k)
       \/ \E k \in shownSlate : RemoveCountry(j, k)
       \/ Serve(j) \/ Answered(j) \/ SlateArrives(j) \/ SlateFails(j)
  \/ \E c \in Committees, k \in Countries : AnotherAdmin(c, k)

-----------------------------------------------------------------------------
\* Properties.

SlateTypeOK ==
  /\ \A c \in Committees : slate[c] \subseteq {c} \X Countries
  /\ selected \in Committees \union {NoCommittee}
  /\ shownSlate \subseteq Committees \X Countries

\* An admin who makes one request at a time, and has no other admin beside
\* them, sees the slate of the committee that is selected (Admin.tsx
\* selectCommittee, addCountry and removeCountry).
SlateHonest == current /\ Open = {} => shownSlate = slate[selected]
=============================================================================
