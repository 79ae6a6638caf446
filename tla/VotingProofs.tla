---------------------------- MODULE VotingProofs ----------------------------
(***************************************************************************)
(* Proofs about Voting for any finite set of delegates and any sets of     *)
(* requests: the types and the row lock, the counter of submitted votes,   *)
(* the implementation of VoteLedger, what the reveal gate achieves, and    *)
(* what the audit log, the receipts and the shown results are worth.       *)
(*                                                                         *)
(* The counter is not inductive by itself: a cast adds one to the count it *)
(* read when it took the lock.  Inv adds what each transaction knows of    *)
(* the row it has locked (LockedRows), that a ballot about to be committed *)
(* is the first one of its delegate, and that nobody acts on the vote      *)
(* before it is inserted (BeforeOpen).                                     *)
(***************************************************************************)
EXTENDS Voting, FiniteSetTheorems, TLAPS

\* Before the vote exists nothing about it is known to anyone.
BeforeOpen ==
  /\ pc[Opener] \in {"idle", "checked", "counted"} => vote.status = "absent"
  /\ pc[Opener] = "counted" => row[Opener].status = "open" /\ row[Opener].submitted = 0
  /\ vote.status = "absent" =>
       /\ pc[Opener] \notin {"inserted", "read"}
       /\ screen.vote.status = "absent"
       /\ vote.submitted = 0 /\ ballots = {}
       /\ \A o \in Casts \union Closes \union Reveals : pc[o] = "idle"
       /\ \A o \in Changes : row[o].status = "absent"

\* What a transaction knows of the row it holds.
LockedRows ==
  /\ \A c \in Casts :
       /\ pc[c] \in {"locked", "allowed"} => vote.status = "open" /\ row[c] = vote
       /\ pc[c] \in {"inserted", "audited", "sent"} =>
            /\ vote.status = "open"
            /\ row[c].submitted = vote.submitted + 1
            /\ cast[c].delegate \notin Voters
  /\ \A r \in Reveals :
       /\ pc[r] = "locked" => row[r] = vote
       /\ pc[r] \in {"passed", "audited", "sent"} => vote.status \in {"open", "closed"}

\* The counter, the ballots and the delegates that have one agree.
Counting ==
  /\ IsFiniteSet(ballots)
  /\ vote.submitted = Cardinality(ballots)
  /\ vote.submitted = Cardinality(Voters)

Inv == TypeOK /\ BeforeOpen /\ LockedRows /\ Counting

LEMMA EligibleFinite == IsFiniteSet(Eligible) /\ Cardinality(Eligible) \in Nat
<1>1. Eligible \subseteq Delegates
  BY DEF Eligible
<1> QED BY <1>1, VotingConstants, FS_Subset, FS_CardinalityType

(***************************************************************************)
(* The types and the lock.                                                 *)
(***************************************************************************)

LEMMA InitType == Init => TypeOK
<1> SUFFICES ASSUME Init PROVE TypeOK
  OBVIOUS
<1>1. NoVote \in VoteRows
  BY DEF NoVote, VoteRows
<1>2. roster \in [Delegates -> [slot : {"future", "listed", "removed"}, enabled : BOOLEAN,
                                here : BOOLEAN, key : Keys \union {NoKey}]]
  BY DEF Init, Seat
<1>3. \A o \in Casts \union Reveals : lock # o /\ pc[o] = "idle"
  BY VotingConstants DEF Init, Ops
<1> QED BY <1>1, <1>2, <1>3 DEF Init, TypeOK, Ops, Labels, Settled, Holding

\* A step of one request keeps the types; a lock that is taken was free.
LEMMA TypeStep == TypeOK /\ [Next]_vars => TypeOK'
<1> SUFFICES ASSUME TypeOK, [Next]_vars PROVE TypeOK'
  OBVIOUS
<1> USE VotingConstants
    DEF TypeOK, Ops, Labels, Settled, Holding, room, Step, Answer, Move, ReadVote, LockVote,
        Reply, Release, Fail, VoteRows, NoVote
<1>1. CASE RefuseOpen
  BY <1>1 DEF RefuseOpen
<1>2. CASE CheckOpen
  BY <1>2 DEF CheckOpen
<1>3. CASE CountOpen
  BY <1>3, EligibleFinite DEF CountOpen
<1>4. CASE InsertOpen
  BY <1>4 DEF InsertOpen
<1>5. CASE ReadOpen
  BY <1>5 DEF ReadOpen
<1>6. CASE BroadcastOpen
  BY <1>6 DEF BroadcastOpen, ShowState
<1>7. CASE FailOpen
  BY <1>7 DEF FailOpen
<1>8. ASSUME NEW c \in Casts, StartCast(c) PROVE TypeOK'
  BY <1>8 DEF StartCast
<1>9. ASSUME NEW c \in Casts, LockCast(c) PROVE TypeOK'
  BY <1>9 DEF LockCast
<1>10. ASSUME NEW c \in Casts, NotOpen(c) PROVE TypeOK'
  BY <1>10 DEF NotOpen
<1>11. ASSUME NEW c \in Casts, RefuseCast(c) PROVE TypeOK'
  BY <1>11 DEF RefuseCast
<1>12. ASSUME NEW c \in Casts, CheckCast(c) PROVE TypeOK'
  BY <1>12 DEF CheckCast
<1>13. ASSUME NEW c \in Casts, RepeatCast(c) PROVE TypeOK'
  BY <1>13 DEF RepeatCast
<1>14. ASSUME NEW c \in Casts, InsertRejected(c) PROVE TypeOK'
  BY <1>14 DEF InsertRejected
<1>15. ASSUME NEW c \in Casts, InsertBallot(c) PROVE TypeOK'
  BY <1>15 DEF InsertBallot
<1>16. ASSUME NEW c \in Casts, AuditCast(c) PROVE TypeOK'
  BY <1>16 DEF AuditCast, CastAudits
<1>17. ASSUME NEW c \in Casts, BroadcastCast(c) PROVE TypeOK'
  BY <1>17 DEF BroadcastCast, ShowState
<1>18. ASSUME NEW c \in Casts, CommitCast(c) PROVE TypeOK'
  BY <1>18 DEF CommitCast, Ballots
<1>19. ASSUME NEW c \in Casts, FailCast(c) PROVE TypeOK'
  BY <1>19 DEF FailCast
<1>20. ASSUME NEW x \in Closes, StartClose(x) PROVE TypeOK'
  BY <1>20 DEF StartClose
<1>21. ASSUME NEW x \in Closes, CloseRow(x) PROVE TypeOK'
  BY <1>21 DEF CloseRow
<1>22. ASSUME NEW x \in Closes, CloseNothing(x) PROVE TypeOK'
  BY <1>22 DEF CloseNothing
<1>23. ASSUME NEW x \in Closes, BroadcastClose(x) PROVE TypeOK'
  BY <1>23 DEF BroadcastClose, ShowState
<1>24. ASSUME NEW x \in Closes, FailClose(x) PROVE TypeOK'
  BY <1>24 DEF FailClose
<1>25. ASSUME NEW r \in Reveals, StartReveal(r) PROVE TypeOK'
  BY <1>25 DEF StartReveal
<1>26. ASSUME NEW r \in Reveals, LockReveal(r) PROVE TypeOK'
  BY <1>26 DEF LockReveal
<1>27. ASSUME NEW r \in Reveals, RefuseReveal(r) PROVE TypeOK'
  BY <1>27 DEF RefuseReveal
<1>28. ASSUME NEW r \in Reveals, RepeatReveal(r) PROVE TypeOK'
  BY <1>28 DEF RepeatReveal
<1>29. ASSUME NEW r \in Reveals, PassGate(r) PROVE TypeOK'
  BY <1>29 DEF PassGate
<1>30. ASSUME NEW r \in Reveals, AuditReveal(r) PROVE TypeOK'
  BY <1>30 DEF AuditReveal
<1>31. ASSUME NEW r \in Reveals, AnnounceReveal(r) PROVE TypeOK'
  BY <1>31 DEF AnnounceReveal, ShowReveal
<1>32. ASSUME NEW r \in Reveals, CommitReveal(r) PROVE TypeOK'
  BY <1>32 DEF CommitReveal
<1>33. ASSUME NEW r \in Reveals, FailReveal(r) PROVE TypeOK'
  BY <1>33 DEF FailReveal
<1>34. ASSUME NEW x \in Changes, NEW d \in Delegates, SetEnabled(x, d) PROVE TypeOK'
  <2>1. PICK b \in BOOLEAN : SetDelegate(x, d, "changed", [roster[d] EXCEPT !.enabled = b])
    BY <1>34 DEF SetEnabled
  <2>2. [roster[d] EXCEPT !.enabled = b] \in
          [slot : {"future", "listed", "removed"}, enabled : BOOLEAN,
           here : BOOLEAN, key : Keys \union {NoKey}]
    <3>1. roster[d] \in [slot : {"future", "listed", "removed"}, enabled : BOOLEAN,
                         here : BOOLEAN, key : Keys \union {NoKey}]
      OBVIOUS
    <3> QED BY <3>1
  <2> QED BY <2>1, <2>2 DEF SetDelegate
<1>35. ASSUME NEW x \in Changes, NEW d \in Delegates, SetAttendance(x, d) PROVE TypeOK'
  BY <1>35 DEF SetAttendance, SetDelegate
<1>36. ASSUME NEW x \in Changes, NEW d \in Delegates, RegisterKey(x, d) PROVE TypeOK'
  BY <1>36 DEF RegisterKey, SetDelegate
<1>37. ASSUME NEW x \in Changes, NEW d \in Delegates, RemoveDelegation(x, d) PROVE TypeOK'
  BY <1>37 DEF RemoveDelegation, SetDelegate, Seat
<1>38. ASSUME NEW x \in Changes, NEW d \in Delegates, RemovalRestricted(x, d) PROVE TypeOK'
  BY <1>38 DEF RemovalRestricted
<1>39. ASSUME NEW x \in Changes, NEW d \in Delegates, AddDelegation(x, d) PROVE TypeOK'
  BY <1>39 DEF AddDelegation, Seat
<1>40. ASSUME NEW x \in Changes, SetStatus(x) PROVE TypeOK'
  BY <1>40 DEF SetStatus
<1>41. ASSUME NEW x \in Changes, ReadState(x) PROVE TypeOK'
  BY <1>41 DEF ReadState
<1>42. ASSUME NEW x \in Changes, SendState(x) PROVE TypeOK'
  BY <1>42 DEF SendState
<1>43. ASSUME NEW x \in Changes, FailChange(x) PROVE TypeOK'
  BY <1>43 DEF FailChange
<1>44. CASE UNCHANGED vars
  BY <1>44 DEF vars
<1> QED
  BY <1>1, <1>2, <1>3, <1>4, <1>5, <1>6, <1>7, <1>8, <1>9, <1>10, <1>11, <1>12, <1>13, <1>14, <1>15, <1>16, <1>17, <1>18, <1>19, <1>20, <1>21, <1>22, <1>23, <1>24, <1>25, <1>26, <1>27, <1>28, <1>29, <1>30, <1>31, <1>32, <1>33, <1>34, <1>35, <1>36, <1>37, <1>38, <1>39, <1>40, <1>41, <1>42, <1>43, <1>44
     DEF Next, Open, Cast, Close, Reveal, Change

\* The variables stay within their types, and the lock is exclusive.
THEOREM TypeCorrect == Spec => []TypeOK
<1> QED BY InitType, TypeStep, PTL DEF Spec

(***************************************************************************)
(* The inductive invariant.                                                *)
(***************************************************************************)

LEMMA InitInv == Init => Inv
<1> SUFFICES ASSUME Init PROVE Inv
  OBVIOUS
<1>1. TypeOK
  BY InitType
<1>2. BeforeOpen /\ LockedRows
  BY DEF Init, BeforeOpen, LockedRows, Ops, NoVote
<1>3. ballots = {} /\ Voters = {} /\ vote.submitted = 0
  BY DEF Init, Voters, NoVote
<1>4. Counting
  BY <1>3, FS_EmptySet DEF Counting
<1> QED BY <1>1, <1>2, <1>4 DEF Inv

\* Only a request that finds the vote on a screen or in the table acts on it.
LEMMA BeforeStep == TypeOK /\ BeforeOpen /\ LockedRows /\ [Next]_vars => BeforeOpen'
<1> SUFFICES ASSUME TypeOK, BeforeOpen, LockedRows, [Next]_vars PROVE BeforeOpen'
  OBVIOUS
<1> USE VotingConstants
    DEF TypeOK, BeforeOpen, LockedRows, Ops, Labels, Settled, Holding, room, Step, Answer,
        Move, ReadVote, LockVote, Reply, Release, Fail, VoteRows, NoVote
<1>1. CASE RefuseOpen
  BY <1>1 DEF RefuseOpen
<1>2. CASE CheckOpen
  BY <1>2 DEF CheckOpen
<1>3. CASE CountOpen
  BY <1>3 DEF CountOpen
<1>4. CASE InsertOpen
  BY <1>4 DEF InsertOpen
<1>5. CASE ReadOpen
  BY <1>5 DEF ReadOpen
<1>6. CASE BroadcastOpen
  BY <1>6 DEF BroadcastOpen, ShowState
<1>7. CASE FailOpen
  BY <1>7 DEF FailOpen
<1>8. ASSUME NEW c \in Casts, StartCast(c) PROVE BeforeOpen'
  BY <1>8 DEF StartCast
<1>9. ASSUME NEW c \in Casts, LockCast(c) PROVE BeforeOpen'
  BY <1>9 DEF LockCast
<1>10. ASSUME NEW c \in Casts, NotOpen(c) PROVE BeforeOpen'
  BY <1>10 DEF NotOpen
<1>11. ASSUME NEW c \in Casts, RefuseCast(c) PROVE BeforeOpen'
  BY <1>11 DEF RefuseCast
<1>12. ASSUME NEW c \in Casts, CheckCast(c) PROVE BeforeOpen'
  BY <1>12 DEF CheckCast
<1>13. ASSUME NEW c \in Casts, RepeatCast(c) PROVE BeforeOpen'
  BY <1>13 DEF RepeatCast
<1>14. ASSUME NEW c \in Casts, InsertRejected(c) PROVE BeforeOpen'
  BY <1>14 DEF InsertRejected
<1>15. ASSUME NEW c \in Casts, InsertBallot(c) PROVE BeforeOpen'
  BY <1>15 DEF InsertBallot
<1>16. ASSUME NEW c \in Casts, AuditCast(c) PROVE BeforeOpen'
  BY <1>16 DEF AuditCast
<1>17. ASSUME NEW c \in Casts, BroadcastCast(c) PROVE BeforeOpen'
  BY <1>17 DEF BroadcastCast, ShowState
<1>18. ASSUME NEW c \in Casts, CommitCast(c) PROVE BeforeOpen'
  BY <1>18 DEF CommitCast
<1>19. ASSUME NEW c \in Casts, FailCast(c) PROVE BeforeOpen'
  BY <1>19 DEF FailCast
<1>20. ASSUME NEW x \in Closes, StartClose(x) PROVE BeforeOpen'
  BY <1>20 DEF StartClose
<1>21. ASSUME NEW x \in Closes, CloseRow(x) PROVE BeforeOpen'
  BY <1>21 DEF CloseRow
<1>22. ASSUME NEW x \in Closes, CloseNothing(x) PROVE BeforeOpen'
  BY <1>22 DEF CloseNothing
<1>23. ASSUME NEW x \in Closes, BroadcastClose(x) PROVE BeforeOpen'
  BY <1>23 DEF BroadcastClose, ShowState
<1>24. ASSUME NEW x \in Closes, FailClose(x) PROVE BeforeOpen'
  BY <1>24 DEF FailClose
<1>25. ASSUME NEW r \in Reveals, StartReveal(r) PROVE BeforeOpen'
  BY <1>25 DEF StartReveal
<1>26. ASSUME NEW r \in Reveals, LockReveal(r) PROVE BeforeOpen'
  BY <1>26 DEF LockReveal
<1>27. ASSUME NEW r \in Reveals, RefuseReveal(r) PROVE BeforeOpen'
  BY <1>27 DEF RefuseReveal
<1>28. ASSUME NEW r \in Reveals, RepeatReveal(r) PROVE BeforeOpen'
  BY <1>28 DEF RepeatReveal
<1>29. ASSUME NEW r \in Reveals, PassGate(r) PROVE BeforeOpen'
  BY <1>29 DEF PassGate
<1>30. ASSUME NEW r \in Reveals, AuditReveal(r) PROVE BeforeOpen'
  BY <1>30 DEF AuditReveal
<1>31. ASSUME NEW r \in Reveals, AnnounceReveal(r) PROVE BeforeOpen'
  BY <1>31 DEF AnnounceReveal, ShowReveal
<1>32. ASSUME NEW r \in Reveals, CommitReveal(r) PROVE BeforeOpen'
  BY <1>32 DEF CommitReveal
<1>33. ASSUME NEW r \in Reveals, FailReveal(r) PROVE BeforeOpen'
  BY <1>33 DEF FailReveal
<1>34. ASSUME NEW x \in Changes, NEW d \in Delegates, SetEnabled(x, d) PROVE BeforeOpen'
  BY <1>34 DEF SetEnabled, SetDelegate
<1>35. ASSUME NEW x \in Changes, NEW d \in Delegates, SetAttendance(x, d) PROVE BeforeOpen'
  BY <1>35 DEF SetAttendance, SetDelegate
<1>36. ASSUME NEW x \in Changes, NEW d \in Delegates, RegisterKey(x, d) PROVE BeforeOpen'
  BY <1>36 DEF RegisterKey, SetDelegate
<1>37. ASSUME NEW x \in Changes, NEW d \in Delegates, RemoveDelegation(x, d) PROVE BeforeOpen'
  BY <1>37 DEF RemoveDelegation, SetDelegate, Seat
<1>38. ASSUME NEW x \in Changes, NEW d \in Delegates, RemovalRestricted(x, d) PROVE BeforeOpen'
  BY <1>38 DEF RemovalRestricted
<1>39. ASSUME NEW x \in Changes, NEW d \in Delegates, AddDelegation(x, d) PROVE BeforeOpen'
  BY <1>39 DEF AddDelegation, Seat
<1>40. ASSUME NEW x \in Changes, SetStatus(x) PROVE BeforeOpen'
  BY <1>40 DEF SetStatus
<1>41. ASSUME NEW x \in Changes, ReadState(x) PROVE BeforeOpen'
  BY <1>41 DEF ReadState
<1>42. ASSUME NEW x \in Changes, SendState(x) PROVE BeforeOpen'
  BY <1>42 DEF SendState
<1>43. ASSUME NEW x \in Changes, FailChange(x) PROVE BeforeOpen'
  BY <1>43 DEF FailChange
<1>44. CASE UNCHANGED vars
  BY <1>44 DEF vars
<1> QED
  BY <1>1, <1>2, <1>3, <1>4, <1>5, <1>6, <1>7, <1>8, <1>9, <1>10, <1>11, <1>12, <1>13, <1>14, <1>15, <1>16, <1>17, <1>18, <1>19, <1>20, <1>21, <1>22, <1>23, <1>24, <1>25, <1>26, <1>27, <1>28, <1>29, <1>30, <1>31, <1>32, <1>33, <1>34, <1>35, <1>36, <1>37, <1>38, <1>39, <1>40, <1>41, <1>42, <1>43, <1>44
     DEF Next, Open, Cast, Close, Reveal, Change

\* The row of the vote changes only under its lock, or by a close that found
\* it free.
LEMMA LockedStep == TypeOK /\ BeforeOpen /\ LockedRows /\ [Next]_vars => LockedRows'
<1> SUFFICES ASSUME TypeOK, BeforeOpen, LockedRows, [Next]_vars PROVE LockedRows'
  OBVIOUS
<1> USE VotingConstants
    DEF TypeOK, BeforeOpen, LockedRows, Ops, Labels, Settled, Holding, room, Step, Answer,
        Move, ReadVote, LockVote, Reply, Release, Fail, VoteRows, NoVote, Voters
<1>1. CASE RefuseOpen
  BY <1>1 DEF RefuseOpen
<1>2. CASE CheckOpen
  BY <1>2 DEF CheckOpen
<1>3. CASE CountOpen
  BY <1>3 DEF CountOpen
<1>4. CASE InsertOpen
  BY <1>4 DEF InsertOpen
<1>5. CASE ReadOpen
  BY <1>5 DEF ReadOpen
<1>6. CASE BroadcastOpen
  BY <1>6 DEF BroadcastOpen, ShowState
<1>7. CASE FailOpen
  BY <1>7 DEF FailOpen
<1>8. ASSUME NEW c \in Casts, StartCast(c) PROVE LockedRows'
  BY <1>8 DEF StartCast
<1>9. ASSUME NEW c \in Casts, LockCast(c) PROVE LockedRows'
  BY <1>9 DEF LockCast
<1>10. ASSUME NEW c \in Casts, NotOpen(c) PROVE LockedRows'
  BY <1>10 DEF NotOpen
<1>11. ASSUME NEW c \in Casts, RefuseCast(c) PROVE LockedRows'
  BY <1>11 DEF RefuseCast
<1>12. ASSUME NEW c \in Casts, CheckCast(c) PROVE LockedRows'
  BY <1>12 DEF CheckCast
<1>13. ASSUME NEW c \in Casts, RepeatCast(c) PROVE LockedRows'
  BY <1>13 DEF RepeatCast
<1>14. ASSUME NEW c \in Casts, InsertRejected(c) PROVE LockedRows'
  BY <1>14 DEF InsertRejected
<1>15. ASSUME NEW c \in Casts, InsertBallot(c) PROVE LockedRows'
  BY <1>15 DEF InsertBallot
<1>16. ASSUME NEW c \in Casts, AuditCast(c) PROVE LockedRows'
  BY <1>16 DEF AuditCast
<1>17. ASSUME NEW c \in Casts, BroadcastCast(c) PROVE LockedRows'
  BY <1>17 DEF BroadcastCast, ShowState
<1>18. ASSUME NEW c \in Casts, CommitCast(c) PROVE LockedRows'
  BY <1>18 DEF CommitCast
<1>19. ASSUME NEW c \in Casts, FailCast(c) PROVE LockedRows'
  BY <1>19 DEF FailCast
<1>20. ASSUME NEW x \in Closes, StartClose(x) PROVE LockedRows'
  BY <1>20 DEF StartClose
<1>21. ASSUME NEW x \in Closes, CloseRow(x) PROVE LockedRows'
  BY <1>21 DEF CloseRow
<1>22. ASSUME NEW x \in Closes, CloseNothing(x) PROVE LockedRows'
  BY <1>22 DEF CloseNothing
<1>23. ASSUME NEW x \in Closes, BroadcastClose(x) PROVE LockedRows'
  BY <1>23 DEF BroadcastClose, ShowState
<1>24. ASSUME NEW x \in Closes, FailClose(x) PROVE LockedRows'
  BY <1>24 DEF FailClose
<1>25. ASSUME NEW r \in Reveals, StartReveal(r) PROVE LockedRows'
  BY <1>25 DEF StartReveal
<1>26. ASSUME NEW r \in Reveals, LockReveal(r) PROVE LockedRows'
  BY <1>26 DEF LockReveal
<1>27. ASSUME NEW r \in Reveals, RefuseReveal(r) PROVE LockedRows'
  BY <1>27 DEF RefuseReveal
<1>28. ASSUME NEW r \in Reveals, RepeatReveal(r) PROVE LockedRows'
  BY <1>28 DEF RepeatReveal
<1>29. ASSUME NEW r \in Reveals, PassGate(r) PROVE LockedRows'
  BY <1>29 DEF PassGate
<1>30. ASSUME NEW r \in Reveals, AuditReveal(r) PROVE LockedRows'
  BY <1>30 DEF AuditReveal
<1>31. ASSUME NEW r \in Reveals, AnnounceReveal(r) PROVE LockedRows'
  BY <1>31 DEF AnnounceReveal, ShowReveal
<1>32. ASSUME NEW r \in Reveals, CommitReveal(r) PROVE LockedRows'
  BY <1>32 DEF CommitReveal
<1>33. ASSUME NEW r \in Reveals, FailReveal(r) PROVE LockedRows'
  BY <1>33 DEF FailReveal
<1>34. ASSUME NEW x \in Changes, NEW d \in Delegates, SetEnabled(x, d) PROVE LockedRows'
  BY <1>34 DEF SetEnabled, SetDelegate
<1>35. ASSUME NEW x \in Changes, NEW d \in Delegates, SetAttendance(x, d) PROVE LockedRows'
  BY <1>35 DEF SetAttendance, SetDelegate
<1>36. ASSUME NEW x \in Changes, NEW d \in Delegates, RegisterKey(x, d) PROVE LockedRows'
  BY <1>36 DEF RegisterKey, SetDelegate
<1>37. ASSUME NEW x \in Changes, NEW d \in Delegates, RemoveDelegation(x, d) PROVE LockedRows'
  BY <1>37 DEF RemoveDelegation, SetDelegate, Seat
<1>38. ASSUME NEW x \in Changes, NEW d \in Delegates, RemovalRestricted(x, d) PROVE LockedRows'
  BY <1>38 DEF RemovalRestricted
<1>39. ASSUME NEW x \in Changes, NEW d \in Delegates, AddDelegation(x, d) PROVE LockedRows'
  BY <1>39 DEF AddDelegation, Seat
<1>40. ASSUME NEW x \in Changes, SetStatus(x) PROVE LockedRows'
  BY <1>40 DEF SetStatus
<1>41. ASSUME NEW x \in Changes, ReadState(x) PROVE LockedRows'
  BY <1>41 DEF ReadState
<1>42. ASSUME NEW x \in Changes, SendState(x) PROVE LockedRows'
  BY <1>42 DEF SendState
<1>43. ASSUME NEW x \in Changes, FailChange(x) PROVE LockedRows'
  BY <1>43 DEF FailChange
<1>44. CASE UNCHANGED vars
  BY <1>44 DEF vars
<1> QED
  BY <1>1, <1>2, <1>3, <1>4, <1>5, <1>6, <1>7, <1>8, <1>9, <1>10, <1>11, <1>12, <1>13, <1>14, <1>15, <1>16, <1>17, <1>18, <1>19, <1>20, <1>21, <1>22, <1>23, <1>24, <1>25, <1>26, <1>27, <1>28, <1>29, <1>30, <1>31, <1>32, <1>33, <1>34, <1>35, <1>36, <1>37, <1>38, <1>39, <1>40, <1>41, <1>42, <1>43, <1>44
     DEF Next, Open, Cast, Close, Reveal, Change

\* What a commit of a cast does to the ledger.
LEMMA CommitAddsOne ==
  ASSUME Inv, NEW c \in Casts, CommitCast(c)
  PROVE  \E b \in Ballots :
           /\ b.delegate \notin Voters
           /\ ballots' = ballots \union {b}
           /\ vote' = [vote EXCEPT !.submitted = vote.submitted + 1]
           /\ vote.status = "open"
           /\ IsFiniteSet(ballots')
           /\ Cardinality(ballots') = vote.submitted + 1
           /\ Cardinality(Voters') = vote.submitted + 1
<1> DEFINE b == [delegate |-> cast[c].delegate, choice |-> cast[c].choice]
<1>1. b \in Ballots
  BY DEF Inv, TypeOK, Ballots
<1>2. /\ pc[c] = "sent"
      /\ vote' = [vote EXCEPT !.submitted = row[c].submitted]
      /\ ballots' = ballots \union {b}
  BY DEF CommitCast, Answer, Step
<1>3. vote.status = "open" /\ row[c].submitted = vote.submitted + 1 /\ b.delegate \notin Voters
  BY <1>2 DEF Inv, LockedRows
<1> HIDE DEF b
<1>4. b \notin ballots
  BY <1>3 DEF Voters
<1>5. IsFiniteSet(ballots') /\ Cardinality(ballots') = vote.submitted + 1
  BY <1>2, <1>4, FS_AddElement DEF Inv, Counting
<1>6. Voters' = Voters \union {b.delegate}
  BY <1>2 DEF Voters
<1>7. IsFiniteSet(Voters)
  <2>1. Voters \subseteq Delegates
    BY DEF Voters, Ballots, Inv, TypeOK
  <2> QED BY <2>1, VotingConstants, FS_Subset
<1>8. Cardinality(Voters') = vote.submitted + 1
  <2> DEFINE d == b.delegate
  <2>1. d \notin Voters /\ Voters' = Voters \union {d}
    BY <1>3, <1>6
  <2>2. Cardinality(Voters) = vote.submitted
    BY DEF Inv, Counting
  <2> HIDE DEF d
  <2>3. Cardinality(Voters \union {d}) = Cardinality(Voters) + 1
    BY <1>7, <2>1, FS_AddElement
  <2> QED BY <2>1, <2>2, <2>3
<1> QED BY <1>1, <1>2, <1>3, <1>5, <1>8

\* Every other step leaves the ballots and the counter alone, or inserts the
\* vote with none.
LEMMA LedgerSteps ==
  ASSUME Inv, [Next]_vars
  PROVE  \/ \E c \in Casts : CommitCast(c)
         \/ /\ ballots' = ballots
            /\ vote'.submitted = vote.submitted
            /\ \/ vote'.status = vote.status
               \/ vote.status = "absent" /\ vote'.status = "open"
               \/ vote.status = "open" /\ vote'.status = "closed"
               \/ vote.status \in {"open", "closed"} /\ vote'.status = "revealed"
<1> DEFINE G == \/ \E c \in Casts : CommitCast(c)
                \/ /\ ballots' = ballots
                   /\ vote'.submitted = vote.submitted
                   /\ \/ vote'.status = vote.status
                      \/ vote.status = "absent" /\ vote'.status = "open"
                      \/ vote.status = "open" /\ vote'.status = "closed"
                      \/ vote.status \in {"open", "closed"} /\ vote'.status = "revealed"
<1>1. CASE InsertOpen
  BY <1>1 DEF InsertOpen, Step, Inv, BeforeOpen
<1>2. ASSUME NEW x \in Closes, CloseRow(x) PROVE G
  BY <1>2 DEF CloseRow, Inv, TypeOK, VoteRows
<1>3. ASSUME NEW r \in Reveals, CommitReveal(r) PROVE G
  BY <1>3 DEF CommitReveal, Answer, Step, Inv, TypeOK, VoteRows, LockedRows
<1>4. CASE UNCHANGED <<vote, ballots>>
  BY <1>4
<1> USE DEF Move, ReadVote, LockVote, Reply, Release, Fail
<1>5. ASSUME Open PROVE InsertOpen \/ UNCHANGED <<vote, ballots>>
  BY <1>5 DEF Open, RefuseOpen, CheckOpen, CountOpen, ReadOpen, BroadcastOpen, FailOpen
<1>6. ASSUME NEW c \in Casts, Cast(c) PROVE CommitCast(c) \/ UNCHANGED <<vote, ballots>>
  BY <1>6 DEF Cast, StartCast, LockCast, NotOpen, RefuseCast, CheckCast, RepeatCast,
              InsertRejected, InsertBallot, AuditCast, BroadcastCast, FailCast
<1>7. ASSUME NEW x \in Closes, Close(x) PROVE CloseRow(x) \/ UNCHANGED <<vote, ballots>>
  BY <1>7 DEF Close, StartClose, CloseNothing, BroadcastClose, FailClose
<1>8. ASSUME NEW r \in Reveals, Reveal(r) PROVE CommitReveal(r) \/ UNCHANGED <<vote, ballots>>
  BY <1>8 DEF Reveal, StartReveal, LockReveal, RefuseReveal, RepeatReveal, PassGate,
              AuditReveal, AnnounceReveal, FailReveal
<1>9. ASSUME NEW x \in Changes, Change(x) PROVE UNCHANGED <<vote, ballots>>
  BY <1>9 DEF Change, SetEnabled, SetAttendance, RegisterKey, RemoveDelegation, SetDelegate,
              RemovalRestricted, AddDelegation, SetStatus, ReadState, SendState, FailChange
<1> QED BY <1>1, <1>2, <1>3, <1>4, <1>5, <1>6, <1>7, <1>8, <1>9 DEF Next, vars

LEMMA CountingStep == Inv /\ [Next]_vars => Counting'
<1> SUFFICES ASSUME Inv, [Next]_vars PROVE Counting'
  OBVIOUS
<1>1. ASSUME NEW c \in Casts, CommitCast(c) PROVE Counting'
  <2>1. PICK b \in Ballots :
          /\ vote' = [vote EXCEPT !.submitted = vote.submitted + 1]
          /\ IsFiniteSet(ballots')
          /\ Cardinality(ballots') = vote.submitted + 1
          /\ Cardinality(Voters') = vote.submitted + 1
    BY <1>1, CommitAddsOne
  <2>2. vote'.submitted = vote.submitted + 1
    BY <2>1 DEF Inv, TypeOK, VoteRows
  <2> QED BY <2>1, <2>2 DEF Counting
<1>2. CASE ballots' = ballots /\ vote'.submitted = vote.submitted
  BY <1>2 DEF Inv, Counting, Voters
<1> QED BY <1>1, <1>2, LedgerSteps

LEMMA InvStep == Inv /\ [Next]_vars => Inv'
<1> QED BY TypeStep, BeforeStep, LockedStep, CountingStep DEF Inv

THEOREM InvHolds == Spec => []Inv
<1> QED BY InitInv, InvStep, PTL DEF Spec

(***************************************************************************)
(* What follows.                                                           *)
(***************************************************************************)

\* The announced counter is the number of ballots.
THEOREM CountAlwaysMatches == Spec => []CountMatches
<1>1. Inv => CountMatches
  BY DEF Inv, Counting, CountMatches
<1> QED BY <1>1, InvHolds, PTL

\* The handlers implement the abstract ledger.
THEOREM ServiceImplementsLedger == Spec => LedgerSpec
<1>1. Init => Ledger!Init
  BY DEF Init, Ledger!Init, NoVote
<1>2. Inv /\ [Next]_vars => [Ledger!Next]_(Ledger!vars)
  <2> SUFFICES ASSUME Inv, [Next]_vars PROVE [Ledger!Next]_(Ledger!vars)
    OBVIOUS
  <2>1. ASSUME NEW c \in Casts, CommitCast(c) PROVE Ledger!Next
    <3>1. PICK b \in Ballots :
            /\ b.delegate \notin Voters
            /\ ballots' = ballots \union {b}
            /\ vote' = [vote EXCEPT !.submitted = vote.submitted + 1]
            /\ vote.status = "open"
            /\ Cardinality(ballots') = vote.submitted + 1
      BY <2>1, CommitAddsOne
    <3>2. vote'.submitted = vote.submitted + 1 /\ vote'.status = vote.status
      BY <3>1 DEF Inv, TypeOK, VoteRows
    <3>3. \A e \in ballots : e.delegate # b.delegate
      BY <3>1 DEF Voters
    <3>4. Ledger!Cast(b)
      BY <3>1, <3>2, <3>3 DEF Ledger!Cast
    <3> QED BY <3>4 DEF Ledger!Next, Ledger!Ballots, Ballots
  <2> QED BY <2>1, LedgerSteps
          DEF Ledger!Next, Ledger!vars, Ledger!Open, Ledger!Close, Ledger!Reveal
<1> QED BY <1>1, <1>2, InvHolds, PTL DEF Spec, LedgerSpec, Ledger!Spec

\* No delegate has two ballots, whatever two requests of one delegate do at the
\* same time: the guard, the audit and the INSERT run under the vote's row lock.
OneEach == \A a, b \in ballots : a.delegate = b.delegate => a = b

THEOREM OneBallotEach == Spec => []OneEach
<1>1. Init => OneEach
  BY DEF Init, OneEach
<1>2. Inv /\ OneEach /\ [Next]_vars => OneEach'
  <2> SUFFICES ASSUME Inv, OneEach, [Next]_vars PROVE OneEach'
    OBVIOUS
  <2>1. ASSUME NEW c \in Casts, CommitCast(c) PROVE OneEach'
    <3>1. PICK b \in Ballots : b.delegate \notin Voters /\ ballots' = ballots \union {b}
      BY <2>1, CommitAddsOne
    <3>2. \A a \in ballots : a.delegate # b.delegate
      BY <3>1 DEF Voters
    <3> QED BY <3>1, <3>2 DEF OneEach
  <2>2. CASE ballots' = ballots
    BY <2>2 DEF OneEach
  <2> QED BY <2>1, <2>2, LedgerSteps
<1> QED BY <1>1, <1>2, InvHolds, PTL DEF Spec

\* A ballot is never changed or taken away, and no ballot is added while the
\* vote is not open: a cast that found the vote open holds the row against the
\* close and the reveal until its COMMIT.
FrozenStep == ballots \subseteq ballots' /\ (vote.status # "open" => ballots' = ballots)

THEOREM BallotsFrozen == Spec => [][FrozenStep]_vars
<1>1. Inv /\ [Next]_vars => FrozenStep
  <2> SUFFICES ASSUME Inv, [Next]_vars PROVE FrozenStep
    OBVIOUS
  <2>1. ASSUME NEW c \in Casts, CommitCast(c) PROVE FrozenStep
    BY <2>1, CommitAddsOne DEF FrozenStep
  <2>2. CASE ballots' = ballots
    BY <2>2 DEF FrozenStep
  <2> QED BY <2>1, <2>2, LedgerSteps
<1> QED BY <1>1, InvHolds, PTL DEF Spec

\* The gate compares numbers; they tell who has voted as long as every
\* delegate with a ballot may still vote.
THEOREM GateIsSound == Spec => GateSound
<1>1. ASSUME Inv, NEW r \in Reveals, PassGate(r), Voters \subseteq Eligible
      PROVE  Eligible \subseteq Voters
  <2>1. row[r].submitted = vote.submitted
    BY <1>1 DEF PassGate, Step, Inv, LockedRows
  <2>2. Cardinality(Voters) >= Cardinality(Eligible)
    BY <1>1, <2>1 DEF PassGate, GateOpens, Inv, Counting
  <2>3. Cardinality(Voters) <= Cardinality(Eligible) /\ Cardinality(Voters) \in Nat
    BY <1>1, EligibleFinite, FS_Subset, FS_CardinalityType
  <2>4. Cardinality(Voters) = Cardinality(Eligible)
    BY <2>2, <2>3, EligibleFinite
  <2> QED BY <1>1, <2>4, EligibleFinite, FS_Subset
<1>2. Inv => \A r \in Reveals :
        PassGate(r) /\ Voters \subseteq Eligible => Eligible \subseteq Voters
  BY <1>1
<1> QED BY <1>2, InvHolds, PTL DEF GateSound
(***************************************************************************)
(* The audit log, the receipts and the shown result.                       *)
(*                                                                         *)
(* An audit entry is written before the ballot or the reveal it is for, so *)
(* each transaction that is past its entry has it (Trail); a ballot stays, *)
(* so a receipt stays true (Receipts); a cast withdraws a shown result     *)
(* before it adds the ballot the result lacks (Results); and the insert of *)
(* a delegate who could vote fails only once the delegation is gone for    *)
(* good (Accepted).                                                        *)
(***************************************************************************)

\* Who is past its audit entry, and what is committed or shown, has the entry.
Trail ==
  /\ \A c \in Casts : pc[c] \in {"audited", "sent"} => CastAudits(cast[c].delegate) \in audited
  /\ \A r \in Reveals : pc[r] \in {"audited", "sent"} => RevealAudit \in audited
  /\ \A b \in ballots : CastAudits(b.delegate) \in audited
  /\ vote.status = "revealed" \/ screen.tally # NoTally => RevealAudit \in audited

\* Whoever holds a receipt is in the ledger with the choice it states.
Receipts ==
  \A c \in Casts : pc[c] = "recorded" =>
    [delegate |-> cast[c].delegate, choice |-> cast[c].choice] \in ballots

\* A result a client holds is that of the ballots, and it holds none when a
\* ballot is about to be committed.
Results ==
  /\ screen.tally # NoTally => screen.tally = ballots
  /\ \A c \in Casts : pc[c] = "sent" => screen.tally = NoTally

\* A cast that was let through is of a delegate of the roster, or of one that
\* was removed since; a removed delegate does not come back.
Accepted ==
  /\ \A c \in Casts : pc[c] \in {"allowed", "inserted", "audited", "sent"} =>
       roster[cast[c].delegate].slot \in {"listed", "removed"}
  /\ \A c \in Casts : pc[c] \in {"recorded", "duplicate"} =>
       \/ \E b \in ballots : b.delegate = cast[c].delegate
       \/ roster[cast[c].delegate].slot = "removed"

\* What the handlers' answers and broadcasts can be held to.
Evidence == Trail /\ Receipts /\ Results /\ Accepted

\* At first there is nothing to have evidence of.
LEMMA InitEvidence == Init => Evidence
<1> SUFFICES ASSUME Init PROVE Evidence
  OBVIOUS
<1> USE DEF Init, NoVote, Ops
<1>1. Trail
  BY DEF Trail
<1>2. Receipts /\ Results /\ Accepted
  BY DEF Receipts, Results, Accepted
<1> QED BY <1>1, <1>2 DEF Evidence

\* A step writes the entry before the ballot, and withdraws the result before it.
LEMMA EvidenceStep == Inv /\ Evidence /\ [Next]_vars => Evidence'
<1> SUFFICES ASSUME TypeOK, BeforeOpen, LockedRows, Evidence, [Next]_vars PROVE Evidence'
  BY DEF Inv
<1> USE VotingConstants
    DEF TypeOK, LockedRows, Evidence, Trail, Receipts, Results, Accepted, Ops, Labels, Settled,
        Holding, room, Step, Answer, Move, ReadVote, LockVote, Reply, Release, Fail, VoteRows,
        NoVote
<1>1. CASE RefuseOpen
  BY <1>1 DEF RefuseOpen
<1>2. CASE CheckOpen
  BY <1>2 DEF CheckOpen
<1>3. CASE CountOpen
  BY <1>3 DEF CountOpen
<1>4. CASE InsertOpen
  BY <1>4 DEF InsertOpen, BeforeOpen
<1>5. CASE ReadOpen
  BY <1>5 DEF ReadOpen
<1>6. CASE BroadcastOpen
  BY <1>6 DEF BroadcastOpen, ShowState
<1>7. CASE FailOpen
  BY <1>7 DEF FailOpen
<1>8. ASSUME NEW c \in Casts, StartCast(c) PROVE Evidence'
  BY <1>8 DEF StartCast
<1>9. ASSUME NEW c \in Casts, LockCast(c) PROVE Evidence'
  BY <1>9 DEF LockCast
<1>10. ASSUME NEW c \in Casts, NotOpen(c) PROVE Evidence'
  BY <1>10 DEF NotOpen
<1>11. ASSUME NEW c \in Casts, RefuseCast(c) PROVE Evidence'
  BY <1>11 DEF RefuseCast
<1>12. ASSUME NEW c \in Casts, CheckCast(c) PROVE Evidence'
  BY <1>12 DEF CheckCast, MayVote, Eligible
<1>13. ASSUME NEW c \in Casts, RepeatCast(c) PROVE Evidence'
  BY <1>13 DEF RepeatCast, Voters
<1>14. ASSUME NEW c \in Casts, InsertRejected(c) PROVE Evidence'
  BY <1>14 DEF InsertRejected
<1>15. ASSUME NEW c \in Casts, InsertBallot(c) PROVE Evidence'
  BY <1>15 DEF InsertBallot
<1>16. ASSUME NEW c \in Casts, AuditCast(c) PROVE Evidence'
  BY <1>16 DEF AuditCast
<1>17. ASSUME NEW c \in Casts, BroadcastCast(c) PROVE Evidence'
  BY <1>17 DEF BroadcastCast, ShowState
<1>18. ASSUME NEW c \in Casts, CommitCast(c) PROVE Evidence'
  BY <1>18 DEF CommitCast
<1>19. ASSUME NEW c \in Casts, FailCast(c) PROVE Evidence'
  BY <1>19 DEF FailCast
<1>20. ASSUME NEW x \in Closes, StartClose(x) PROVE Evidence'
  BY <1>20 DEF StartClose
<1>21. ASSUME NEW x \in Closes, CloseRow(x) PROVE Evidence'
  BY <1>21 DEF CloseRow
<1>22. ASSUME NEW x \in Closes, CloseNothing(x) PROVE Evidence'
  BY <1>22 DEF CloseNothing
<1>23. ASSUME NEW x \in Closes, BroadcastClose(x) PROVE Evidence'
  BY <1>23 DEF BroadcastClose, ShowState
<1>24. ASSUME NEW x \in Closes, FailClose(x) PROVE Evidence'
  BY <1>24 DEF FailClose
<1>25. ASSUME NEW r \in Reveals, StartReveal(r) PROVE Evidence'
  BY <1>25 DEF StartReveal
<1>26. ASSUME NEW r \in Reveals, LockReveal(r) PROVE Evidence'
  BY <1>26 DEF LockReveal
<1>27. ASSUME NEW r \in Reveals, RefuseReveal(r) PROVE Evidence'
  BY <1>27 DEF RefuseReveal
<1>28. ASSUME NEW r \in Reveals, RepeatReveal(r) PROVE Evidence'
  BY <1>28 DEF RepeatReveal
<1>29. ASSUME NEW r \in Reveals, PassGate(r) PROVE Evidence'
  BY <1>29 DEF PassGate
<1>30. ASSUME NEW r \in Reveals, AuditReveal(r) PROVE Evidence'
  BY <1>30 DEF AuditReveal
<1>31. ASSUME NEW r \in Reveals, AnnounceReveal(r) PROVE Evidence'
  BY <1>31 DEF AnnounceReveal, ShowReveal
<1>32. ASSUME NEW r \in Reveals, CommitReveal(r) PROVE Evidence'
  BY <1>32 DEF CommitReveal
<1>33. ASSUME NEW r \in Reveals, FailReveal(r) PROVE Evidence'
  BY <1>33 DEF FailReveal
<1>34. ASSUME NEW x \in Changes, NEW d \in Delegates, SetEnabled(x, d) PROVE Evidence'
  BY <1>34 DEF SetEnabled, SetDelegate
<1>35. ASSUME NEW x \in Changes, NEW d \in Delegates, SetAttendance(x, d) PROVE Evidence'
  BY <1>35 DEF SetAttendance, SetDelegate
<1>36. ASSUME NEW x \in Changes, NEW d \in Delegates, RegisterKey(x, d) PROVE Evidence'
  BY <1>36 DEF RegisterKey, SetDelegate
<1>37. ASSUME NEW x \in Changes, NEW d \in Delegates, RemoveDelegation(x, d) PROVE Evidence'
  BY <1>37 DEF RemoveDelegation, SetDelegate, Seat
<1>38. ASSUME NEW x \in Changes, NEW d \in Delegates, RemovalRestricted(x, d) PROVE Evidence'
  BY <1>38 DEF RemovalRestricted
<1>39. ASSUME NEW x \in Changes, NEW d \in Delegates, AddDelegation(x, d) PROVE Evidence'
  BY <1>39 DEF AddDelegation, Seat
<1>40. ASSUME NEW x \in Changes, SetStatus(x) PROVE Evidence'
  BY <1>40 DEF SetStatus
<1>41. ASSUME NEW x \in Changes, ReadState(x) PROVE Evidence'
  BY <1>41 DEF ReadState
<1>42. ASSUME NEW x \in Changes, SendState(x) PROVE Evidence'
  BY <1>42 DEF SendState
<1>43. ASSUME NEW x \in Changes, FailChange(x) PROVE Evidence'
  BY <1>43 DEF FailChange
<1>44. CASE UNCHANGED vars
  BY <1>44 DEF vars
<1> QED
  BY <1>1, <1>2, <1>3, <1>4, <1>5, <1>6, <1>7, <1>8, <1>9, <1>10, <1>11, <1>12, <1>13,
     <1>14, <1>15, <1>16, <1>17, <1>18, <1>19, <1>20, <1>21, <1>22, <1>23, <1>24, <1>25,
     <1>26, <1>27, <1>28, <1>29, <1>30, <1>31, <1>32, <1>33, <1>34, <1>35, <1>36, <1>37,
     <1>38, <1>39, <1>40, <1>41, <1>42, <1>43, <1>44
     DEF Next, Open, Cast, Close, Reveal, Change

\* All four parts hold in every reachable state.
THEOREM EvidenceHolds == Spec => []Evidence
<1> QED BY InitEvidence, InvHolds, EvidenceStep, InitInv, PTL DEF Spec

\* No ballot, no reveal and no shown result lacks its audit entry.
THEOREM AuditAlwaysCoversLedger == Spec => []AuditCoversLedger
<1>1. Evidence => AuditCoversLedger
  BY DEF Evidence, Trail, AuditCoversLedger, Voters
<1> QED BY <1>1, EvidenceHolds, PTL

\* A receipt states a ballot that is in the ledger.
THEOREM ReceiptsAlwaysHonest == Spec => []ReceiptsHonest
<1>1. Evidence => ReceiptsHonest
  BY DEF Evidence, Receipts, ReceiptsHonest
<1> QED BY <1>1, EvidenceHolds, PTL

\* A result that a client shows is the result of all ballots there are.
THEOREM TallyAlwaysFaithful == Spec => []TallyFaithful
<1>1. Evidence => TallyFaithful
  BY DEF Evidence, Results, TallyFaithful, Shown
<1> QED BY <1>1, EvidenceHolds, PTL

(***************************************************************************)
(* What holds as long as the roster, or the clients, are left alone.  Each *)
(* hypothesis is about steps that some behaviours take and the ones of     *)
(* VotingFrozen.cfg do not.                                                *)
(***************************************************************************)

\* No delegation is removed from the committee.
NoRemoval == [][\A x \in Changes, d \in Delegates : ~ RemoveDelegation(x, d)]_vars

NoneRemoved == \A d \in Delegates : roster[d].slot # "removed"

\* Only RemoveDelegation removes.
LEMMA NoneRemovedStep ==
  ASSUME TypeOK, NoneRemoved, [Next]_vars,
         \A x \in Changes, d \in Delegates : ~ RemoveDelegation(x, d)
  PROVE  NoneRemoved'
<1> USE DEF TypeOK, NoneRemoved, room, Move, ReadVote, LockVote, Reply, Release, Fail
<1>1. ASSUME Open PROVE NoneRemoved'
  BY <1>1 DEF Open, RefuseOpen, CheckOpen, CountOpen, InsertOpen, ReadOpen, BroadcastOpen,
              FailOpen
<1>2. ASSUME NEW c \in Casts, Cast(c) PROVE NoneRemoved'
  BY <1>2 DEF Cast, StartCast, LockCast, NotOpen, RefuseCast, CheckCast, RepeatCast,
              InsertRejected, InsertBallot, AuditCast, BroadcastCast, CommitCast, FailCast
<1>3. ASSUME NEW x \in Closes, Close(x) PROVE NoneRemoved'
  BY <1>3 DEF Close, StartClose, CloseRow, CloseNothing, BroadcastClose, FailClose
<1>4. ASSUME NEW r \in Reveals, Reveal(r) PROVE NoneRemoved'
  BY <1>4 DEF Reveal, StartReveal, LockReveal, RefuseReveal, RepeatReveal, PassGate,
              AuditReveal, AnnounceReveal, CommitReveal, FailReveal
<1>5. ASSUME NEW x \in Changes, Change(x) PROVE NoneRemoved'
  <2>1. ASSUME NEW d \in Delegates,
               SetEnabled(x, d) \/ SetAttendance(x, d) \/ RegisterKey(x, d)
        PROVE  NoneRemoved'
    <3>1. roster[d] \in [slot : {"future", "listed", "removed"}, enabled : BOOLEAN,
                         here : BOOLEAN, key : Keys \union {NoKey}]
      OBVIOUS
    <3>2. ASSUME NEW to, NEW value, SetDelegate(x, d, to, value), value.slot = roster[d].slot
          PROVE  NoneRemoved'
      BY <3>2 DEF SetDelegate
    <3>3. CASE SetEnabled(x, d)
      <4>1. PICK b \in BOOLEAN : SetDelegate(x, d, "changed", [roster[d] EXCEPT !.enabled = b])
        BY <3>3 DEF SetEnabled
      <4> QED BY <3>1, <3>2, <4>1
    <3>4. CASE SetAttendance(x, d)
      <4>1. PICK b \in BOOLEAN : SetDelegate(x, d, "changed", [roster[d] EXCEPT !.here = b])
        BY <3>4 DEF SetAttendance
      <4> QED BY <3>1, <3>2, <4>1
    <3>5. CASE RegisterKey(x, d)
      <4>1. PICK k \in Keys \union {NoKey} :
              SetDelegate(x, d, "done", [roster[d] EXCEPT !.key = k])
        BY <3>5 DEF RegisterKey
      <4> QED BY <3>1, <3>2, <4>1
    <3> QED BY <2>1, <3>3, <3>4, <3>5
  <2>2. ASSUME NEW d \in Delegates, AddDelegation(x, d) PROVE NoneRemoved'
    BY <2>2 DEF AddDelegation, Seat
  <2>3. ASSUME NEW d \in Delegates, RemovalRestricted(x, d) PROVE NoneRemoved'
    BY <2>3 DEF RemovalRestricted
  <2>4. CASE SetStatus(x) \/ ReadState(x) \/ SendState(x) \/ FailChange(x)
    BY <2>4 DEF SetStatus, ReadState, SendState, FailChange
  <2> QED BY <1>5, <2>1, <2>2, <2>3, <2>4 DEF Change
<1>6. CASE UNCHANGED vars
  BY <1>6 DEF vars
<1> QED BY <1>1, <1>2, <1>3, <1>4, <1>5, <1>6 DEF Next

\* Only a removal makes the insert of a ballot fail for another reason than
\* that the delegate has one.
THEOREM AcceptedUnlessRemoved == Spec /\ NoRemoval => []AcceptedMeansRecorded
<1>1. Init => NoneRemoved
  BY DEF Init, NoneRemoved, Seat
<1>2. Inv /\ NoneRemoved /\ [Next]_vars
        /\ [\A x \in Changes, d \in Delegates : ~ RemoveDelegation(x, d)]_vars
        => NoneRemoved'
  <2>1. ASSUME Inv, NoneRemoved, UNCHANGED vars PROVE NoneRemoved'
    BY <2>1 DEF NoneRemoved, vars
  <2> QED BY <2>1, NoneRemovedStep DEF Inv
<1>3. Inv /\ Evidence /\ NoneRemoved => AcceptedMeansRecorded
  <2> SUFFICES ASSUME Inv, Evidence, NoneRemoved, NEW c \in Casts,
                      pc[c] \in {"recorded", "duplicate"}
               PROVE  cast[c].delegate \in Voters
    BY DEF AcceptedMeansRecorded
  <2>1. cast[c].delegate \in Delegates
    BY DEF Inv, TypeOK
  <2>2. \E b \in ballots : b.delegate = cast[c].delegate
    BY <2>1 DEF Evidence, Accepted, NoneRemoved
  <2> QED BY <2>2 DEF Voters
<1> QED BY <1>1, <1>2, <1>3, InvHolds, EvidenceHolds, PTL DEF Spec, NoRemoval

\* Nobody who may vote stops being allowed to.
EligibilityKept == [][Eligible \subseteq Eligible']_vars

\* Whoever has a ballot, or a cast past the check, may vote.
Entitled ==
  /\ Voters \subseteq Eligible
  /\ \A c \in Casts : pc[c] \in {"allowed", "inserted", "audited", "sent"} =>
       cast[c].delegate \in Eligible

\* The submissions are never changed.
LEMMA SameCasts == [Next]_vars => cast' = cast
<1> SUFFICES ASSUME [Next]_vars PROVE cast' = cast
  OBVIOUS
<1> USE DEF Move, ReadVote, LockVote, Reply, Release, Fail
<1>1. ASSUME Open PROVE cast' = cast
  BY <1>1 DEF Open, RefuseOpen, CheckOpen, CountOpen, InsertOpen, ReadOpen, BroadcastOpen,
              FailOpen
<1>2. ASSUME NEW c \in Casts, Cast(c) PROVE cast' = cast
  BY <1>2 DEF Cast, StartCast, LockCast, NotOpen, RefuseCast, CheckCast, RepeatCast,
              InsertRejected, InsertBallot, AuditCast, BroadcastCast, CommitCast, FailCast
<1>3. ASSUME NEW x \in Closes, Close(x) PROVE cast' = cast
  BY <1>3 DEF Close, StartClose, CloseRow, CloseNothing, BroadcastClose, FailClose
<1>4. ASSUME NEW r \in Reveals, Reveal(r) PROVE cast' = cast
  BY <1>4 DEF Reveal, StartReveal, LockReveal, RefuseReveal, RepeatReveal, PassGate,
              AuditReveal, AnnounceReveal, CommitReveal, FailReveal
<1>5. ASSUME NEW x \in Changes, Change(x) PROVE cast' = cast
  BY <1>5 DEF Change, SetEnabled, SetAttendance, RegisterKey, RemoveDelegation, SetDelegate,
              RemovalRestricted, AddDelegation, SetStatus, ReadState, SendState, FailChange
<1> QED BY <1>1, <1>2, <1>3, <1>4, <1>5 DEF Next, vars

\* A cast gets past the check by passing it.
LEMMA AllowedSteps ==
  ASSUME TypeOK, [Next]_vars, NEW c \in Casts,
         pc[c] \notin {"allowed", "inserted", "audited", "sent"},
         pc'[c] \in {"allowed", "inserted", "audited", "sent"}
  PROVE  MayVote(c)
<1> USE VotingConstants
    DEF TypeOK, Ops, Move, ReadVote, LockVote, Reply, Release, Fail, Answer, Step
<1>1. ASSUME Open PROVE FALSE
  BY <1>1 DEF Open, RefuseOpen, CheckOpen, CountOpen, InsertOpen, ReadOpen, BroadcastOpen,
              FailOpen
<1>2. ASSUME NEW d \in Casts, Cast(d) PROVE MayVote(c)
  BY <1>2 DEF Cast, StartCast, LockCast, NotOpen, RefuseCast, CheckCast, RepeatCast,
              InsertRejected, InsertBallot, AuditCast, BroadcastCast, CommitCast, FailCast
<1>3. ASSUME NEW x \in Closes, Close(x) PROVE FALSE
  BY <1>3 DEF Close, StartClose, CloseRow, CloseNothing, BroadcastClose, FailClose
<1>4. ASSUME NEW r \in Reveals, Reveal(r) PROVE FALSE
  BY <1>4 DEF Reveal, StartReveal, LockReveal, RefuseReveal, RepeatReveal, PassGate,
              AuditReveal, AnnounceReveal, CommitReveal, FailReveal
<1>5. ASSUME NEW x \in Changes, Change(x) PROVE FALSE
  BY <1>5 DEF Change, SetEnabled, SetAttendance, RegisterKey, RemoveDelegation, SetDelegate,
              RemovalRestricted, AddDelegation, SetStatus, ReadState, SendState, FailChange
<1>6. CASE UNCHANGED vars
  BY <1>6 DEF vars
<1> QED BY <1>1, <1>2, <1>3, <1>4, <1>5, <1>6 DEF Next

\* A ballot is committed by a cast that was let through.
LEMMA EntitledStep ==
  ASSUME Inv, Entitled, [Next]_vars, Eligible \subseteq Eligible'
  PROVE  Entitled'
<1>1. ASSUME NEW c \in Casts, pc'[c] \in {"allowed", "inserted", "audited", "sent"}
      PROVE  cast'[c].delegate \in Eligible'
  <2>1. cast' = cast
    BY SameCasts DEF Inv
  <2>2. CASE pc[c] \in {"allowed", "inserted", "audited", "sent"}
    BY <2>1, <2>2 DEF Entitled
  <2>3. CASE pc[c] \notin {"allowed", "inserted", "audited", "sent"}
    BY <1>1, <2>1, <2>3, AllowedSteps DEF MayVote, Inv
  <2> QED BY <2>2, <2>3
<1>2. Voters' \subseteq Eligible'
  <2>1. ASSUME NEW c \in Casts, CommitCast(c) PROVE Voters' \subseteq Eligible'
    <3> DEFINE b == [delegate |-> cast[c].delegate, choice |-> cast[c].choice]
    <3>1. pc[c] = "sent" /\ ballots' = ballots \union {b} /\ b.delegate = cast[c].delegate
      BY <2>1 DEF CommitCast, Answer, Step
    <3> HIDE DEF b
    <3>2. Voters' = Voters \union {cast[c].delegate}
      BY <3>1 DEF Voters
    <3> QED BY <3>1, <3>2 DEF Entitled
  <2>2. CASE ballots' = ballots
    BY <2>2 DEF Entitled, Voters
  <2> QED BY <2>1, <2>2, LedgerSteps
<1> QED BY <1>1, <1>2 DEF Entitled

\* The gate keeps the results hidden until all who may vote have voted, unless
\* somebody loses the right to vote while the vote runs.
THEOREM HiddenWhileEligibilityKept == Spec /\ EligibilityKept => HiddenUntilAllVoted
<1>1. Init => Entitled
  BY DEF Init, Entitled, Voters, Ops
<1>2. Inv /\ Entitled /\ [Next]_vars /\ [Eligible \subseteq Eligible']_vars => Entitled'
  <2>1. UNCHANGED vars => Eligible' = Eligible
    BY DEF vars, Eligible
  <2> QED BY <2>1, EntitledStep
<1>3. Spec => [][Entitled => \A r \in Reveals : PassGate(r) => Eligible \subseteq Voters]_vars
  <2>1. (\A r \in Reveals :
           PassGate(r) /\ Voters \subseteq Eligible => Eligible \subseteq Voters)
         => (Entitled => \A r \in Reveals : PassGate(r) => Eligible \subseteq Voters)
    BY DEF Entitled
  <2> QED BY <2>1, GateIsSound, PTL DEF GateSound
<1> QED BY <1>1, <1>2, <1>3, InvHolds, PTL DEF Spec, EligibilityKept, HiddenUntilAllVoted

\* Of all broadcasts, only those of the opening, of casts and of reveals are sent.
OnlyVoting ==
  [][/\ \A x \in Closes : ~ BroadcastClose(x)
     /\ \A x \in Changes : ~ SendState(x)]_vars

\* Nobody acts on the vote before its broadcast, and what casts and reveals
\* broadcast cannot overtake one another, because they hold the lock.
Visible ==
  /\ screen.vote.status # "absent" => pc[Opener] = "done"
  /\ \A o \in Casts \union Reveals : pc[o] # "idle" => screen.vote.status # "absent"
  /\ pc[Opener] = "read" => row[Opener].status # "absent"
  /\ \A c \in Casts : pc[c] \in {"inserted", "audited"} => row[c].status = "open"
  /\ \A r \in Reveals : pc[r] \in {"passed", "audited"} => row[r].status = "revealed"
  /\ \A r \in Reveals : pc[r] = "sent" => Shown
  /\ vote.status = "revealed" => Shown

\* What is broadcast under the lock leaves the revealed result on the screen.
LEMMA VisibleStep ==
  ASSUME Inv, Visible, [Next]_vars,
         \A x \in Closes : ~ BroadcastClose(x), \A x \in Changes : ~ SendState(x)
  PROVE  Visible'
<1> USE VotingConstants
    DEF Inv, TypeOK, BeforeOpen, LockedRows, Visible, Shown, Ops, Labels, Settled, Holding, room,
        Step, Answer, Move, ReadVote, LockVote, Reply, Release, Fail, VoteRows, NoVote
<1>1. CASE RefuseOpen
  BY <1>1 DEF RefuseOpen
<1>2. CASE CheckOpen
  BY <1>2 DEF CheckOpen
<1>3. CASE CountOpen
  BY <1>3 DEF CountOpen
<1>4. CASE InsertOpen
  BY <1>4 DEF InsertOpen
<1>5. CASE ReadOpen
  BY <1>5 DEF ReadOpen
<1>6. CASE BroadcastOpen
  BY <1>6 DEF BroadcastOpen, ShowState
<1>7. CASE FailOpen
  BY <1>7 DEF FailOpen
<1>8. ASSUME NEW c \in Casts, StartCast(c) PROVE Visible'
  BY <1>8 DEF StartCast
<1>9. ASSUME NEW c \in Casts, LockCast(c) PROVE Visible'
  BY <1>9 DEF LockCast
<1>10. ASSUME NEW c \in Casts, NotOpen(c) PROVE Visible'
  BY <1>10 DEF NotOpen
<1>11. ASSUME NEW c \in Casts, RefuseCast(c) PROVE Visible'
  BY <1>11 DEF RefuseCast
<1>12. ASSUME NEW c \in Casts, CheckCast(c) PROVE Visible'
  BY <1>12 DEF CheckCast
<1>13. ASSUME NEW c \in Casts, RepeatCast(c) PROVE Visible'
  BY <1>13 DEF RepeatCast
<1>14. ASSUME NEW c \in Casts, InsertRejected(c) PROVE Visible'
  BY <1>14 DEF InsertRejected
<1>15. ASSUME NEW c \in Casts, InsertBallot(c) PROVE Visible'
  BY <1>15 DEF InsertBallot
<1>16. ASSUME NEW c \in Casts, AuditCast(c) PROVE Visible'
  BY <1>16 DEF AuditCast
<1>17. ASSUME NEW c \in Casts, BroadcastCast(c) PROVE Visible'
  BY <1>17 DEF BroadcastCast, ShowState
<1>18. ASSUME NEW c \in Casts, CommitCast(c) PROVE Visible'
  BY <1>18 DEF CommitCast
<1>19. ASSUME NEW c \in Casts, FailCast(c) PROVE Visible'
  BY <1>19 DEF FailCast
<1>20. ASSUME NEW x \in Closes, StartClose(x) PROVE Visible'
  BY <1>20 DEF StartClose
<1>21. ASSUME NEW x \in Closes, CloseRow(x) PROVE Visible'
  BY <1>21 DEF CloseRow
<1>22. ASSUME NEW x \in Closes, CloseNothing(x) PROVE Visible'
  BY <1>22 DEF CloseNothing
<1>23. ASSUME NEW x \in Closes, BroadcastClose(x) PROVE Visible'
  BY <1>23
<1>24. ASSUME NEW x \in Closes, FailClose(x) PROVE Visible'
  BY <1>24 DEF FailClose
<1>25. ASSUME NEW r \in Reveals, StartReveal(r) PROVE Visible'
  BY <1>25 DEF StartReveal
<1>26. ASSUME NEW r \in Reveals, LockReveal(r) PROVE Visible'
  BY <1>26 DEF LockReveal
<1>27. ASSUME NEW r \in Reveals, RefuseReveal(r) PROVE Visible'
  BY <1>27 DEF RefuseReveal
<1>28. ASSUME NEW r \in Reveals, RepeatReveal(r) PROVE Visible'
  BY <1>28 DEF RepeatReveal
<1>29. ASSUME NEW r \in Reveals, PassGate(r) PROVE Visible'
  BY <1>29 DEF PassGate
<1>30. ASSUME NEW r \in Reveals, AuditReveal(r) PROVE Visible'
  BY <1>30 DEF AuditReveal
<1>31. ASSUME NEW r \in Reveals, AnnounceReveal(r) PROVE Visible'
  BY <1>31 DEF AnnounceReveal, ShowReveal, Ballots
<1>32. ASSUME NEW r \in Reveals, CommitReveal(r) PROVE Visible'
  BY <1>32 DEF CommitReveal
<1>33. ASSUME NEW r \in Reveals, FailReveal(r) PROVE Visible'
  BY <1>33 DEF FailReveal
<1>34. ASSUME NEW x \in Changes, NEW d \in Delegates, SetEnabled(x, d) PROVE Visible'
  BY <1>34 DEF SetEnabled, SetDelegate
<1>35. ASSUME NEW x \in Changes, NEW d \in Delegates, SetAttendance(x, d) PROVE Visible'
  BY <1>35 DEF SetAttendance, SetDelegate
<1>36. ASSUME NEW x \in Changes, NEW d \in Delegates, RegisterKey(x, d) PROVE Visible'
  BY <1>36 DEF RegisterKey, SetDelegate
<1>37. ASSUME NEW x \in Changes, NEW d \in Delegates, RemoveDelegation(x, d) PROVE Visible'
  BY <1>37 DEF RemoveDelegation, SetDelegate, Seat
<1>38. ASSUME NEW x \in Changes, NEW d \in Delegates, RemovalRestricted(x, d) PROVE Visible'
  BY <1>38 DEF RemovalRestricted
<1>39. ASSUME NEW x \in Changes, NEW d \in Delegates, AddDelegation(x, d) PROVE Visible'
  BY <1>39 DEF AddDelegation, Seat
<1>40. ASSUME NEW x \in Changes, SetStatus(x) PROVE Visible'
  BY <1>40 DEF SetStatus
<1>41. ASSUME NEW x \in Changes, ReadState(x) PROVE Visible'
  BY <1>41 DEF ReadState
<1>42. ASSUME NEW x \in Changes, SendState(x) PROVE Visible'
  BY <1>42
<1>43. ASSUME NEW x \in Changes, FailChange(x) PROVE Visible'
  BY <1>43 DEF FailChange
<1>44. CASE UNCHANGED vars
  BY <1>44 DEF vars
<1> QED
  BY <1>1, <1>2, <1>3, <1>4, <1>5, <1>6, <1>7, <1>8, <1>9, <1>10, <1>11, <1>12, <1>13,
     <1>14, <1>15, <1>16, <1>17, <1>18, <1>19, <1>20, <1>21, <1>22, <1>23, <1>24, <1>25,
     <1>26, <1>27, <1>28, <1>29, <1>30, <1>31, <1>32, <1>33, <1>34, <1>35, <1>36, <1>37,
     <1>38, <1>39, <1>40, <1>41, <1>42, <1>43, <1>44
     DEF Next, Open, Cast, Close, Reveal, Change

\* A revealed vote stays on the screen of a connected client with its result,
\* as long as only casts and reveals of this vote are broadcast.
THEOREM ResultsStayWithoutOthers == Spec /\ OnlyVoting => []ResultsStayVisible
<1>1. Init => Visible
  BY VotingConstants DEF Init, Visible, NoVote, Ops
<1>2. Inv /\ Visible /\ [Next]_vars
        /\ [/\ \A x \in Closes : ~ BroadcastClose(x)
            /\ \A x \in Changes : ~ SendState(x)]_vars
        => Visible'
  <2>1. ASSUME Visible, UNCHANGED vars PROVE Visible'
    BY <2>1 DEF Visible, Shown, vars
  <2> QED BY <2>1, VisibleStep
<1>3. Visible => ResultsStayVisible
  BY DEF Visible, ResultsStayVisible
<1> QED BY <1>1, <1>2, <1>3, InvHolds, PTL DEF Spec, OnlyVoting
=============================================================================
