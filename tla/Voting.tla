------------------------------- MODULE Voting -------------------------------
(***************************************************************************)
(* One vote of one committee: the handlers of                              *)
(* apps/server/src/voting/service.ts, the roster changes of                *)
(* committee/service.ts that decide who may vote, and what a connected     *)
(* client's store makes of the broadcasts.                                 *)
(*                                                                         *)
(* The server is one event loop, so a handler runs without interruption    *)
(* from one await to the next, and handlers interleave at the awaits.      *)
(* castVote and revealVote are transactions that hold the lock of the      *)
(* vote's row from SELECT ... FOR UPDATE to COMMIT or ROLLBACK; what they  *)
(* write is seen by the others at COMMIT.  The other handlers write with   *)
(* single autocommitted statements.  audit() is a transaction of its own   *)
(* and broadcasts leave at once, so neither is undone by a rollback.       *)
(*                                                                         *)
(* An operator that nothing uses is a faulty variant of the one after it;  *)
(* it shows which property notices the fault.                              *)
(***************************************************************************)
EXTENDS Naturals, FiniteSets

CONSTANTS
  Delegates,
  Choices,
  Keys,      \* public keys of the delegates' devices
  NoKey,     \* delegates.public_key is NULL
  Opener,    \* the createVote request of this vote
  Casts,     \* requests, each handled once
  Closes,
  Reveals,
  Changes,   \* requests that change the roster or the committee's status
  NoOne,     \* the vote's row is not locked
  NoTally    \* the client holds no result for the vote

ASSUME VotingConstants ==
  /\ IsFiniteSet(Delegates)
  /\ NoKey \notin Keys
  /\ NoOne \notin Casts \union Reveals
  /\ \A tally \in SUBSET [delegate : Delegates, choice : Choices] : tally # NoTally
  /\ \A S \in {Casts, Closes, Reveals, Changes} : Opener \notin S
  /\ Casts \intersect Closes = {} /\ Casts \intersect Reveals = {}
  /\ Casts \intersect Changes = {} /\ Closes \intersect Reveals = {}
  /\ Closes \intersect Changes = {} /\ Reveals \intersect Changes = {}

VARIABLES
  vote,      \* the committed row of votes
  ballots,   \* the committed rows of vote_records
  lock,      \* the request that holds the lock of the vote's row
  roster,    \* the rows of delegates
  sitting,   \* committees.status = 'active'
  pc,        \* where each request is, at last how it was answered
  cast,      \* what each cast request submits, and the key it is signed with
  row,       \* the row of votes each request has read
  audited,   \* actions in the audit log, with the delegate for a cast
  screen     \* a connected client: its row of the vote and its result

vars == <<vote, ballots, lock, roster, sitting, pc, cast, row, audited, screen>>

Ops == Casts \union Closes \union Reveals \union Changes \union {Opener}

Ballots == [delegate : Delegates, choice : Choices]

NoVote == [status |-> "absent", required |-> 0, submitted |-> 0]

\* A new delegation is enabled, but not checked in and without a key.
Seat(slot) == [slot |-> slot, enabled |-> TRUE, here |-> FALSE, key |-> NoKey]

\* eligibleCount: the enabled delegates that are present or voting.
Eligible == {d \in Delegates : roster[d].slot = "listed" /\ roster[d].enabled /\ roster[d].here}

Voters == {b.delegate : b \in ballots}

CastAudits(d) == <<"vote_cast", d>>
RevealAudit == <<"vote_reveal", NoOne>>

Settled == {"idle", "recorded", "duplicate", "refused", "error", "done"}

Init ==
  /\ vote = NoVote
  /\ ballots = {}
  /\ lock = NoOne
  /\ \E listed \in SUBSET Delegates, key \in [Delegates -> Keys] :
       roster = [d \in Delegates |->
                   IF d \in listed
                   THEN [slot |-> "listed", enabled |-> TRUE, here |-> TRUE, key |-> key[d]]
                   ELSE Seat("future")]
  /\ sitting = TRUE
  /\ pc = [o \in Ops |-> "idle"]
  /\ cast \in [Casts -> [delegate : Delegates, choice : Choices, key : Keys]]
  /\ row = [o \in Ops |-> NoVote]
  /\ audited = {}
  /\ screen = [vote |-> NoVote, tally |-> NoTally]

room == <<roster, sitting>>

Step(o, from, to) == pc[o] = from /\ pc' = [pc EXCEPT ![o] = to]

\* A request is answered; its local variables are gone.
Answer(o, from, to) == Step(o, from, to) /\ row' = [row EXCEPT ![o] = NoVote]

\* A step that changes nothing that others see.
Move(o, from, to) ==
  Step(o, from, to) /\ UNCHANGED <<vote, ballots, lock, room, cast, row, audited, screen>>

ReadVote(o, from, to) ==
  /\ Step(o, from, to)
  /\ row' = [row EXCEPT ![o] = vote]
  /\ UNCHANGED <<vote, ballots, lock, room, cast, audited, screen>>

\* SELECT * FROM votes ... FOR UPDATE waits until the lock is free.
LockVote(o, from, to) ==
  /\ lock = NoOne
  /\ lock' = o
  /\ Step(o, from, to)
  /\ row' = [row EXCEPT ![o] = vote]
  /\ UNCHANGED <<vote, ballots, room, cast, audited, screen>>

Reply(o, from, to) ==
  Answer(o, from, to) /\ UNCHANGED <<vote, ballots, lock, room, cast, audited, screen>>

\* The transaction ends without a write and frees the lock.
Release(o, from, to) ==
  /\ Answer(o, from, to)
  /\ lock' = NoOne
  /\ UNCHANGED <<vote, ballots, room, cast, audited, screen>>

FailKeepsLock(o, at) == \E from \in at : Reply(o, from, "error")

\* An await throws; a transaction is rolled back, which frees its lock.
Fail(o, at) ==
  /\ \E from \in at : Answer(o, from, "error")
  /\ lock' = IF lock = o THEN NoOne ELSE lock
  /\ UNCHANGED <<vote, ballots, room, cast, audited, screen>>

\* The client's store, renderer/src/store.ts: vote_state replaces the vote and
\* its result, vote_revealed only a vote it knows.
ShowState(v) == screen' = [vote |-> v, tally |-> NoTally]

ShowRevealKeepsVote(v) == screen' = [screen EXCEPT !.tally = ballots]

ShowReveal(v) ==
  screen' = [vote |-> IF screen.vote.status = "absent" THEN NoVote ELSE v, tally |-> ballots]

-----------------------------------------------------------------------------
(***************************************************************************)
(* createVote                                                              *)
(***************************************************************************)

RefuseOpen ==
  /\ ~ sitting
  /\ Reply(Opener, "idle", "refused")

CheckOpen ==
  /\ sitting
  /\ Move(Opener, "idle", "checked")

CountOpen ==
  /\ Step(Opener, "checked", "counted")
  /\ row' = [row EXCEPT ![Opener] =
               [status |-> "open", required |-> Cardinality(Eligible), submitted |-> 0]]
  /\ UNCHANGED <<vote, ballots, lock, room, cast, audited, screen>>

InsertOpen ==
  /\ Step(Opener, "counted", "inserted")
  /\ vote' = row[Opener]
  /\ UNCHANGED <<ballots, lock, room, cast, row, audited, screen>>

\* getVote reads the row back.
ReadOpen == ReadVote(Opener, "inserted", "read")

\* The audit entry is written, then the row read before it is broadcast.
BroadcastOpen ==
  /\ Answer(Opener, "read", "done")
  /\ ShowState(row[Opener])
  /\ UNCHANGED <<vote, ballots, lock, room, cast, audited>>

FailOpen == Fail(Opener, {"checked", "counted", "inserted", "read"})

Open ==
  \/ RefuseOpen \/ CheckOpen \/ CountOpen \/ InsertOpen \/ ReadOpen
  \/ BroadcastOpen \/ FailOpen

-----------------------------------------------------------------------------
(***************************************************************************)
(* castVote                                                                *)
(***************************************************************************)

\* The client offers to vote on a vote that its store shows as open.
StartCast(c) ==
  /\ screen.vote.status = "open"
  /\ Move(c, "idle", "queued")

LockCastUnlocked(c) ==
  /\ vote.status = "open"
  /\ Step(c, "queued", "locked")
  /\ lock' = c
  /\ row' = [row EXCEPT ![c] = vote]
  /\ UNCHANGED <<vote, ballots, room, cast, audited, screen>>

LockCastAnyStatus(c) == LockVote(c, "queued", "locked")

LockCast(c) ==
  /\ vote.status = "open"
  /\ LockVote(c, "queued", "locked")

\* The row was locked and read, and the transaction rolled back.
NotOpen(c) ==
  /\ vote.status # "open"
  /\ lock = NoOne
  /\ Reply(c, "queued", "refused")

\* Enabled, checked in, and the key of the signature is the registered one.
MayVote(c) ==
  /\ cast[c].delegate \in Eligible
  /\ roster[cast[c].delegate].key = cast[c].key

RefuseCast(c) ==
  /\ ~ MayVote(c)
  /\ Release(c, "locked", "refused")

CheckCast(c) ==
  /\ MayVote(c)
  /\ Move(c, "locked", "allowed")

RepeatCastAnyBallot(c) ==
  /\ ballots # {}
  /\ Release(c, "allowed", "duplicate")

\* A delegate that has a ballot gets an idempotent acknowledgement.
RepeatCast(c) ==
  /\ cast[c].delegate \in Voters
  /\ Release(c, "allowed", "duplicate")

\* Any error of the INSERT is taken for a duplicate.  It is the foreign key
\* when the delegation was removed after the check; the UNIQUE index cannot be
\* it, because the ballots do not change while the vote's row is locked.
InsertRejected(c) ==
  /\ cast[c].delegate \notin Voters
  /\ roster[cast[c].delegate].slot # "listed"
  /\ Release(c, "allowed", "duplicate")

InsertBallotUncounted(c) ==
  /\ cast[c].delegate \notin Voters
  /\ roster[cast[c].delegate].slot = "listed"
  /\ Move(c, "allowed", "inserted")

\* INSERT INTO vote_records, then UPDATE votes SET submitted_count.
InsertBallot(c) ==
  /\ cast[c].delegate \notin Voters
  /\ roster[cast[c].delegate].slot = "listed"
  /\ Step(c, "allowed", "inserted")
  /\ row' = [row EXCEPT ![c].submitted = @ + 1]
  /\ UNCHANGED <<vote, ballots, lock, room, cast, audited, screen>>

SkipCastAudit(c) == Move(c, "inserted", "audited")

AuditCast(c) ==
  /\ Step(c, "inserted", "audited")
  /\ audited' = audited \union {CastAudits(cast[c].delegate)}
  /\ UNCHANGED <<vote, ballots, lock, room, cast, row, screen>>

\* The new count goes to every client before the transaction commits.
BroadcastCast(c) ==
  /\ Step(c, "audited", "sent")
  /\ ShowState(row[c])
  /\ UNCHANGED <<vote, ballots, lock, room, cast, row, audited>>

CommitCastUnchecked(c) ==
  /\ Answer(c, "sent", "recorded")
  /\ \/ /\ vote' = [vote EXCEPT !.submitted = row[c].submitted]
        /\ ballots' = ballots \union {[delegate |-> cast[c].delegate, choice |-> cast[c].choice]}
     \/ UNCHANGED <<vote, ballots>>
  /\ lock' = NoOne
  /\ UNCHANGED <<room, cast, audited, screen>>

\* COMMIT; its answer may be lost on the way, which the request reports as an
\* error.
CommitCast(c) ==
  /\ \E to \in {"recorded", "error"} : Answer(c, "sent", to)
  /\ vote' = [vote EXCEPT !.submitted = row[c].submitted]
  /\ ballots' = ballots \union {[delegate |-> cast[c].delegate, choice |-> cast[c].choice]}
  /\ lock' = NoOne
  /\ UNCHANGED <<room, cast, audited, screen>>

FailCast(c) == Fail(c, {"queued", "locked", "allowed", "inserted", "audited", "sent"})

Cast(c) ==
  \/ StartCast(c) \/ LockCast(c) \/ NotOpen(c) \/ RefuseCast(c) \/ CheckCast(c)
  \/ RepeatCast(c) \/ InsertRejected(c) \/ InsertBallot(c)
  \/ AuditCast(c) \/ BroadcastCast(c) \/ CommitCast(c) \/ FailCast(c)

-----------------------------------------------------------------------------
(***************************************************************************)
(* closeVote                                                               *)
(***************************************************************************)

StartClose(x) ==
  /\ screen.vote.status = "open"
  /\ Move(x, "idle", "queued")

\* UPDATE votes ... WHERE status = 'open' RETURNING *, which waits for the lock
\* of the row.
CloseRow(x) ==
  /\ vote.status = "open"
  /\ lock = NoOne
  /\ Step(x, "queued", "closed")
  /\ vote' = [vote EXCEPT !.status = "closed"]
  /\ row' = [row EXCEPT ![x] = vote']
  /\ UNCHANGED <<ballots, lock, room, cast, audited, screen>>

CloseNothing(x) ==
  /\ vote.status # "open"
  /\ Reply(x, "queued", "done")

\* After the audit entry, the row the UPDATE returned is broadcast.
BroadcastClose(x) ==
  /\ Answer(x, "closed", "done")
  /\ ShowState(row[x])
  /\ UNCHANGED <<vote, ballots, lock, room, cast, audited>>

FailClose(x) == Fail(x, {"queued", "closed"})

Close(x) ==
  StartClose(x) \/ CloseRow(x) \/ CloseNothing(x) \/ BroadcastClose(x) \/ FailClose(x)

-----------------------------------------------------------------------------
(***************************************************************************)
(* revealVote                                                              *)
(***************************************************************************)

\* The chair's button needs a vote that is not shown as revealed, and as many
\* votes as eligible delegates, of which there must be one.
StartReveal(r) ==
  /\ screen.vote.status \in {"open", "closed"}
  /\ screen.vote.submitted > 0
  /\ Move(r, "idle", "queued")

LockRevealUnlocked(r) ==
  /\ Step(r, "queued", "locked")
  /\ lock' = r
  /\ row' = [row EXCEPT ![r] = vote]
  /\ UNCHANGED <<vote, ballots, room, cast, audited, screen>>

LockReveal(r) == LockVote(r, "queued", "locked")

GateOpensLate(r) == row[r].submitted + 1 >= Cardinality(Eligible)

\* The gate compares two numbers: the ballots and the delegates who may vote now.
GateOpens(r) == row[r].submitted >= Cardinality(Eligible)

RefuseReveal(r) ==
  /\ ~ GateOpens(r)
  /\ Release(r, "locked", "refused")

\* A repeated reveal returns the result and broadcasts nothing.
RepeatReveal(r) ==
  /\ GateOpens(r)
  /\ row[r].status = "revealed"
  /\ Release(r, "locked", "done")

\* UPDATE votes SET status = 'revealed', inside the transaction.
PassGate(r) ==
  /\ GateOpens(r)
  /\ row[r].status # "revealed"
  /\ Step(r, "locked", "passed")
  /\ row' = [row EXCEPT ![r].status = "revealed"]
  /\ UNCHANGED <<vote, ballots, lock, room, cast, audited, screen>>

AuditReveal(r) ==
  /\ Step(r, "passed", "audited")
  /\ audited' = audited \union {RevealAudit}
  /\ UNCHANGED <<vote, ballots, lock, room, cast, row, screen>>

\* The result goes to every client before the transaction commits.
AnnounceReveal(r) ==
  /\ Step(r, "audited", "sent")
  /\ ShowReveal(row[r])
  /\ UNCHANGED <<vote, ballots, lock, room, cast, row, audited>>

CommitReveal(r) ==
  /\ \E to \in {"done", "error"} : Answer(r, "sent", to)
  /\ vote' = [vote EXCEPT !.status = "revealed"]
  /\ lock' = NoOne
  /\ UNCHANGED <<ballots, room, cast, audited, screen>>

FailReveal(r) == Fail(r, {"queued", "locked", "passed", "audited", "sent"})

Reveal(r) ==
  \/ StartReveal(r) \/ LockReveal(r) \/ RefuseReveal(r) \/ RepeatReveal(r)
  \/ PassGate(r) \/ AuditReveal(r) \/ AnnounceReveal(r) \/ CommitReveal(r)
  \/ FailReveal(r)

-----------------------------------------------------------------------------
(***************************************************************************)
(* Changes to the roster and to the committee's status.  All but the key's *)
(* end with broadcastCommitteeState.                                       *)
(***************************************************************************)

SetDelegate(x, d, to, value) ==
  /\ roster[d].slot = "listed"
  /\ Step(x, "idle", to)
  /\ roster' = [roster EXCEPT ![d] = value]
  /\ UNCHANGED <<vote, ballots, lock, sitting, cast, row, audited, screen>>

SetEnabled(x, d) ==
  \E b \in BOOLEAN : SetDelegate(x, d, "changed", [roster[d] EXCEPT !.enabled = b])

SetAttendance(x, d) ==
  \E b \in BOOLEAN : SetDelegate(x, d, "changed", [roster[d] EXCEPT !.here = b])

\* The delegate registers a key, or an admin resets it.
RegisterKey(x, d) ==
  \E k \in Keys \union {NoKey} : SetDelegate(x, d, "done", [roster[d] EXCEPT !.key = k])

\* DELETE waits for a cast that has inserted a ballot of the delegate.
RemoveDelegation(x, d) ==
  /\ d \notin Voters
  /\ \A c \in Casts :
       pc[c] \in {"inserted", "audited", "sent"} => cast[c].delegate # d
  /\ SetDelegate(x, d, "changed", Seat("removed"))

\* The foreign key of vote_records restricts the DELETE.
RemovalRestricted(x, d) ==
  /\ d \in Voters
  /\ roster[d].slot = "listed"
  /\ Reply(x, "idle", "error")

AddDelegation(x, d) ==
  /\ roster[d].slot = "future"
  /\ Step(x, "idle", "changed")
  /\ roster' = [roster EXCEPT ![d] = Seat("listed")]
  /\ UNCHANGED <<vote, ballots, lock, sitting, cast, row, audited, screen>>

SetStatus(x) ==
  /\ Step(x, "idle", "changed")
  /\ sitting' \in BOOLEAN
  /\ UNCHANGED <<vote, ballots, lock, roster, cast, row, audited, screen>>

\* broadcastCommitteeState lists the votes, awaits another query, then sends.
ReadState(x) == ReadVote(x, "changed", "read")

\* committee_state replaces the client's votes and leaves its results.
SendState(x) ==
  /\ Answer(x, "read", "done")
  /\ screen' = [screen EXCEPT !.vote = row[x]]
  /\ UNCHANGED <<vote, ballots, lock, room, cast, audited>>

FailChange(x) == Fail(x, {"changed", "read"})

Change(x) ==
  \/ \E d \in Delegates :
       \/ SetEnabled(x, d) \/ SetAttendance(x, d) \/ RegisterKey(x, d)
       \/ RemoveDelegation(x, d) \/ RemovalRestricted(x, d) \/ AddDelegation(x, d)
  \/ SetStatus(x) \/ ReadState(x) \/ SendState(x) \/ FailChange(x)

-----------------------------------------------------------------------------
Next ==
  \/ Open
  \/ \E c \in Casts : Cast(c)
  \/ \E x \in Closes : Close(x)
  \/ \E r \in Reveals : Reveal(r)
  \/ \E x \in Changes : Change(x)

Spec == Init /\ [][Next]_vars

\* The event loop runs every continuation and Postgres answers every
\* statement; a row lock that is free again and again is granted to each
\* transaction that waits for it.
FairSpec ==
  /\ Spec
  /\ \A c \in Casts :
       /\ SF_vars(LockCast(c) \/ NotOpen(c))
       /\ WF_vars(pc[c] \notin {"idle", "queued"} /\ Cast(c))
  /\ \A x \in Closes :
       SF_vars(CloseRow(x) \/ CloseNothing(x)) /\ WF_vars(BroadcastClose(x))
  /\ \A r \in Reveals :
       /\ SF_vars(LockReveal(r))
       /\ WF_vars(pc[r] \notin {"idle", "queued"} /\ Reveal(r))

-----------------------------------------------------------------------------
(***************************************************************************)
(* Properties                                                              *)
(***************************************************************************)

\* Where a transaction holds the row's lock.
Holding == {"locked", "allowed", "inserted", "passed", "audited", "sent"}

Labels ==
  Settled \union {"checked", "counted", "inserted", "read", "queued", "locked", "allowed",
                  "audited", "sent", "closed", "passed", "changed"}

VoteRows == [status : {"absent", "open", "closed", "revealed"}, required : Nat, submitted : Nat]

\* Every variable stays within its type, and the vote's row is locked exactly
\* by the transaction that is between its SELECT ... FOR UPDATE and its end.
TypeOK ==
  /\ vote \in VoteRows
  /\ ballots \subseteq Ballots
  /\ lock \in Casts \union Reveals \union {NoOne}
  /\ roster \in [Delegates -> [slot : {"future", "listed", "removed"},
                               enabled : BOOLEAN, here : BOOLEAN, key : Keys \union {NoKey}]]
  /\ sitting \in BOOLEAN
  /\ pc \in [Ops -> Labels]
  /\ cast \in [Casts -> [delegate : Delegates, choice : Choices, key : Keys]]
  /\ row \in [Ops -> VoteRows]
  /\ audited \subseteq {CastAudits(d) : d \in Delegates} \union {RevealAudit}
  /\ screen.vote \in VoteRows
  /\ screen.tally = NoTally \/ screen.tally \subseteq Ballots
  /\ \A o \in Casts \union Reveals : lock = o <=> pc[o] \in Holding

\* The denormalised votes.submitted_count, which the reveal gate and every
\* client rely on, is the number of vote_records however casts interleave,
\* fail and roll back.
CountMatches == vote.submitted = Cardinality(ballots)

\* The service implements VoteLedger: no cast, close or reveal that overtakes
\* another one loses, repeats or changes a ballot, or turns the status back.
Ledger == INSTANCE VoteLedger WITH status <- vote.status, count <- vote.submitted
LedgerSpec == Ledger!Spec

\* What the count in the gate of revealVote achieves: when every delegate with
\* a ballot may still vote, the gate opens only if all who may vote have voted.
GateSound ==
  [][\A r \in Reveals :
       PassGate(r) /\ Voters \subseteq Eligible => Eligible \subseteq Voters]_vars

\* What the documents promise of the gate: results stay hidden until every
\* enabled, checked-in delegate has voted (voting/service.ts:6).
HiddenUntilAllVoted ==
  [][\A r \in Reveals : PassGate(r) => Eligible \subseteq Voters]_vars

\* Audit entries are written by transactions of their own, but a ballot or a
\* reveal is never in the database, and a result never on a screen, without
\* its entry.
AuditCoversLedger ==
  /\ \A d \in Voters : CastAudits(d) \in audited
  /\ vote.status = "revealed" \/ screen.tally # NoTally => RevealAudit \in audited

\* A cast answered with a receipt is in the ledger for good, with the choice
\* the receipt states.
ReceiptsHonest ==
  \A c \in Casts : pc[c] = "recorded" =>
    [delegate |-> cast[c].delegate, choice |-> cast[c].choice] \in ballots

\* An acknowledged cast, duplicate or not, means that the delegate has a ballot.
AcceptedMeansRecorded ==
  \A c \in Casts : pc[c] \in {"recorded", "duplicate"} => cast[c].delegate \in Voters

\* A result that a client shows is the result of all ballots there are, though
\* it was sent before the reveal committed and the reveal may have failed.
Shown == screen.vote.status = "revealed" /\ screen.tally # NoTally
TallyFaithful == Shown => screen.tally = ballots

\* When nothing is in flight any more, a revealed vote is shown with its result
\* (docs/chair-manual.md:51).
ResultsStayVisible ==
  vote.status = "revealed" /\ (\A o \in Ops : pc[o] \in Settled) => Shown

\* Every request that waits for the vote's row is answered.
Answered ==
  \A o \in Casts \union Closes \union Reveals : pc[o] = "queued" ~> pc[o] \in Settled
=============================================================================
