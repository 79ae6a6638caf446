------------------------------ MODULE AuditLog ------------------------------
(***************************************************************************)
(* The tamper-evident audit log: audit() and verifyAuditChain() of         *)
(* apps/server/src/audit/service.ts over the hash chain of                 *)
(* packages/crypto/src/audit-chain.ts.                                     *)
(*                                                                         *)
(* Each call of audit() is a transaction of its own on a pooled            *)
(* connection: it takes a transaction-scoped advisory lock, reads the last *)
(* row, builds the chained entry and inserts it.  The row becomes visible, *)
(* and the lock is freed, when the transaction commits.  A call may fail   *)
(* at any await, which rolls the transaction back.  The verifier reads the *)
(* table page by page, in separate statements, while appends go on.        *)
(***************************************************************************)
EXTENDS Naturals, Sequences

CONSTANTS
  Appenders,   \* concurrent calls of audit()
  Fields,      \* what a caller records: actor, action, subject, detail
  Page,        \* rows the verifier reads in one statement
  MaxLog,      \* bound: no append starts on a log this long
  NoOne        \* the advisory lock is free

ASSUME AuditConstants ==
  /\ Page \in Nat \ {0}
  /\ MaxLog \in Nat
  /\ NoOne \notin Appenders

VARIABLES
  log,        \* the committed rows of audit_log, by ascending seq
  advisory,   \* the call that holds the advisory lock, or NoOne
  pc,         \* where each call of audit() is
  entry,      \* the row each call has built from the last row it read
  verifier    \* the local variables of verifyAuditChain()

vars == <<log, advisory, pc, entry, verifier>>

(***************************************************************************)
(* The hash chain.  SHA-256 is taken as injective: a hash is the sequence  *)
(* of all that was hashed into it since the genesis constant.              *)
(***************************************************************************)
Genesis == << >>

Hash(prev, seq, fields) == Append(prev, <<seq, fields>>)

Hashes == Seq(Nat \X Fields)

Rows == [seq : Nat, fields : Fields, prev : Hashes, hash : Hashes]

ChainEntry(prev, seq, fields) ==
  [seq |-> seq, fields |-> fields, prev |-> prev,
   hash |-> Hash(prev, seq, fields)]

\* The entry a call builds after reading the last committed row of rows.
NextEntry(rows, fields) ==
  IF rows = << >>
  THEN ChainEntry(Genesis, 1, fields)
  ELSE ChainEntry(rows[Len(rows)].hash, rows[Len(rows)].seq + 1, fields)

\* The three checks on a row, given the hash and the seq of the row before it.
RowVerifies(e, expectedPrev, prevSeq) ==
  /\ e.seq > prevSeq
  /\ e.prev = expectedPrev
  /\ Hash(e.prev, e.seq, e.fields) = e.hash

\* Row i of rows, checked against the row before it, which for the first row
\* is what the verifier carries over from the page before.
Links(rows, i, expectedPrev, prevSeq) ==
  IF i = 1
  THEN RowVerifies(rows[1], expectedPrev, prevSeq)
  ELSE RowVerifies(rows[i], rows[i - 1].hash, rows[i - 1].seq)

NoEntry == [seq |-> 0, fields |-> NoOne, prev |-> Genesis, hash |-> Genesis]

Idle == [state |-> "idle", offset |-> 0, count |-> 0,
         expectedPrev |-> Genesis, prevSeq |-> 0, atStart |-> 0]

Init ==
  /\ log = << >>
  /\ advisory = NoOne
  /\ pc = [a \in Appenders |-> "idle"]
  /\ entry = [a \in Appenders |-> NoEntry]
  /\ verifier = Idle

-----------------------------------------------------------------------------
(***************************************************************************)
(* audit()                                                                 *)
(***************************************************************************)

Begin(a) ==
  /\ pc[a] = "idle"
  /\ Len(log) < MaxLog
  /\ pc' = [pc EXCEPT ![a] = "queued"]
  /\ UNCHANGED <<log, advisory, entry, verifier>>

LockIgnored(a) ==
  /\ pc[a] = "queued"
  /\ advisory' = a
  /\ pc' = [pc EXCEPT ![a] = "locked"]
  /\ UNCHANGED <<log, entry, verifier>>

\* pg_advisory_xact_lock waits until the lock is free.
Lock(a) ==
  /\ pc[a] = "queued"
  /\ advisory = NoOne
  /\ advisory' = a
  /\ pc' = [pc EXCEPT ![a] = "locked"]
  /\ UNCHANGED <<log, entry, verifier>>

\* SELECT the last row and INSERT the entry chained to it; the row is not
\* visible to anyone else before the commit.
ReadAndInsert(a) ==
  /\ pc[a] = "locked"
  /\ \E f \in Fields : entry' = [entry EXCEPT ![a] = NextEntry(log, f)]
  /\ pc' = [pc EXCEPT ![a] = "inserted"]
  /\ UNCHANGED <<log, advisory, verifier>>

Commit(a) ==
  /\ pc[a] = "inserted"
  /\ log' = Append(log, entry[a])
  /\ advisory' = NoOne
  /\ pc' = [pc EXCEPT ![a] = "idle"]
  /\ entry' = [entry EXCEPT ![a] = NoEntry]
  /\ UNCHANGED verifier

RollbackKeepsLock(a) ==
  /\ pc[a] \in {"queued", "locked", "inserted"}
  /\ pc' = [pc EXCEPT ![a] = "idle"]
  /\ entry' = [entry EXCEPT ![a] = NoEntry]
  /\ UNCHANGED <<log, advisory, verifier>>

\* An await of the call throws: ROLLBACK, which frees the lock if it was held.
Rollback(a) ==
  /\ pc[a] \in {"queued", "locked", "inserted"}
  /\ advisory' = IF advisory = a THEN NoOne ELSE advisory
  /\ pc' = [pc EXCEPT ![a] = "idle"]
  /\ entry' = [entry EXCEPT ![a] = NoEntry]
  /\ UNCHANGED <<log, verifier>>

-----------------------------------------------------------------------------
(***************************************************************************)
(* verifyAuditChain()                                                      *)
(***************************************************************************)

StartVerify ==
  /\ verifier.state # "reading"
  /\ verifier' = [Idle EXCEPT !.state = "reading", !.atStart = Len(log)]
  /\ UNCHANGED <<log, advisory, pc, entry>>

\* One SELECT ... LIMIT Page OFFSET offset.
PageAt(offset) ==
  SubSeq(log, offset + 1, IF offset + Page < Len(log) THEN offset + Page ELSE Len(log))

\* A page that is not full is the last one.
LastPageTooSoon(rows) == Len(rows) <= Page

LastPage(rows) == Len(rows) < Page

ReadPage ==
  /\ verifier.state = "reading"
  /\ LET rows == PageAt(verifier.offset)
         n    == Len(rows)
     IN  verifier' =
           IF n = 0 THEN [verifier EXCEPT !.state = "valid"]
           ELSE IF \E i \in 1..n :
                     ~ Links(rows, i, verifier.expectedPrev, verifier.prevSeq)
           THEN [verifier EXCEPT !.state = "broken"]
           ELSE [verifier EXCEPT
                   !.state = IF LastPage(rows) THEN "valid" ELSE "reading",
                   !.offset = @ + Page,
                   !.count = @ + n,
                   !.expectedPrev = rows[n].hash,
                   !.prevSeq = rows[n].seq]
  /\ UNCHANGED <<log, advisory, pc, entry>>

-----------------------------------------------------------------------------
Next ==
  \/ \E a \in Appenders :
       Begin(a) \/ Lock(a) \/ ReadAndInsert(a) \/ Commit(a) \/ Rollback(a)
  \/ StartVerify
  \/ ReadPage

Spec == Init /\ [][Next]_vars

\* The event loop runs every continuation, and Postgres grants a lock that
\* is free again and again to each call that waits for it.
FairSpec ==
  /\ Spec
  /\ \A a \in Appenders :
       WF_vars(ReadAndInsert(a)) /\ WF_vars(Commit(a)) /\ SF_vars(Lock(a))

-----------------------------------------------------------------------------
(***************************************************************************)
(* Properties                                                              *)
(***************************************************************************)

\* Every variable of the audit log stays within its type, and the lock is
\* held exactly by the one call that is between its lock and its commit.
TypeOK ==
  /\ log \in Seq(Rows)
  /\ advisory \in Appenders \union {NoOne}
  /\ pc \in [Appenders -> {"idle", "queued", "locked", "inserted"}]
  /\ entry \in [Appenders -> Rows \union {NoEntry}]
  /\ verifier \in [state : {"idle", "reading", "valid", "broken"},
                    offset : Nat, count : Nat, expectedPrev : Hashes,
                    prevSeq : Nat, atStart : Nat]
  /\ \A a \in Appenders :
       /\ advisory = a <=> pc[a] \in {"locked", "inserted"}
       /\ pc[a] = "inserted" => entry[a] \in Rows

\* However calls of audit() interleave and fail, the committed rows form one
\* chain from the genesis hash: no fork, no reused seq, no stale prevHash.
ChainHolds == \A i \in 1..Len(log) : Links(log, i, Genesis, 0)

\* verifyAuditChain() never reports a broken entry in a log that only
\* audit() wrote, even when entries are appended between its page reads.
VerifierNeverAccuses == verifier.state # "broken"

\* When verifyAuditChain() answers "valid" it has checked at least every
\* entry that was in the log when it started: paging skips no row.
VerdictCoversStart == verifier.state = "valid" => verifier.count >= verifier.atStart

\* A call of audit() that has begun returns or throws: no failed call keeps
\* the advisory lock and starves the others.
AppendSettles == \A a \in Appenders : pc[a] = "queued" ~> pc[a] = "idle"
=============================================================================
