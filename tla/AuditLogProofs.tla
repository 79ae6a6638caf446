--------------------------- MODULE AuditLogProofs ---------------------------
(***************************************************************************)
(* Proofs about AuditLog for any number of callers, any page size and any  *)
(* log length: the types, the hash chain, and what the verifier's verdict  *)
(* says and covers.                                                        *)
(*                                                                         *)
(* The chain is not inductive by itself.  Inv adds that the call that      *)
(* holds the advisory lock has built its entry from the last committed     *)
(* row, and that the verifier carries over the hash and the seq of the     *)
(* last row it has checked.                                                *)
(***************************************************************************)
EXTENDS AuditLog, SequenceTheorems, TLAPS

\* The entry a call is about to commit continues the log.
PendingContinues ==
  \A a \in Appenders : pc[a] = "inserted" =>
    \E f \in Fields : entry[a] = NextEntry(log, f)

\* What the verifier carries from one page to the next.
VerifierCarries ==
  verifier.state = "reading" =>
    IF verifier.offset = 0
    THEN verifier.expectedPrev = Genesis /\ verifier.prevSeq = 0
    ELSE /\ verifier.offset <= Len(log)
         /\ verifier.expectedPrev = log[verifier.offset].hash
         /\ verifier.prevSeq = log[verifier.offset].seq

Inv == TypeOK /\ ChainHolds /\ PendingContinues /\ VerifierNeverAccuses /\ VerifierCarries

(***************************************************************************)
(* Lemmas about the chain.                                                 *)
(***************************************************************************)

\* The entry built from well-typed rows is a well-typed row.
LEMMA NextEntryType ==
  ASSUME NEW rows \in Seq(Rows), NEW f \in Fields
  PROVE  NextEntry(rows, f) \in Rows
<1>1. CASE rows = << >>
  BY <1>1, SMT DEF NextEntry, ChainEntry, Hash, Genesis, Hashes, Rows
<1>2. CASE rows # << >>
  <2>1. rows[Len(rows)] \in Rows
    BY <1>2
  <2>2. rows[Len(rows)].hash \in Hashes /\ rows[Len(rows)].seq \in Nat
    BY <2>1 DEF Rows
  <2> DEFINE h == rows[Len(rows)].hash
             s == rows[Len(rows)].seq + 1
  <2>3. h \in Seq(Nat \X Fields) /\ s \in Nat /\ <<s, f>> \in Nat \X Fields
    BY <2>2 DEF Hashes
  <2> HIDE DEF h, s
  <2>4. Append(h, <<s, f>>) \in Seq(Nat \X Fields)
    BY <2>3
  <2>5. NextEntry(rows, f) = [seq |-> s, fields |-> f, prev |-> h, hash |-> Append(h, <<s, f>>)]
    BY <1>2 DEF NextEntry, ChainEntry, Hash, h, s
  <2> QED BY <2>3, <2>4, <2>5 DEF Rows, Hashes
<1> QED BY <1>1, <1>2

\* Appending the entry built from a chained log gives a chained log.
LEMMA AppendKeepsChain ==
  ASSUME NEW rows \in Seq(Rows), NEW f \in Fields,
         \A i \in 1..Len(rows) : Links(rows, i, Genesis, 0)
  PROVE  \A i \in 1..Len(Append(rows, NextEntry(rows, f))) :
           Links(Append(rows, NextEntry(rows, f)), i, Genesis, 0)
<1> DEFINE e == NextEntry(rows, f)
           longer == Append(rows, e)
<1>1. e \in Rows
  BY NextEntryType
<1>2. /\ Len(longer) = Len(rows) + 1
      /\ \A j \in 1..Len(rows) : longer[j] = rows[j]
      /\ longer[Len(rows) + 1] = e
  BY <1>1
<1> SUFFICES ASSUME NEW i \in 1..Len(longer)
             PROVE  Links(longer, i, Genesis, 0)
  OBVIOUS
<1>3. CASE i \in 1..Len(rows)
  BY <1>2, <1>3, Links(rows, i, Genesis, 0) DEF Links
<1>4. CASE i = Len(rows) + 1 /\ rows = << >>
  <2>1. i = 1 /\ longer[1] = ChainEntry(Genesis, 1, f)
    BY <1>2, <1>4 DEF NextEntry
  <2> QED BY <2>1 DEF Links, RowVerifies, ChainEntry
<1>5. CASE i = Len(rows) + 1 /\ rows # << >>
  <2> DEFINE l == rows[Len(rows)]
  <2>0. Len(rows) \in Nat /\ Len(rows) # 0 /\ l \in Rows
    BY <1>5
  <2>1. Len(rows) \in 1..Len(rows) /\ i # 1 /\ i - 1 = Len(rows)
    BY <1>5, <2>0
  <2>2. longer[i] = ChainEntry(l.hash, l.seq + 1, f)
    <3>1. e = ChainEntry(l.hash, l.seq + 1, f)
      BY <1>5 DEF NextEntry
    <3> QED BY <1>2, <1>5, <3>1
  <2>3. longer[i - 1] = l
    BY <1>2, <2>1
  <2> HIDE DEF l, longer
  <2>4. l.seq \in Nat
    BY <2>0 DEF Rows
  <2>5. RowVerifies(longer[i], l.hash, l.seq)
    BY <2>2, <2>4 DEF RowVerifies, ChainEntry
  <2> QED BY <2>1, <2>3, <2>5 DEF Links
<1> QED BY <1>2, <1>3, <1>4, <1>5

\* What the verifier reads in one statement are the rows after its offset.
LEMMA PageShape ==
  ASSUME log \in Seq(Rows), NEW o \in Nat
  PROVE  /\ PageAt(o) \in Seq(Rows)
         /\ Len(PageAt(o)) \in Nat
         /\ o + Len(PageAt(o)) <= Len(log) \/ Len(PageAt(o)) = 0
         /\ \A j \in 1..Len(PageAt(o)) : o + j \in 1..Len(log) /\ PageAt(o)[j] = log[o + j]
         /\ ~ LastPage(PageAt(o)) => Len(PageAt(o)) = Page
<1> DEFINE last == IF o + Page < Len(log) THEN o + Page ELSE Len(log)
           m == o + 1
<1>1. Len(log) \in Nat /\ Page \in Nat \ {0}
  BY AuditConstants
<1>2. m \in Int /\ m >= 1 /\ last \in Int /\ last <= Len(log) /\ last - o <= Page
  BY <1>1
<1>3. \A k \in m..last : log[k] \in Rows
  BY <1>1, <1>2
<1>4. PageAt(o) = SubSeq(log, m, last)
  BY DEF PageAt
<1> HIDE DEF last, m
<1>5. /\ SubSeq(log, m, last) \in Seq(Rows)
      /\ Len(SubSeq(log, m, last)) = IF m <= last THEN last - m + 1 ELSE 0
      /\ \A j \in 1..(last - m + 1) : SubSeq(log, m, last)[j] = log[m + j - 1]
  BY <1>2, <1>3, SubSeqProperties
<1>6. CASE m <= last
  <2>1. Len(PageAt(o)) = last - o
    BY <1>2, <1>4, <1>5, <1>6 DEF m
  <2>2. \A j \in 1..(last - o) : PageAt(o)[j] = log[o + j]
    BY <1>2, <1>4, <1>5 DEF m
  <2> QED BY <1>1, <1>2, <1>4, <1>5, <1>6, <2>1, <2>2 DEF LastPage, m
<1>7. CASE ~ (m <= last)
  <2>1. Len(PageAt(o)) = 0
    BY <1>4, <1>5, <1>7
  <2> QED BY <1>1, <1>4, <1>5, <2>1 DEF LastPage
<1> QED BY <1>6, <1>7

\* A page of a chained log passes the verifier's checks when the verifier
\* carries over the row before the page.
LEMMA PageVerifies ==
  ASSUME TypeOK, ChainHolds, VerifierCarries, verifier.state = "reading",
         NEW i \in 1..Len(PageAt(verifier.offset))
  PROVE  Links(PageAt(verifier.offset), i, verifier.expectedPrev, verifier.prevSeq)
<1> DEFINE o == verifier.offset
           rows == PageAt(o)
<1>1. o \in Nat /\ log \in Seq(Rows) /\ Len(log) \in Nat
  BY DEF TypeOK
<1>2. /\ Len(rows) \in Nat
      /\ \A j \in 1..Len(rows) : o + j \in 1..Len(log) /\ rows[j] = log[o + j]
  BY <1>1, PageShape
<1> HIDE DEF o, rows
<1>3. i \in 1..Len(rows)
  BY DEF rows, o
<1>4. rows[i] = log[o + i] /\ o + i \in 1..Len(log)
  BY <1>2, <1>3
<1>5. verifier.offset = o /\ PageAt(verifier.offset) = rows
  BY DEF rows, o
<1>6. Links(log, o + i, Genesis, 0)
  BY <1>4 DEF ChainHolds
<1>7. CASE i = 1 /\ o = 0
  BY <1>4, <1>5, <1>6, <1>7 DEF Links, VerifierCarries
<1>8. CASE i = 1 /\ o # 0
  <2>1. o + 1 # 1 /\ (o + 1) - 1 = o
    BY <1>1, <1>8
  <2>2. RowVerifies(log[o + 1], log[o].hash, log[o].seq)
    BY <1>6, <1>8, <2>1 DEF Links
  <2> QED BY <1>4, <1>5, <1>8, <2>2 DEF Links, VerifierCarries
<1>9. CASE i # 1
  <2>1. /\ o + i # 1
        /\ i - 1 \in 1..Len(rows)
        /\ (o + i) - 1 = o + (i - 1)
    BY <1>1, <1>2, <1>3, <1>9
  <2>2. rows[i - 1] = log[o + (i - 1)]
    BY <1>2, <2>1
  <2>3. RowVerifies(log[o + i], log[o + (i - 1)].hash, log[o + (i - 1)].seq)
    BY <1>6, <2>1 DEF Links
  <2> QED BY <1>4, <1>5, <1>9, <2>2, <2>3 DEF Links
<1> QED BY <1>7, <1>8, <1>9

(***************************************************************************)
(* The types.                                                              *)
(***************************************************************************)

\* The advisory lock is held by at most one call, so it is nobody else's.
LEMMA TypeStep == TypeOK /\ [Next]_vars => TypeOK'
<1> SUFFICES ASSUME TypeOK, [Next]_vars PROVE TypeOK'
  OBVIOUS
<1> USE AuditConstants
<1>1. ASSUME NEW a \in Appenders, Begin(a) PROVE TypeOK'
  BY <1>1 DEF TypeOK, Begin
<1>2. ASSUME NEW a \in Appenders, Lock(a) PROVE TypeOK'
  BY <1>2 DEF TypeOK, Lock
<1>3. ASSUME NEW a \in Appenders, ReadAndInsert(a) PROVE TypeOK'
  <2>1. PICK f \in Fields : entry' = [entry EXCEPT ![a] = NextEntry(log, f)]
    BY <1>3 DEF ReadAndInsert
  <2>2. NextEntry(log, f) \in Rows
    BY NextEntryType DEF TypeOK
  <2>3. entry' \in [Appenders -> Rows \union {NoEntry}]
    BY <2>1, <2>2 DEF TypeOK
  <2>4. pc[a] = "locked" /\ pc' = [pc EXCEPT ![a] = "inserted"]
    BY <1>3 DEF ReadAndInsert
  <2> HIDE DEF Rows
  <2>5. ASSUME NEW b \in Appenders
        PROVE  /\ advisory' = b <=> pc'[b] \in {"locked", "inserted"}
               /\ pc'[b] = "inserted" => entry'[b] \in Rows
    BY <1>3, <2>1, <2>2, <2>4 DEF TypeOK, ReadAndInsert
  <2>6. /\ pc' \in [Appenders -> {"idle", "queued", "locked", "inserted"}]
        /\ log' = log /\ advisory' = advisory /\ verifier' = verifier
    BY <1>3, <2>4 DEF TypeOK, ReadAndInsert
  <2> QED BY <2>3, <2>5, <2>6 DEF TypeOK
<1>4. ASSUME NEW a \in Appenders, Commit(a) PROVE TypeOK'
  <2>1. entry[a] \in Rows
    BY <1>4 DEF TypeOK, Commit
  <2>2. log \in Seq(Rows) /\ log' = Append(log, entry[a])
    BY <1>4 DEF TypeOK, Commit
  <2> HIDE DEF Rows
  <2>3. log' \in Seq(Rows)
    BY <2>1, <2>2
  <2>4. /\ advisory' \in Appenders \union {NoOne}
        /\ pc' \in [Appenders -> {"idle", "queued", "locked", "inserted"}]
        /\ entry' \in [Appenders -> Rows \union {NoEntry}]
        /\ verifier' = verifier
    BY <1>4 DEF TypeOK, Commit
  <2>5. ASSUME NEW b \in Appenders
        PROVE  /\ advisory' = b <=> pc'[b] \in {"locked", "inserted"}
               /\ pc'[b] = "inserted" => entry'[b] \in Rows
    BY <1>4 DEF TypeOK, Commit
  <2> QED BY <2>3, <2>4, <2>5 DEF TypeOK
<1>5. ASSUME NEW a \in Appenders, Rollback(a) PROVE TypeOK'
  BY <1>5 DEF TypeOK, Rollback
<1>6. CASE StartVerify
  <2>1. Genesis \in Hashes
    BY DEF Genesis, Hashes
  <2>2. Len(log) \in Nat
    BY DEF TypeOK
  <2>3. verifier' = [state |-> "reading", offset |-> 0, count |-> 0,
                     expectedPrev |-> Genesis, prevSeq |-> 0, atStart |-> Len(log)]
    BY <1>6 DEF StartVerify, Idle
  <2> QED BY <1>6, <2>1, <2>2, <2>3 DEF TypeOK, StartVerify
<1>7. CASE ReadPage
  <2> DEFINE rows == PageAt(verifier.offset)
  <2>1. rows \in Seq(Rows)
    BY PageShape DEF TypeOK
  <2>2. CASE Len(rows) = 0
    BY <1>7, <2>2 DEF TypeOK, ReadPage
  <2>3. CASE Len(rows) # 0
    <3>1. Len(rows) \in Nat /\ rows[Len(rows)] \in Rows
      BY <2>1, <2>3
    <3>2. rows[Len(rows)].hash \in Hashes /\ rows[Len(rows)].seq \in Nat
      BY <3>1 DEF Rows
    <3>3. verifier.offset + Page \in Nat /\ verifier.count + Len(rows) \in Nat
      BY <3>1 DEF TypeOK
    <3> HIDE DEF rows
    <3> QED BY <1>7, <2>3, <3>2, <3>3 DEF TypeOK, ReadPage, rows
  <2> QED BY <2>2, <2>3
<1>8. CASE UNCHANGED vars
  BY <1>8 DEF TypeOK, vars
<1> QED BY <1>1, <1>2, <1>3, <1>4, <1>5, <1>6, <1>7, <1>8 DEF Next

\* The variables stay within their types.
THEOREM TypeCorrect == Spec => []TypeOK
<1>1. Init => TypeOK
  BY AuditConstants DEF Init, TypeOK, Idle, NoEntry, Genesis, Hashes
<1> QED BY <1>1, TypeStep, PTL DEF Spec

(***************************************************************************)
(* The inductive invariant, one step per action.                           *)
(***************************************************************************)

LEMMA InitInv == Init => Inv
<1> SUFFICES ASSUME Init PROVE Inv
  OBVIOUS
<1>1. TypeOK
  BY AuditConstants DEF Init, TypeOK, Idle, NoEntry, Genesis, Hashes
<1>2. ChainHolds
  BY DEF Init, ChainHolds
<1> QED BY <1>1, <1>2 DEF Init, Inv, PendingContinues, VerifierNeverAccuses, VerifierCarries, Idle

\* The steps that change neither the log nor a row about to be committed.
LEMMA QuietStep ==
  ASSUME Inv, log' = log, verifier' = verifier,
         \A a \in Appenders : pc'[a] = "inserted" => pc[a] = "inserted" /\ entry'[a] = entry[a]
  PROVE  ChainHolds' /\ PendingContinues' /\ VerifierNeverAccuses' /\ VerifierCarries'
<1>1. ChainHolds' /\ VerifierNeverAccuses' /\ VerifierCarries'
  BY DEF Inv, ChainHolds, VerifierNeverAccuses, VerifierCarries
<1>2. PendingContinues'
  BY DEF Inv, PendingContinues
<1> QED BY <1>1, <1>2

\* A row built from the last committed row continues the log.
LEMMA InsertStep ==
  ASSUME Inv, NEW a \in Appenders, ReadAndInsert(a)
  PROVE  ChainHolds' /\ PendingContinues' /\ VerifierNeverAccuses' /\ VerifierCarries'
<1>1. log' = log /\ verifier' = verifier
  BY DEF ReadAndInsert
<1>2. ChainHolds' /\ VerifierNeverAccuses' /\ VerifierCarries'
  BY <1>1 DEF Inv, ChainHolds, VerifierNeverAccuses, VerifierCarries
<1>3. PICK f \in Fields : entry' = [entry EXCEPT ![a] = NextEntry(log, f)]
  BY DEF ReadAndInsert
<1>4. pc' = [pc EXCEPT ![a] = "inserted"]
  BY DEF ReadAndInsert
<1>5. PendingContinues'
  <2> SUFFICES ASSUME NEW b \in Appenders, pc'[b] = "inserted"
               PROVE  \E g \in Fields : entry'[b] = NextEntry(log', g)
    BY DEF PendingContinues
  <2>1. CASE b = a
    BY <1>1, <1>3, <2>1 DEF Inv, TypeOK
  <2>2. CASE b # a
    <3>1. pc[b] = "inserted" /\ entry'[b] = entry[b]
      BY <1>3, <1>4, <2>2 DEF Inv, TypeOK
    <3> QED BY <1>1, <3>1 DEF Inv, PendingContinues
  <2> QED BY <2>1, <2>2
<1> QED BY <1>2, <1>5

\* The committed row extends the chain, no other call has a row pending,
\* because only the holder of the lock has one, and the rows the verifier has
\* passed stay where they were.
LEMMA CommitStep ==
  ASSUME Inv, NEW a \in Appenders, Commit(a)
  PROVE  ChainHolds' /\ PendingContinues' /\ VerifierNeverAccuses' /\ VerifierCarries'
<1>1. pc[a] = "inserted" /\ log' = Append(log, entry[a]) /\ verifier' = verifier
  BY DEF Commit
<1>2. log \in Seq(Rows) /\ entry[a] \in Rows
  BY <1>1 DEF Inv, TypeOK
<1>3. PICK f \in Fields : entry[a] = NextEntry(log, f)
  BY <1>1 DEF Inv, PendingContinues
<1>4. ChainHolds'
  <2>1. \A i \in 1..Len(log) : Links(log, i, Genesis, 0)
    BY DEF Inv, ChainHolds
  <2>2. log' = Append(log, NextEntry(log, f))
    BY <1>1, <1>3
  <2>3. \A i \in 1..Len(log') : Links(log', i, Genesis, 0)
    BY <1>2, <2>1, <2>2, AppendKeepsChain
  <2> QED BY <2>3 DEF ChainHolds
<1>5. PendingContinues'
  <2>1. \A b \in Appenders : pc'[b] # "inserted"
    BY DEF Commit, Inv, TypeOK
  <2> QED BY <2>1 DEF PendingContinues
<1>6. VerifierNeverAccuses'
  BY <1>1 DEF Inv, VerifierNeverAccuses
<1>7. VerifierCarries'
  <2> DEFINE o == verifier.offset
  <2>1. o \in Nat
    BY DEF Inv, TypeOK
  <2> HIDE DEF Rows
  <2>2. Len(log') = Len(log) + 1 /\ \A j \in 1..Len(log) : log'[j] = log[j]
    BY <1>1, <1>2
  <2>3. o # 0 /\ o <= Len(log) => o <= Len(log') /\ log'[o] = log[o]
    BY <1>2, <2>1, <2>2
  <2> QED BY <1>1, <2>3 DEF Inv, VerifierCarries
<1> QED BY <1>4, <1>5, <1>6, <1>7

\* A page verifies, and a full page ends where the next one starts.
LEMMA ReadPageStep ==
  ASSUME Inv, ReadPage
  PROVE  ChainHolds' /\ PendingContinues' /\ VerifierNeverAccuses' /\ VerifierCarries'
<1> DEFINE o == verifier.offset
           rows == PageAt(o)
<1>1. UNCHANGED <<log, advisory, pc, entry>> /\ verifier.state = "reading"
  BY DEF ReadPage
<1>2. ChainHolds' /\ PendingContinues'
  BY <1>1 DEF Inv, ChainHolds, PendingContinues
<1>3. \A i \in 1..Len(rows) : Links(rows, i, verifier.expectedPrev, verifier.prevSeq)
  BY <1>1, PageVerifies DEF Inv
<1>4. /\ o \in Nat /\ Len(rows) \in Nat
      /\ o + Len(rows) <= Len(log) \/ Len(rows) = 0
      /\ \A j \in 1..Len(rows) : rows[j] = log[o + j]
      /\ ~ LastPage(rows) => Len(rows) = Page
  BY PageShape DEF Inv, TypeOK
<1>5. verifier' =
        IF Len(rows) = 0 THEN [verifier EXCEPT !.state = "valid"]
        ELSE [verifier EXCEPT
                !.state = IF LastPage(rows) THEN "valid" ELSE "reading",
                !.offset = @ + Page,
                !.count = @ + Len(rows),
                !.expectedPrev = rows[Len(rows)].hash,
                !.prevSeq = rows[Len(rows)].seq]
  BY <1>3 DEF ReadPage
<1> HIDE DEF o, rows
<1>6. VerifierNeverAccuses'
  BY <1>5 DEF VerifierNeverAccuses, Inv, TypeOK
<1>7. VerifierCarries'
  <2> SUFFICES ASSUME verifier'.state = "reading"
               PROVE  /\ verifier'.offset # 0
                      /\ verifier'.offset <= Len(log')
                      /\ verifier'.expectedPrev = log'[verifier'.offset].hash
                      /\ verifier'.prevSeq = log'[verifier'.offset].seq
    BY DEF VerifierCarries
  <2>1. Len(rows) # 0 /\ ~ LastPage(rows)
    BY <1>5 DEF Inv, TypeOK
  <2>2. /\ verifier'.offset = o + Page
        /\ verifier'.expectedPrev = rows[Len(rows)].hash
        /\ verifier'.prevSeq = rows[Len(rows)].seq
    BY <1>5, <2>1 DEF Inv, TypeOK, o
  <2>3. Len(rows) = Page /\ Len(rows) \in 1..Len(rows)
    BY <1>4, <2>1
  <2>4. rows[Len(rows)] = log[o + Page] /\ o + Page <= Len(log) /\ o + Page # 0
    BY <1>4, <2>1, <2>3
  <2> QED BY <1>1, <2>2, <2>4
<1> QED BY <1>2, <1>6, <1>7

LEMMA InvStep == Inv /\ [Next]_vars => Inv'
<1> SUFFICES ASSUME Inv, [Next]_vars PROVE Inv'
  OBVIOUS
<1>1. TypeOK'
  BY TypeStep DEF Inv
<1> SUFFICES ChainHolds' /\ PendingContinues' /\ VerifierNeverAccuses' /\ VerifierCarries'
  BY <1>1 DEF Inv
<1>2. ASSUME NEW a \in Appenders, Begin(a)
      PROVE  ChainHolds' /\ PendingContinues' /\ VerifierNeverAccuses' /\ VerifierCarries'
  BY <1>2, QuietStep DEF Begin, Inv, TypeOK
<1>3. ASSUME NEW a \in Appenders, Lock(a)
      PROVE  ChainHolds' /\ PendingContinues' /\ VerifierNeverAccuses' /\ VerifierCarries'
  BY <1>3, QuietStep DEF Lock, Inv, TypeOK
<1>4. ASSUME NEW a \in Appenders, Rollback(a)
      PROVE  ChainHolds' /\ PendingContinues' /\ VerifierNeverAccuses' /\ VerifierCarries'
  BY <1>4, QuietStep DEF Rollback, Inv, TypeOK
<1>5. CASE StartVerify
  BY <1>5 DEF StartVerify, Inv, ChainHolds, PendingContinues,
              VerifierNeverAccuses, VerifierCarries, Idle
<1>6. CASE UNCHANGED vars
  BY <1>6, QuietStep DEF vars
<1> QED BY <1>2, <1>3, <1>4, <1>5, <1>6, InsertStep, CommitStep, ReadPageStep DEF Next

\* Appends that interleave and fail in any order leave one chain from the
\* genesis hash.
THEOREM ChainAlwaysHolds == Spec => []ChainHolds
<1>1. Inv => ChainHolds
  BY DEF Inv
<1> QED BY <1>1, InitInv, InvStep, PTL DEF Spec

\* The verifier never reports a broken entry in a log that only audit() wrote.
THEOREM VerifierIsSound == Spec => []VerifierNeverAccuses
<1>1. Inv => VerifierNeverAccuses
  BY DEF Inv
<1> QED BY <1>1, InitInv, InvStep, PTL DEF Spec

(***************************************************************************)
(* What the verdict covers.                                                *)
(***************************************************************************)

\* The verifier has counted the rows before its offset, and the log has not
\* become shorter than it was when the verifier started.
VerifierCounts ==
  /\ verifier.state = "reading" =>
       verifier.count = verifier.offset /\ verifier.atStart <= Len(log)
  /\ verifier.state = "valid" => verifier.count >= verifier.atStart

\* A page that is not full ends where the log ends, or starts behind it.
LEMMA LastPageEnds ==
  ASSUME log \in Seq(Rows), NEW o \in Nat, LastPage(PageAt(o))
  PROVE  o + Len(PageAt(o)) >= Len(log)
<1> DEFINE last == IF o + Page < Len(log) THEN o + Page ELSE Len(log)
           m == o + 1
<1>1. Len(log) \in Nat /\ Page \in Nat \ {0}
  BY AuditConstants
<1>2. m \in Int /\ m >= 1 /\ last \in Int /\ last <= Len(log)
  BY <1>1
<1>3. \A k \in m..last : log[k] \in Rows
  BY <1>1, <1>2
<1>4. PageAt(o) = SubSeq(log, m, last)
  BY DEF PageAt
<1> HIDE DEF last, m
<1>5. Len(SubSeq(log, m, last)) = IF m <= last THEN last - m + 1 ELSE 0
  BY <1>2, <1>3, SubSeqProperties
<1>6. CASE m <= last
  <2>1. Len(PageAt(o)) = last - o
    BY <1>2, <1>4, <1>5, <1>6 DEF m
  <2>2. last - o < Page
    BY <2>1 DEF LastPage
  <2>3. last = Len(log)
    BY <1>1, <2>2 DEF last
  <2> QED BY <1>1, <2>1, <2>3
<1>7. CASE ~ (m <= last)
  <2>1. Len(PageAt(o)) = 0
    BY <1>4, <1>5, <1>7
  <2>2. Len(log) <= o
    BY <1>1, <1>7 DEF m, last
  <2> QED BY <1>1, <2>1, <2>2
<1> QED BY <1>6, <1>7

\* The rows of a page are added to the count, and no row of the log is left
\* when the verifier stops.
LEMMA ReadPageCounts ==
  ASSUME Inv, VerifierCounts, ReadPage
  PROVE  VerifierCounts'
<1> DEFINE o == verifier.offset
           rows == PageAt(o)
<1>1. log' = log /\ verifier.state = "reading"
  BY DEF ReadPage
<1>2. log \in Seq(Rows) /\ o \in Nat /\ Len(log) \in Nat
  BY DEF Inv, TypeOK
<1>3. Len(rows) \in Nat /\ (~ LastPage(rows) => Len(rows) = Page)
  BY <1>2, PageShape
<1>4. LastPage(rows) => o + Len(rows) >= Len(log)
  BY <1>2, LastPageEnds
<1>5. \A i \in 1..Len(rows) : Links(rows, i, verifier.expectedPrev, verifier.prevSeq)
  BY <1>1, PageVerifies DEF Inv
<1>6. verifier' =
        IF Len(rows) = 0 THEN [verifier EXCEPT !.state = "valid"]
        ELSE [verifier EXCEPT
                !.state = IF LastPage(rows) THEN "valid" ELSE "reading",
                !.offset = @ + Page,
                !.count = @ + Len(rows),
                !.expectedPrev = rows[Len(rows)].hash,
                !.prevSeq = rows[Len(rows)].seq]
  BY <1>5 DEF ReadPage
<1>7. verifier.count = o /\ verifier.atStart \in Nat /\ verifier.atStart <= Len(log)
  BY <1>1 DEF VerifierCounts, Inv, TypeOK
<1> HIDE DEF o, rows
<1>8. CASE Len(rows) = 0
  <2>1. Len(rows) < Page
    BY <1>8, AuditConstants
  <2>2. o >= verifier.atStart
    BY <1>2, <1>4, <1>7, <1>8, <2>1 DEF LastPage
  <2> QED BY <1>6, <1>7, <1>8, <2>2 DEF VerifierCounts, Inv, TypeOK
<1>9. CASE Len(rows) # 0 /\ LastPage(rows)
  <2>1. /\ verifier'.state = "valid" /\ verifier'.atStart = verifier.atStart
        /\ verifier'.count = o + Len(rows)
    BY <1>6, <1>7, <1>9 DEF Inv, TypeOK
  <2> QED BY <1>2, <1>3, <1>4, <1>7, <1>9, <2>1 DEF VerifierCounts
<1>10. CASE Len(rows) # 0 /\ ~ LastPage(rows)
  <2>1. /\ verifier'.state = "reading" /\ verifier'.atStart = verifier.atStart
        /\ verifier'.count = o + Len(rows) /\ verifier'.offset = o + Page
    BY <1>6, <1>7, <1>10 DEF Inv, TypeOK, o
  <2> QED BY <1>1, <1>3, <1>7, <1>10, <2>1 DEF VerifierCounts
<1> QED BY <1>8, <1>9, <1>10

LEMMA VerifierCountsStep == Inv /\ VerifierCounts /\ [Next]_vars => VerifierCounts'
<1> SUFFICES ASSUME Inv, VerifierCounts, [Next]_vars PROVE VerifierCounts'
  OBVIOUS
<1>1. ASSUME verifier' = verifier, log' = log PROVE VerifierCounts'
  BY <1>1 DEF VerifierCounts
<1>2. ASSUME NEW a \in Appenders, Commit(a) PROVE VerifierCounts'
  <2>1. log' = Append(log, entry[a]) /\ verifier' = verifier /\ entry[a] \in Rows
    BY <1>2 DEF Commit, Inv, TypeOK
  <2> HIDE DEF Rows
  <2>2. Len(log') = Len(log) + 1 /\ Len(log) \in Nat
    BY <2>1 DEF Inv, TypeOK
  <2> QED BY <2>1, <2>2 DEF VerifierCounts, Inv, TypeOK
<1>3. CASE StartVerify
  BY <1>3 DEF StartVerify, Idle, VerifierCounts, Inv, TypeOK
<1> QED BY <1>1, <1>2, <1>3, ReadPageCounts
        DEF Next, vars, Begin, Lock, ReadAndInsert, Rollback

\* A verdict "valid" is about every entry the log had when the verifier
\* started, however many are appended between its pages.
THEOREM VerdictAlwaysCoversStart == Spec => []VerdictCoversStart
<1>1. Init => VerifierCounts
  BY DEF Init, VerifierCounts, Idle
<1>2. VerifierCounts => VerdictCoversStart
  BY DEF VerifierCounts, VerdictCoversStart
<1> QED BY <1>1, <1>2, InitInv, InvStep, VerifierCountsStep, PTL DEF Spec
=============================================================================
