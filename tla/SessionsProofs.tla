--------------------------- MODULE SessionsProofs ---------------------------
(***************************************************************************)
(* Proofs about Sessions for any number of devices, refreshes and          *)
(* decisions: type correctness, one active session (OneActive), refresh    *)
(* tokens that are exchanged once (RefreshOnce), signed-in devices whose   *)
(* tokens work (TokensWork), and approvals that free the delegation        *)
(* (ApprovalFrees).                                                        *)
(***************************************************************************)
EXTENDS Sessions, TLAPS

Holders == Devices \union Refreshes
Actors == Devices \union Refreshes \union Decisions

\* The token that a refresh has committed and not yet answered.
NextToken(f) == [session |-> token[f].session, gen |-> token[f].gen + 1]

\* No token is ahead of its session, and a token that has been exchanged is behind.
TokensKnown ==
  /\ \A o \in Holders : token[o] # NoToken =>
       token[o].session \in DOMAIN sessions /\ token[o].gen <= sessions[token[o].session].gen
  /\ \A t \in spent : t.session \in DOMAIN sessions /\ t.gen < sessions[t.session].gen

\* What a refresh has checked holds until it commits, and nobody has the new
\* token before the answer.
Refreshing ==
  \A f \in Refreshes :
    /\ pc[f] = "locked" =>
         Current(token[f]) /\ sessions[token[f].session].state # "revoked"
    /\ pc[f] = "rotated" =>
         /\ token[f].session \in DOMAIN sessions
         /\ sessions[token[f].session].gen = token[f].gen + 1
         /\ \A o \in Holders : token[o] # NextToken(f)
         /\ \A g \in Refreshes \ {f} :
              pc[g] = "rotated" => token[g].session # token[f].session

\* What a sign-in has read or created.  Nobody has a token of a new session.
SigningIn ==
  \A d \in Devices :
    /\ pc[d] = "blocked" => about[d] \in DOMAIN sessions
    /\ pc[d] = "issued" =>
         /\ about[d] \in DOMAIN sessions
         /\ sessions[about[d]].gen = 0
         /\ \A o \in Holders : token[o].session # about[d]
         /\ \A e \in Devices \ {d} : pc[e] = "issued" => about[e] # about[d]

\* A device that is signed in and waits for no refresh is alone with its token.
SignedInAlone ==
  \A d \in Devices : pc[d] = "in" =>
    Current(token[d]) /\ \A o \in Holders \ {d} : token[o] # token[d]

\* As long as sign-ins do not overlap, one at most is about to create a session,
\* and then there is no live one.
SignInsApart ==
  ~ overlapped =>
    /\ \A s, t \in Live : s = t
    /\ \A d \in Devices : pc[d] = "checked" =>
         Live = {} /\ \A e \in Devices : pc[e] = "checked" => e = d

Inv == TypeOK /\ TokensKnown /\ Refreshing /\ SigningIn /\ SignedInAlone /\ SignInsApart

-----------------------------------------------------------------------------
(***************************************************************************)
(* Types.                                                                  *)
(***************************************************************************)

LEMMA NoTokenType == NoToken \in Tokens /\ NoToken.session = 0
BY DEF NoToken, Tokens

LEMMA InitType == Init => TypeOK
<1> SUFFICES ASSUME Init PROVE TypeOK
  OBVIOUS
<1>1. pc \in [Actors -> Labels]
  BY DEF Init, Actors, Labels
<1>2. \A f \in Refreshes : pc[f] # "locked"
  BY SessionsConstants DEF Init
<1>3. sessions \in Seq(SessionRows) /\ relogins \in Seq(ReloginRows)
  BY DEF Init
<1>4. \A q \in DOMAIN relogins : FALSE
  BY DEF Init
<1>5. token \in [Holders -> Tokens]
  BY NoTokenType DEF Init, Holders
<1> QED
  BY <1>1, <1>2, <1>3, <1>4, <1>5 DEF Init, TypeOK, Actors, Holders

LEMMA RevokeRows ==
  ASSUME sessions \in Seq(SessionRows), NEW S, Revoke(S)
  PROVE  /\ sessions' \in Seq(SessionRows)
         /\ DOMAIN sessions' = DOMAIN sessions
         /\ \A s \in DOMAIN sessions :
              /\ sessions'[s].gen = sessions[s].gen
              /\ s \in S => sessions'[s].state = "revoked"
              /\ s \notin S => sessions'[s] = sessions[s]
<1>1. DOMAIN sessions = 1..Len(sessions) /\ Len(sessions) \in Nat
  OBVIOUS
<1>2. \A s \in DOMAIN sessions : sessions[s] \in SessionRows
  OBVIOUS
<1>3. \A s \in DOMAIN sessions : sessions'[s] \in SessionRows
  BY <1>2 DEF Revoke, SessionRows
<1>4. sessions' \in [1..Len(sessions) -> SessionRows]
  BY <1>1, <1>3 DEF Revoke
<1>5. sessions' \in Seq(SessionRows)
  BY <1>1, <1>4
<1> QED
  BY <1>1, <1>2, <1>5 DEF Revoke, SessionRows

\* A row that changes in place leaves a sequence of rows.
LEMMA RowChange ==
  ASSUME sessions \in Seq(SessionRows), NEW s \in DOMAIN sessions, NEW r \in SessionRows,
         sessions' = [sessions EXCEPT ![s] = r]
  PROVE  sessions' \in Seq(SessionRows) /\ DOMAIN sessions' = DOMAIN sessions
OBVIOUS

\* A new row leaves the others as they are.
LEMMA NewRow ==
  ASSUME sessions \in Seq(SessionRows), NEW r \in SessionRows,
         sessions' = Append(sessions, r)
  PROVE  /\ sessions' \in Seq(SessionRows)
         /\ Len(sessions) + 1 \notin DOMAIN sessions
         /\ DOMAIN sessions' = DOMAIN sessions \union {Len(sessions) + 1}
         /\ \A s \in DOMAIN sessions : sessions'[s] = sessions[s]
         /\ sessions'[Len(sessions) + 1] = r
OBVIOUS

\* The part of TypeOK that concerns one step alone.
Typed ==
  /\ pc \in [Actors -> Labels]
  /\ token \in [Holders -> Tokens]
  /\ about \in [Devices \union Decisions -> Nat]
  /\ caller \in [Refreshes -> Devices \union {NoOne}]
  /\ spent \subseteq Tokens
  /\ overlapped \in BOOLEAN

\* A step that locks no row, and leaves rows where they are, keeps the types.
LEMMA KeepsType ==
  ASSUME TypeOK, Typed',
         sessions' \in Seq(SessionRows), DOMAIN sessions \subseteq DOMAIN sessions',
         \/ UNCHANGED relogins
         \/ /\ relogins' \in Seq(ReloginRows)
            /\ \A q \in DOMAIN relogins' : relogins'[q].session \in DOMAIN sessions,
         \A f \in Refreshes : pc'[f] = "locked" => pc[f] = "locked" /\ token'[f] = token[f]
  PROVE  TypeOK'
<1>1. \A q \in DOMAIN relogins' : relogins'[q].session \in DOMAIN sessions'
  BY DEF TypeOK
<1>2. \A f, g \in Refreshes :
        pc'[f] = "locked" /\ pc'[g] = "locked" /\ f # g => token'[f].session # token'[g].session
  BY DEF TypeOK
<1>3. relogins' \in Seq(ReloginRows)
  BY DEF TypeOK
<1> QED
  BY <1>1, <1>2, <1>3 DEF Typed, TypeOK, Actors, Holders

\* The sets of actors are apart.
LEMMA ActorsApart ==
  /\ \A d \in Devices, f \in Refreshes : d # f
  /\ \A f \in Refreshes, c \in Decisions : f # c
  /\ \A d \in Devices, c \in Decisions : d # c
BY SessionsConstants

LEMMA SignInType ==
  ASSUME TypeOK, SigningIn, NEW d \in Devices, SignIn(d)
  PROVE  TypeOK'
<1>1. CASE FindNone(d)
  <2>1. Typed' /\ \A f \in Refreshes : pc'[f] = "locked" => pc[f] = "locked"
    BY <1>1, ActorsApart DEF FindNone, Step, TypeOK, Typed, Actors, Holders, Labels, history
  <2> QED BY <1>1, <2>1, KeepsType DEF FindNone, TypeOK, history
<1>2. CASE FindActive(d)
  <2>1. Live \subseteq Nat
    BY DEF TypeOK, Live
  <2>2. Typed' /\ \A f \in Refreshes : pc'[f] = "locked" => pc[f] = "locked"
    BY <1>2, <2>1, ActorsApart DEF FindActive, Step, TypeOK, Typed, Actors, Holders, Labels, history
  <2> QED BY <1>2, <2>2, KeepsType DEF FindActive, TypeOK
<1>3. CASE Blocked(d)
  <2>1. Typed' /\ \A f \in Refreshes : pc'[f] = "locked" => pc[f] = "locked"
    BY <1>3, ActorsApart DEF Blocked, Finish, Step, TypeOK, Typed, Actors, Holders, Labels, history
  <2> QED BY <1>3, <2>1, KeepsType DEF Blocked, TypeOK, history
<1>4. CASE RequestRelogin(d)
  <2>1. Typed' /\ \A f \in Refreshes : pc'[f] = "locked" => pc[f] = "locked"
    BY <1>4, ActorsApart DEF RequestRelogin, Finish, Step, TypeOK, Typed, Actors, Holders, Labels, history
  <2>2. about[d] \in DOMAIN sessions /\ about[d] \in Nat
    BY <1>4 DEF RequestRelogin, Finish, Step, SigningIn, TypeOK
  <2> DEFINE r == [state |-> "pending", session |-> about[d]]
  <2>3. r \in ReloginRows /\ relogins' = Append(relogins, r) /\ relogins \in Seq(ReloginRows)
    BY <1>4, <2>2 DEF RequestRelogin, ReloginRows, TypeOK
  <2>4. relogins' \in Seq(ReloginRows)
    BY <2>3
  <2>5. ASSUME NEW q \in DOMAIN relogins' PROVE relogins'[q].session \in DOMAIN sessions
    <3>1. CASE q \in DOMAIN relogins
      BY <2>3, <3>1 DEF TypeOK
    <3>2. CASE q \notin DOMAIN relogins
      BY <2>2, <2>3, <3>2
    <3> QED BY <3>1, <3>2
  <2> QED BY <1>4, <2>1, <2>4, <2>5, KeepsType DEF RequestRelogin, TypeOK, history
<1>5. CASE CreateSession(d)
  <2> DEFINE r == [state |-> "live", gen |-> 0]
  <2>1. r \in SessionRows /\ sessions' = Append(sessions, r) /\ sessions \in Seq(SessionRows)
    BY <1>5 DEF CreateSession, SessionRows, TypeOK
  <2>2. sessions' \in Seq(SessionRows) /\ DOMAIN sessions \subseteq DOMAIN sessions'
    BY <2>1, NewRow
  <2>3. Typed' /\ \A f \in Refreshes : pc'[f] = "locked" => pc[f] = "locked"
    BY <1>5, ActorsApart DEF CreateSession, Step, TypeOK, Typed, Actors, Holders, Labels, history
  <2> QED BY <1>5, <2>2, <2>3, KeepsType DEF CreateSession, TypeOK, history
<1>6. CASE SignedIn(d)
  <2>1. Typed' /\ \A f \in Refreshes : pc'[f] = "locked" => pc[f] = "locked" /\ token'[f] = token[f]
    BY <1>6, ActorsApart DEF SignedIn, Finish, Step, Tokens, TypeOK, Typed, Actors, Holders, Labels, history
  <2>2. UNCHANGED <<sessions, relogins>>
    BY <1>6 DEF SignedIn
  <2> QED BY <2>1, <2>2, KeepsType DEF TypeOK
<1>7. CASE FailSignIn(d)
  <2>1. Typed' /\ \A f \in Refreshes : pc'[f] = "locked" => pc[f] = "locked"
    BY <1>7, ActorsApart DEF FailSignIn, Finish, Step, TypeOK, Typed, Actors, Holders, Labels, history
  <2> QED BY <1>7, <2>1, KeepsType DEF FailSignIn, TypeOK, history
<1> QED BY <1>1, <1>2, <1>3, <1>4, <1>5, <1>6, <1>7 DEF SignIn

\* What the answer of a refresh changes.
LEMMA AnswerEffect ==
  ASSUME TypeOK, NEW f \in Refreshes, NEW t, NEW to, Answer(f, to, t)
  PROVE  /\ UNCHANGED <<sessions, relogins, about, spent, overlapped>>
         /\ DOMAIN pc' = DOMAIN pc /\ DOMAIN token' = DOMAIN token
         /\ pc'[f] = "idle" /\ token'[f] = NoToken
         /\ \A o \in Actors \ {f, caller[f]} : pc'[o] = pc[o]
         /\ \A o \in Holders \ {f, caller[f]} : token'[o] = token[o]
         /\ caller[f] \in Devices => pc'[caller[f]] = to /\ token'[caller[f]] = t
         /\ caller[f] \notin Actors \/ caller[f] \in Devices
         /\ caller[f] # f
         /\ caller' = [caller EXCEPT ![f] = NoOne]
<1>1. caller[f] \in Devices \union {NoOne}
  BY DEF TypeOK
<1>2. (caller[f] \notin Actors \/ caller[f] \in Devices) /\ caller[f] # f
  BY <1>1, SessionsConstants DEF Actors
<1>3. DOMAIN pc = Actors /\ DOMAIN token = Holders /\ Holders \subseteq Actors
  BY DEF TypeOK, Actors, Holders
<1>4. f \in Actors /\ f \in Holders /\ Devices \subseteq Holders
  BY DEF Actors, Holders
<1> QED
  BY <1>2, <1>3, <1>4 DEF Answer, history

LEMMA AnswerType ==
  ASSUME TypeOK, NEW f \in Refreshes, NEW t, NEW to,
         caller[f] # NoOne => to \in Labels /\ t \in Tokens,
         Answer(f, to, t)
  PROVE  TypeOK'
<1>1. caller[f] \in Devices \union {NoOne}
  BY DEF TypeOK
<1>2. DOMAIN pc = Actors /\ DOMAIN token = Holders
  BY DEF TypeOK, Actors, Holders
<1>3. \A o \in Actors : pc[o] \in Labels
  BY DEF TypeOK, Actors
<1>4. \A o \in Holders : token[o] \in Tokens
  BY DEF TypeOK, Holders
<1>5. "idle" \in Labels
  BY DEF Labels
<1>6. \A o \in Actors : o = caller[f] => caller[f] # NoOne
  BY SessionsConstants DEF Actors
<1>7. pc' \in [Actors -> Labels]
  BY <1>2, <1>3, <1>5, <1>6 DEF Answer
<1>8. token' \in [Holders -> Tokens]
  BY <1>2, <1>4, <1>6, NoTokenType DEF Answer, Actors, Holders
<1>9. \A g \in Refreshes : pc'[g] = "locked" => pc[g] = "locked" /\ token'[g] = token[g]
  <2>1. \A g \in Refreshes : g # caller[f] /\ g \in Actors /\ g \in Holders
    BY <1>1, SessionsConstants DEF Actors, Holders
  <2> QED BY <2>1, AnswerEffect
<1>10. Typed'
  BY <1>7, <1>8 DEF Answer, TypeOK, Typed, history
<1>11. UNCHANGED <<sessions, relogins>>
  BY DEF Answer
<1> QED BY <1>9, <1>10, <1>11, KeepsType DEF TypeOK

LEMMA RefreshType ==
  ASSUME TypeOK, Refreshing, NEW f \in Refreshes, Refresh(f)
  PROVE  TypeOK'
<1>1. ASSUME NEW d \in Devices, Wake(d, f) PROVE TypeOK'
  <2>1. Typed' /\ \A g \in Refreshes : pc'[g] = "locked" => pc[g] = "locked" /\ token'[g] = token[g]
    BY <1>1, ActorsApart DEF Wake, SendRefresh, TypeOK, Typed, Actors, Holders, Labels, history
  <2>2. UNCHANGED <<sessions, relogins>>
    BY <1>1 DEF Wake, SendRefresh
  <2> QED BY <2>1, <2>2, KeepsType DEF TypeOK
<1>2. ASSUME NEW d \in Devices, Restart(d, f) PROVE TypeOK'
  <2>1. Typed' /\ \A g \in Refreshes : pc'[g] = "locked" => pc[g] = "locked" /\ token'[g] = token[g]
    BY <1>2, ActorsApart DEF Restart, SendRefresh, TypeOK, Typed, Actors, Holders, Labels, history
  <2>2. UNCHANGED <<sessions, relogins>>
    BY <1>2 DEF Restart, SendRefresh
  <2> QED BY <2>1, <2>2, KeepsType DEF TypeOK
<1>3. CASE LockRow(f)
  <2>1. Typed'
    BY <1>3 DEF LockRow, Step, TypeOK, Typed, Actors, Holders, Labels, history
  <2>2. \A g \in Refreshes : pc'[g] = "locked" => g = f \/ (pc[g] = "locked" /\ token[g].session # token[f].session)
    BY <1>3 DEF LockRow, Step, Free, TypeOK
  <2>3. token' = token /\ UNCHANGED <<sessions, relogins>>
    BY <1>3 DEF LockRow
  <2>4. \A g, h \in Refreshes :
          pc'[g] = "locked" /\ pc'[h] = "locked" /\ g # h => token'[g].session # token'[h].session
    BY <1>3, <2>2, <2>3 DEF LockRow, Step, TypeOK
  <2> QED BY <2>1, <2>3, <2>4 DEF Typed, TypeOK, Actors, Holders
<1>4. caller[f] # NoOne => With(caller[f]) \in Labels /\ Without(caller[f]) \in Labels
  BY DEF With, Without, Labels, TypeOK
<1>5. CASE RefuseRefresh(f) \/ FailRefresh(f)
  <2>1. Answer(f, Without(caller[f]), NoToken)
    BY <1>5 DEF RefuseRefresh, FailRefresh
  <2> QED
    BY <2>1, <1>4, NoTokenType, AnswerType
<1>6. CASE AnswerRefresh(f)
  <2>1. token[f] \in Tokens
    BY DEF TypeOK
  <2>2. [token[f] EXCEPT !.gen = @ + 1] \in Tokens
    BY <2>1 DEF Tokens
  <2> QED
    BY <1>6, <2>2, <1>4, AnswerType DEF AnswerRefresh
<1>7. CASE CommitRefresh(f)
  <2>1. token[f] \in Tokens /\ token[f].session \in DOMAIN sessions
    BY <1>7 DEF CommitRefresh, Step, Refreshing, Current, TypeOK
  <2> DEFINE r == [sessions[token[f].session] EXCEPT !.gen = @ + 1]
  <2>2. r \in SessionRows /\ sessions \in Seq(SessionRows)
    <3>1. sessions \in Seq(SessionRows)
      BY DEF TypeOK
    <3>2. sessions[token[f].session] \in SessionRows
      BY <2>1, <3>1
    <3> QED BY <3>1, <3>2 DEF SessionRows
  <2>3. sessions' = [sessions EXCEPT ![token[f].session] = r]
    BY <1>7, <2>1 DEF CommitRefresh
  <2>4. sessions' \in Seq(SessionRows) /\ DOMAIN sessions' = DOMAIN sessions
    <3> HIDE DEF r
    <3> QED BY <2>1, <2>2, <2>3, RowChange
  <2>5. Typed' /\ \A g \in Refreshes : pc'[g] = "locked" => pc[g] = "locked" /\ token'[g] = token[g]
    BY <1>7, <2>1 DEF CommitRefresh, Step, TypeOK, Typed, Actors, Holders, Labels
  <2>6. UNCHANGED relogins
    BY <1>7 DEF CommitRefresh
  <2> QED BY <2>4, <2>5, <2>6, KeepsType
<1>8. CASE LoseAnswer(f)
  <2>1. caller[f] \in Devices /\ Without(caller[f]) \in Labels
    BY <1>4, <1>8 DEF LoseAnswer, TypeOK
  <2>2. Typed' /\ \A g \in Refreshes : pc'[g] = "locked" => pc[g] = "locked" /\ token'[g] = token[g]
    <3>1. Typed'
      <4>1. pc' \in [Actors -> Labels] /\ token' \in [Holders -> Tokens]
        <5> HIDE DEF Labels
        <5> QED BY <1>8, <2>1, NoTokenType DEF LoseAnswer, TypeOK, Actors, Holders
      <4>2. caller' \in [Refreshes -> Devices \union {NoOne}]
        BY <1>8 DEF LoseAnswer, TypeOK
      <4> QED BY <1>8, <4>1, <4>2 DEF LoseAnswer, TypeOK, Typed, Actors, Holders, history
    <3>2. \A g \in Refreshes : g # caller[f] /\ g \in Actors /\ g \in Holders
      BY <2>1, SessionsConstants DEF Actors, Holders
    <3>3. \A g \in Refreshes : pc'[g] = pc[g] /\ token'[g] = token[g]
      BY <1>8, <3>2 DEF LoseAnswer, TypeOK, Actors, Holders
    <3> QED BY <3>1, <3>3
  <2>3. UNCHANGED <<sessions, relogins>>
    BY <1>8 DEF LoseAnswer
  <2> QED BY <2>2, <2>3, KeepsType DEF TypeOK
<1> QED BY <1>1, <1>2, <1>3, <1>5, <1>6, <1>7, <1>8 DEF Refresh

\* A row of relogin_requests whose state changes leaves a sequence of rows about
\* the same sessions.
LEMMA RequestDecided ==
  ASSUME TypeOK, NEW q \in DOMAIN relogins,
         NEW to \in {"approved", "denied", "cancelled"},
         relogins' = [relogins EXCEPT ![q].state = to]
  PROVE  /\ relogins' \in Seq(ReloginRows)
         /\ \A p \in DOMAIN relogins' : relogins'[p].session \in DOMAIN sessions
<1>1. relogins \in Seq(ReloginRows) /\ DOMAIN relogins = 1..Len(relogins) /\ Len(relogins) \in Nat
  BY DEF TypeOK
<1>2. \A p \in DOMAIN relogins : relogins[p] \in ReloginRows
  BY <1>1
<1>3. \A p \in DOMAIN relogins : [relogins[p] EXCEPT !.state = to] \in ReloginRows
  BY <1>2 DEF ReloginRows
<1>4. relogins' = [p \in DOMAIN relogins |->
                     IF p = q THEN [relogins[p] EXCEPT !.state = to] ELSE relogins[p]]
  BY DEF TypeOK
<1>5. relogins' \in [1..Len(relogins) -> ReloginRows]
  BY <1>1, <1>2, <1>3, <1>4
<1>6. \A p \in DOMAIN relogins : relogins'[p].session = relogins[p].session
  BY <1>2, <1>4 DEF ReloginRows
<1> QED
  BY <1>1, <1>5, <1>6 DEF TypeOK

LEMMA OthersType ==
  ASSUME Inv, Next,
         ~ \E d \in Devices : SignIn(d),
         ~ \E f \in Refreshes : Refresh(f)
  PROVE  TypeOK'
<1>1. TypeOK /\ sessions \in Seq(SessionRows)
  BY DEF Inv, TypeOK
<1>2. ASSUME NEW d \in Devices, Logout(d) PROVE TypeOK'
  <2>1. CASE CheckLogout(d)
    <3>1. Typed' /\ \A f \in Refreshes : pc'[f] = "locked" => pc[f] = "locked"
      BY <1>1, <1>2, <2>1, ActorsApart DEF CheckLogout, Tokens, TypeOK, Typed, Actors, Holders, Labels, history
    <3> QED BY <1>1, <2>1, <3>1, KeepsType DEF CheckLogout
  <2>2. CASE RevokeOwn(d)
    <3>1. Typed' /\ \A f \in Refreshes : pc'[f] = "locked" => pc[f] = "locked" /\ token'[f] = token[f]
      BY <1>1, <1>2, <2>2, ActorsApart, NoTokenType DEF RevokeOwn, Finish, Step, TypeOK, Typed, Actors, Holders, Labels, history
    <3>2. sessions' \in Seq(SessionRows) /\ DOMAIN sessions' = DOMAIN sessions
      BY <1>1, <2>2, RevokeRows DEF RevokeOwn
    <3> QED BY <1>1, <2>2, <3>1, <3>2, KeepsType DEF RevokeOwn
  <2>3. CASE FailLogout(d)
    <3>1. Typed' /\ \A f \in Refreshes : pc'[f] = "locked" => pc[f] = "locked" /\ token'[f] = token[f]
      BY <1>1, <1>2, <2>3, ActorsApart, NoTokenType DEF FailLogout, Finish, Step, TypeOK, Typed, Actors, Holders, Labels, history
    <3> QED BY <1>1, <2>3, <3>1, KeepsType DEF FailLogout
  <2> QED BY <1>2, <2>1, <2>2, <2>3 DEF Logout
<1>3. ASSUME NEW d \in Devices, Abandon(d) PROVE TypeOK'
  <2>1. Typed' /\ \A f \in Refreshes : pc'[f] = "locked" => pc[f] = "locked" /\ token'[f] = token[f]
    BY <1>1, <1>3, ActorsApart, NoTokenType DEF Abandon, TypeOK, Typed, Actors, Holders, Labels, history
  <2> QED BY <1>1, <1>3, <2>1, KeepsType DEF Abandon
<1>4. ASSUME NEW c \in Decisions, Decide(c) PROVE TypeOK'
  <2>1. CASE \E q \in DOMAIN relogins : CheckDecision(c, q)
    <3>1. Typed' /\ \A f \in Refreshes : pc'[f] = "locked" => pc[f] = "locked" /\ token'[f] = token[f]
      BY <1>1, <1>4, <2>1, ActorsApart DEF CheckDecision, Step, TypeOK, Typed, Actors, Holders, Labels, history
    <3> QED BY <1>1, <2>1, <3>1, KeepsType DEF CheckDecision
  <2>2. CASE Deny(c) \/ Cancel(c)
    <3>1. Typed' /\ \A f \in Refreshes : pc'[f] = "locked" => pc[f] = "locked" /\ token'[f] = token[f]
      <4>1. /\ pc' = [pc EXCEPT ![c] = "idle"] /\ about' = [about EXCEPT ![c] = 0]
            /\ UNCHANGED <<token, caller, spent, overlapped>>
        BY <2>2 DEF Deny, Cancel, Finish, Step, history
      <4>2. pc' \in [Actors -> Labels] /\ \A f \in Refreshes : pc'[f] = pc[f]
        <5>1. pc \in [Actors -> Labels] /\ "idle" \in Labels
          BY <1>1 DEF TypeOK, Actors, Labels
        <5>2. \A f \in Refreshes : f \in Actors /\ f # c
          BY SessionsConstants DEF Actors
        <5> QED BY <4>1, <5>1, <5>2
      <4>3. about' \in [Devices \union Decisions -> Nat]
        BY <1>1, <4>1 DEF TypeOK
      <4> QED BY <1>1, <4>1, <4>2, <4>3 DEF TypeOK, Typed, Holders
    <3>2. \E to \in {"denied", "cancelled"} : relogins' = [relogins EXCEPT ![about[c]].state = to]
      BY <2>2 DEF Deny, Cancel
    <3>3. CASE about[c] \in DOMAIN relogins
      BY <1>1, <2>2, <3>1, <3>2, <3>3, KeepsType, RequestDecided DEF Deny, Cancel
    <3>4. CASE about[c] \notin DOMAIN relogins
      <4>1. relogins' = relogins
        BY <1>1, <3>2, <3>4 DEF TypeOK
      <4> QED BY <1>1, <2>2, <3>1, <4>1, KeepsType DEF Deny, Cancel
    <3> QED BY <3>3, <3>4
  <2>3. CASE FailDecision(c)
    <3>1. Typed' /\ \A f \in Refreshes : pc'[f] = "locked" => pc[f] = "locked" /\ token'[f] = token[f]
      BY <1>1, <1>4, <2>3, ActorsApart DEF FailDecision, Finish, Step, TypeOK, Typed, Actors, Holders, Labels, history
    <3> QED BY <1>1, <2>3, <3>1, KeepsType DEF FailDecision
  <2> QED BY <1>4, <2>1, <2>2, <2>3 DEF Decide
<1>5. ASSUME NEW q \in DOMAIN relogins, Approve(q) PROVE TypeOK'
  <2>1. Typed' /\ \A f \in Refreshes : pc'[f] = "locked" => pc[f] = "locked" /\ token'[f] = token[f]
    BY <1>1, <1>5 DEF Approve, TypeOK, Typed, Actors, Holders, history
  <2>2. sessions' \in Seq(SessionRows) /\ DOMAIN sessions' = DOMAIN sessions
    BY <1>1, <1>5, RevokeRows DEF Approve
  <2>3. relogins' \in Seq(ReloginRows) /\ \A p \in DOMAIN relogins' : relogins'[p].session \in DOMAIN sessions
    BY <1>1, <1>5, RequestDecided DEF Approve
  <2> QED BY <1>1, <2>1, <2>2, <2>3, KeepsType
<1>6. ASSUME NEW s \in DOMAIN sessions, Expire(s) PROVE TypeOK'
  <2>1. Typed' /\ \A f \in Refreshes : pc'[f] = "locked" => pc[f] = "locked" /\ token'[f] = token[f]
    BY <1>1, <1>6 DEF Expire, TypeOK, Typed, Actors, Holders, history
  <2> DEFINE r == [sessions[s] EXCEPT !.state = "expired"]
  <2>2. sessions[s] \in SessionRows
    BY <1>1
  <2>3. r \in SessionRows
    BY <2>2 DEF SessionRows
  <2>4. sessions' = [sessions EXCEPT ![s] = r]
    BY <1>1, <1>6 DEF Expire
  <2>5. sessions' \in Seq(SessionRows) /\ DOMAIN sessions' = DOMAIN sessions
    <3> HIDE DEF r
    <3> QED BY <1>1, <2>3, <2>4, RowChange
  <2> QED BY <1>1, <1>6, <2>1, <2>5, KeepsType DEF Expire
<1>7. ASSUME ForceLogout PROVE TypeOK'
  <2>1. Typed' /\ \A f \in Refreshes : pc'[f] = "locked" => pc[f] = "locked" /\ token'[f] = token[f]
    BY <1>1, <1>7 DEF ForceLogout, TypeOK, Typed, Actors, Holders, history
  <2>2. sessions' \in Seq(SessionRows) /\ DOMAIN sessions' = DOMAIN sessions
    BY <1>1, <1>7, RevokeRows DEF ForceLogout
  <2> QED BY <1>1, <1>7, <2>1, <2>2, KeepsType DEF ForceLogout
<1> QED BY <1>2, <1>3, <1>4, <1>5, <1>6, <1>7 DEF Next

-----------------------------------------------------------------------------
(***************************************************************************)
(* Calm steps: no session is created, no row's gen changes, nobody gets a  *)
(* token that was not there, and nobody gets to where it has new duties.   *)
(***************************************************************************)

Calm ==
  /\ UNCHANGED spent
  /\ DOMAIN sessions' = DOMAIN sessions
  /\ \A s \in DOMAIN sessions :
       /\ sessions'[s].gen = sessions[s].gen
       /\ sessions'[s].state = "revoked" => sessions[s].state = "revoked" \/ Free(s)
  /\ \A o \in Holders :
       \/ token'[o] \in {token[o], NoToken}
       \/ \E p \in Devices : token'[o] = token[p] /\ pc'[p] # "in"
  /\ \A f \in Refreshes :
       /\ pc'[f] \in {"locked", "rotated"} => token'[f] = token[f]
       /\ pc'[f] = "rotated" => pc[f] = "rotated"
       /\ pc'[f] = "locked" =>
            pc[f] = "locked" \/ (Current(token[f]) /\ token[f].session \in Live /\ UNCHANGED sessions)
  /\ \A d \in Devices :
       /\ pc'[d] = "in" => pc[d] = "in" /\ token'[d] = token[d]
       /\ pc'[d] = "issued" => pc[d] = "issued" /\ about'[d] = about[d]
       /\ pc'[d] = "blocked" =>
            about'[d] \in DOMAIN sessions \/ (pc[d] = pc'[d] /\ about'[d] = about[d])

LEMMA CalmTokens ==
  ASSUME Inv, Calm
  PROVE  \A o \in Holders : token'[o] = NoToken \/ \E p \in Holders : token'[o] = token[p]
BY DEF Calm, Holders

LEMMA CalmKeeps ==
  ASSUME Inv, Calm, TypeOK'
  PROVE  TokensKnown' /\ Refreshing' /\ SigningIn' /\ SignedInAlone'
<1>1. TypeOK /\ TokensKnown /\ Refreshing /\ SigningIn /\ SignedInAlone
  BY DEF Inv
<1>2. DOMAIN sessions' = DOMAIN sessions /\ 0 \notin DOMAIN sessions
  BY <1>1 DEF Calm, TypeOK
<1>3. \A s \in DOMAIN sessions : sessions'[s].gen = sessions[s].gen
  BY DEF Calm
<1>4. TokensKnown'
  BY <1>1, <1>2, <1>3, CalmTokens DEF Calm, TokensKnown
<1>5. ASSUME NEW f \in Refreshes
      PROVE  /\ pc'[f] = "locked" =>
                  Current(token[f])' /\ sessions'[token'[f].session].state # "revoked"
             /\ pc'[f] = "rotated" =>
                  /\ token'[f].session \in DOMAIN sessions'
                  /\ sessions'[token'[f].session].gen = token'[f].gen + 1
                  /\ \A o \in Holders : token'[o] # NextToken(f)'
                  /\ \A g \in Refreshes \ {f} :
                       pc'[g] = "rotated" => token'[g].session # token'[f].session
  <2>1. ASSUME pc'[f] = "locked"
        PROVE  Current(token[f])' /\ sessions'[token'[f].session].state # "revoked"
    <3>1. token'[f] = token[f] /\ Current(token[f])
      BY <1>1, <2>1 DEF Calm, Refreshing
    <3>2. sessions'[token[f].session].state # "revoked"
      <4>1. CASE pc[f] = "locked"
        BY <1>1, <3>1, <4>1 DEF Calm, Free, Refreshing, Current
      <4>2. CASE pc[f] # "locked"
        BY <2>1, <4>2 DEF Calm, Live
      <4> QED BY <4>1, <4>2
    <3> QED BY <1>2, <1>3, <3>1, <3>2 DEF Current
  <2>2. ASSUME pc'[f] = "rotated"
        PROVE  /\ token'[f].session \in DOMAIN sessions'
               /\ sessions'[token'[f].session].gen = token'[f].gen + 1
               /\ \A o \in Holders : token'[o] # NextToken(f)'
               /\ \A g \in Refreshes \ {f} :
                    pc'[g] = "rotated" => token'[g].session # token'[f].session
    <3>1. token'[f] = token[f] /\ pc[f] = "rotated"
      BY <2>2 DEF Calm
    <3>2. \A o \in Holders : token[o] # NextToken(f)
      BY <1>1, <3>1 DEF Refreshing
    <3>3. token[f].session \in DOMAIN sessions /\ sessions[token[f].session].gen = token[f].gen + 1
      BY <1>1, <3>1 DEF Refreshing
    <3>4. NextToken(f) # NoToken
      BY <1>2, <3>3, NoTokenType DEF NextToken
    <3>5. \A o \in Holders : token'[o] # NextToken(f)
      BY <3>2, <3>4, CalmTokens
    <3>6. NextToken(f)' = NextToken(f)
      BY <3>1 DEF NextToken
    <3>7. \A g \in Refreshes \ {f} :
            pc'[g] = "rotated" => token'[g].session # token'[f].session
      BY <1>1, <3>1 DEF Calm, Refreshing
    <3> QED BY <1>2, <1>3, <3>1, <3>3, <3>5, <3>6, <3>7
  <2> QED BY <2>1, <2>2
<1>6. Refreshing'
  BY <1>5 DEF Refreshing
<1>7. SigningIn'
  <2>1. ASSUME NEW d \in Devices, pc'[d] = "blocked" PROVE about'[d] \in DOMAIN sessions'
    BY <1>1, <1>2, <2>1 DEF Calm, SigningIn
  <2>2. ASSUME NEW d \in Devices, pc'[d] = "issued"
        PROVE  /\ about'[d] \in DOMAIN sessions'
               /\ sessions'[about'[d]].gen = 0
               /\ \A o \in Holders : token'[o].session # about'[d]
               /\ \A e \in Devices \ {d} : pc'[e] = "issued" => about'[e] # about'[d]
    <3>1. pc[d] = "issued" /\ about'[d] = about[d]
      BY <2>2 DEF Calm
    <3>2. about[d] \in DOMAIN sessions /\ sessions[about[d]].gen = 0
      BY <1>1, <3>1 DEF SigningIn
    <3>3. \A o \in Holders : token[o].session # about[d]
      BY <1>1, <3>1 DEF SigningIn
    <3>4. \A o \in Holders : token'[o].session # about[d]
      BY <1>2, <3>2, <3>3, CalmTokens, NoTokenType
    <3>5. \A e \in Devices \ {d} : pc'[e] = "issued" => about'[e] # about'[d]
      BY <1>1, <3>1 DEF Calm, SigningIn
    <3> QED BY <1>2, <1>3, <3>1, <3>2, <3>4, <3>5
  <2> QED BY <2>1, <2>2 DEF SigningIn
<1>8. ASSUME NEW d \in Devices, pc'[d] = "in"
      PROVE  Current(token[d])' /\ \A o \in Holders \ {d} : token'[o] # token'[d]
  <2>1. pc[d] = "in" /\ token'[d] = token[d]
    BY <1>8 DEF Calm
  <2>2. Current(token[d]) /\ \A o \in Holders \ {d} : token[o] # token[d]
    BY <1>1, <2>1 DEF SignedInAlone
  <2>3. token[d] # NoToken
    BY <1>2, <2>2, NoTokenType DEF Current
  <2>4. \A p \in Devices : token[p] = token[d] => p = d
    BY <2>2 DEF Holders
  <2>5. \A o \in Holders \ {d} : token'[o] # token[d]
    BY <1>8, <2>2, <2>3, <2>4 DEF Calm
  <2> QED BY <1>2, <1>3, <2>1, <2>2, <2>5 DEF Current
<1>9. SignedInAlone'
  BY <1>8 DEF SignedInAlone
<1> QED
  BY <1>4, <1>6, <1>7, <1>9

\* A step after which no more sessions are live and no more sign-ins have begun.
LEMMA KeepsApart ==
  ASSUME SignInsApart, Live' \subseteq Live, overlapped' = overlapped,
         \A d \in Devices : pc'[d] = "checked" => pc[d] = "checked"
  PROVE  SignInsApart'
BY DEF SignInsApart

\* The steps of a sign-in that create no session and store no token.
LEMMA SignInCalm ==
  ASSUME Inv, NEW d \in Devices,
         \/ FindNone(d) \/ FindActive(d) \/ Blocked(d) \/ RequestRelogin(d) \/ FailSignIn(d)
  PROVE  Calm
<1>1. TypeOK
  BY DEF Inv
<1>2. UNCHANGED <<sessions, token, spent>>
  BY DEF FindNone, FindActive, Blocked, RequestRelogin, FailSignIn, history
<1>3. \A o \in Actors \ {d} : pc'[o] = pc[o]
  BY <1>1 DEF FindNone, FindActive, Blocked, RequestRelogin, FailSignIn, Finish, Step, TypeOK, Actors
<1>4. \A e \in Devices \ {d} : about'[e] = about[e]
  BY <1>1 DEF FindNone, FindActive, Blocked, RequestRelogin, FailSignIn, Finish, TypeOK
<1>5. pc'[d] \in {"checked", "blocked", "out"}
  BY <1>1 DEF FindNone, FindActive, Blocked, RequestRelogin, FailSignIn, Finish, Step, TypeOK
<1>6. pc'[d] = "blocked" => about'[d] \in DOMAIN sessions
  <2>1. CASE FindActive(d)
    BY <1>1, <2>1 DEF FindActive, Live, TypeOK
  <2>2. CASE ~ FindActive(d)
    BY <1>1, <2>2 DEF FindNone, Blocked, RequestRelogin, FailSignIn, Finish, Step, TypeOK
  <2> QED BY <2>1, <2>2
<1>7. \A f \in Refreshes : pc'[f] = pc[f]
  <2>1. \A f \in Refreshes : f \in Actors /\ f \notin Devices
    BY SessionsConstants DEF Actors
  <2> QED BY <1>3, <2>1
<1> QED
  BY <1>2, <1>3, <1>4, <1>5, <1>6, <1>7 DEF Calm, Actors

LEMMA OthersCalm ==
  ASSUME Inv, Next,
         ~ \E d \in Devices : SignIn(d),
         ~ \E f \in Refreshes : Refresh(f)
  PROVE  Calm /\ Live' \subseteq Live /\ UNCHANGED overlapped
         /\ \A d \in Devices : pc'[d] = "checked" => pc[d] = "checked"
<1>1. TypeOK /\ sessions \in Seq(SessionRows)
  BY DEF Inv, TypeOK
<1> DEFINE
      Rows ==
        /\ DOMAIN sessions' = DOMAIN sessions
        /\ \A s \in DOMAIN sessions :
             /\ sessions'[s].gen = sessions[s].gen
             /\ sessions'[s].state = "revoked" => sessions[s].state = "revoked" \/ Free(s)
             /\ sessions'[s].state = "live" => sessions[s].state = "live"
      Moves(o) ==
        /\ pc'[o] # pc[o] =>
             pc'[o] \notin {"locked", "rotated", "in", "issued", "blocked", "checked"}
      Store(o) == token'[o] = token[o] \/ (o \in Devices /\ token'[o] = NoToken /\ pc'[o] # "in")
      Mind(d) == about'[d] = about[d] \/ pc'[d] \notin {"issued", "blocked"}
<1>2. ASSUME Rows, UNCHANGED <<spent, overlapped>>,
             \A o \in Actors : Moves(o), \A o \in Holders : Store(o), \A d \in Devices : Mind(d)
      PROVE  Calm /\ Live' \subseteq Live /\ UNCHANGED overlapped
             /\ \A d \in Devices : pc'[d] = "checked" => pc[d] = "checked"
  <2>1. \A f \in Refreshes : token'[f] = token[f] /\ Moves(f)
    <3>1. \A f \in Refreshes : f \in Actors /\ f \in Holders /\ f \notin Devices
      BY SessionsConstants DEF Actors, Holders
    <3>2. \A f \in Refreshes : Store(f) /\ Moves(f)
      <4> HIDE DEF Store, Moves
      <4> QED BY <1>2, <3>1
    <3> QED BY <3>1, <3>2
  <2>2. Live' \subseteq Live
    BY <1>2 DEF Live
  <2>3. \A d \in Devices : Store(d) /\ Moves(d) /\ Mind(d)
    BY <1>2 DEF Holders, Actors
  <2> QED BY <1>2, <2>1, <2>2, <2>3 DEF Calm
<1>3. Rows
  <2>1. CASE UNCHANGED sessions
    BY <2>1
  <2>2. CASE \E d \in Devices : RevokeOwn(d)
    BY <1>1, <2>2, RevokeRows DEF RevokeOwn
  <2>3. CASE \E q \in DOMAIN relogins : Approve(q)
    BY <1>1, <2>3, RevokeRows DEF Approve
  <2>4. CASE ForceLogout
    BY <1>1, <2>4, RevokeRows DEF ForceLogout
  <2>5. ASSUME NEW s \in DOMAIN sessions, Expire(s) PROVE Rows
    <3>1. \A t \in DOMAIN sessions : sessions[t] \in SessionRows
      BY <1>1
    <3>2. sessions' = [sessions EXCEPT ![s].state = "expired"]
      BY <2>5 DEF Expire
    <3>3. DOMAIN sessions' = DOMAIN sessions
      BY <3>2
    <3>4. \A t \in DOMAIN sessions :
            t # s => sessions'[t] = sessions[t]
      BY <3>2
    <3>5. sessions'[s].gen = sessions[s].gen /\ sessions'[s].state = "expired"
      BY <3>1, <3>2 DEF SessionRows
    <3> QED BY <3>3, <3>4, <3>5
  <2>6. CASE \E d \in Devices : CheckLogout(d) \/ FailLogout(d) \/ Abandon(d)
    BY <2>1, <2>6 DEF CheckLogout, FailLogout, Abandon
  <2>7. CASE \E c \in Decisions : Decide(c)
    BY <2>1, <2>7 DEF Decide, CheckDecision, Deny, Cancel, FailDecision
  <2> QED BY <2>2, <2>3, <2>4, <2>5, <2>6, <2>7 DEF Next, Logout
<1>4. ASSUME NEW d \in Devices, Logout(d) \/ Abandon(d)
      PROVE  /\ UNCHANGED <<spent, overlapped>>
             /\ \A o \in Actors : Moves(o)
             /\ \A o \in Holders : Store(o)
             /\ \A e \in Devices : Mind(e)
  <2>1. /\ UNCHANGED <<spent, overlapped>>
        /\ pc'[d] \in {"revoking", "out"}
        /\ \A o \in Actors \ {d} : pc'[o] = pc[o]
        /\ token'[d] \in {token[d], NoToken}
        /\ \A o \in Holders \ {d} : token'[o] = token[o]
        /\ \A e \in Devices \ {d} : about'[e] = about[e]
    <3>1. CASE CheckLogout(d)
      BY <1>1, <3>1 DEF CheckLogout, TypeOK, Actors, Holders, history
    <3>2. CASE RevokeOwn(d)
      BY <1>1, <3>2 DEF RevokeOwn, Finish, Step, TypeOK, Actors, Holders, history
    <3>3. CASE FailLogout(d)
      BY <1>1, <3>3 DEF FailLogout, Finish, Step, TypeOK, Actors, Holders, history
    <3>4. CASE Abandon(d)
      BY <1>1, <3>4 DEF Abandon, TypeOK, Actors, Holders, history
    <3> QED BY <1>4, <3>1, <3>2, <3>3, <3>4 DEF Logout
  <2> QED BY <2>1
<1>5. ASSUME NEW c \in Decisions, Decide(c)
      PROVE  /\ UNCHANGED <<spent, overlapped>>
             /\ \A o \in Actors : Moves(o)
             /\ \A o \in Holders : Store(o)
             /\ \A e \in Devices : Mind(e)
  <2>1. /\ UNCHANGED <<spent, overlapped, token>>
        /\ pc'[c] \in {"deciding", "idle"}
        /\ \A o \in Actors \ {c} : pc'[o] = pc[o]
        /\ \A e \in Devices : about'[e] = about[e]
    <3>1. \A e \in Devices : e # c
      BY SessionsConstants
    <3>2. \A q : CheckDecision(c, q) =>
            /\ UNCHANGED <<spent, overlapped, token>>
            /\ pc' = [pc EXCEPT ![c] = "deciding"]
            /\ about' = [about EXCEPT ![c] = q]
      BY DEF CheckDecision, Step, history
    <3>3. Deny(c) \/ Cancel(c) \/ FailDecision(c) =>
            /\ UNCHANGED <<spent, overlapped, token>>
            /\ pc' = [pc EXCEPT ![c] = "idle"]
            /\ about' = [about EXCEPT ![c] = 0]
      BY DEF Deny, Cancel, FailDecision, Finish, Step, history
    <3>4. \E to \in {"deciding", "idle"}, a \in {0} \union DOMAIN relogins :
            /\ UNCHANGED <<spent, overlapped, token>>
            /\ pc' = [pc EXCEPT ![c] = to]
            /\ about' = [about EXCEPT ![c] = a]
      BY <1>5, <3>2, <3>3 DEF Decide
    <3>5. PICK to \in {"deciding", "idle"}, a \in {0} \union DOMAIN relogins :
            /\ UNCHANGED <<spent, overlapped, token>>
            /\ pc' = [pc EXCEPT ![c] = to]
            /\ about' = [about EXCEPT ![c] = a]
      BY <3>4
    <3>6. c \in Actors /\ DOMAIN pc = Actors /\ DOMAIN about = Devices \union Decisions
      BY <1>1 DEF Actors, TypeOK
    <3> QED BY <3>1, <3>5, <3>6
  <2> QED BY <2>1
<1>6. ASSUME \/ \E q \in DOMAIN relogins : Approve(q)
             \/ \E s \in DOMAIN sessions : Expire(s)
             \/ ForceLogout
      PROVE  /\ UNCHANGED <<spent, overlapped>>
             /\ \A o \in Actors : Moves(o)
             /\ \A o \in Holders : Store(o)
             /\ \A e \in Devices : Mind(e)
  BY <1>6 DEF Approve, Expire, ForceLogout, history
<1> QED
  <2> HIDE DEF Rows, Moves, Store, Mind
  <2> QED BY <1>2, <1>3, <1>4, <1>5, <1>6 DEF Next

\* A step that leaves the sessions as they are is calm when actors, stores and
\* minds are.
LEMMA CalmActors ==
  ASSUME UNCHANGED <<sessions, spent>>,
         \A o \in Holders :
           \/ token'[o] \in {token[o], NoToken}
           \/ \E p \in Devices : token'[o] = token[p] /\ pc'[p] # "in",
         \A f \in Refreshes : pc'[f] \in {"locked", "rotated"} =>
           token'[f] = token[f] /\ pc'[f] = pc[f],
         \A d \in Devices :
           /\ pc'[d] = "in" => pc[d] = "in" /\ token'[d] = token[d]
           /\ pc'[d] \in {"issued", "blocked"} => pc[d] = pc'[d] /\ about'[d] = about[d]
  PROVE  Calm
<1>1. \A s \in DOMAIN sessions :
        /\ sessions'[s].gen = sessions[s].gen
        /\ sessions'[s].state = "revoked" => sessions[s].state = "revoked" \/ Free(s)
  OBVIOUS
<1>2. DOMAIN sessions' = DOMAIN sessions
  OBVIOUS
<1>3. \A f \in Refreshes :
       /\ pc'[f] \in {"locked", "rotated"} => token'[f] = token[f]
       /\ pc'[f] = "rotated" => pc[f] = "rotated"
       /\ pc'[f] = "locked" => pc[f] = "locked"
  OBVIOUS
<1>4. \A d \in Devices :
       /\ pc'[d] = "in" => pc[d] = "in" /\ token'[d] = token[d]
       /\ pc'[d] = "issued" => pc[d] = "issued" /\ about'[d] = about[d]
       /\ pc'[d] = "blocked" => pc[d] = pc'[d] /\ about'[d] = about[d]
  OBVIOUS
<1> QED
  BY <1>1, <1>2, <1>3, <1>4, Zenon DEF Calm

\* A copy of a token, a refusal or a failure is calm, and so is the lock of a row.
LEMMA RefreshCalm ==
  ASSUME Inv, NEW f \in Refreshes, Refresh(f), ~ CommitRefresh(f), ~ AnswerRefresh(f)
  PROVE  /\ Calm /\ UNCHANGED <<sessions, overlapped>>
         /\ \A d \in Devices : pc'[d] = "checked" => pc[d] = "checked"
<1>1. TypeOK
  BY DEF Inv
<1>2. /\ \A g \in Refreshes : g \in Holders /\ g \in Actors /\ g \notin Devices
      /\ \A e \in Devices : e \in Holders /\ e \in Actors /\ e \notin Refreshes
  BY SessionsConstants DEF Holders, Actors
<1>3. DOMAIN pc = Actors /\ DOMAIN token = Holders /\ DOMAIN about = Devices \union Decisions
  BY <1>1 DEF TypeOK, Actors, Holders
<1>4. ASSUME NEW d \in Devices, Wake(d, f) \/ Restart(d, f) PROVE Calm
  <2>1. /\ UNCHANGED <<sessions, spent>>
        /\ token' = [token EXCEPT ![f] = token[d]]
    BY <1>4 DEF Wake, Restart, SendRefresh, history
  <2>2. \E to \in {"waking", "starting"} : pc' = [pc EXCEPT ![d] = to, ![f] = "sent"]
    BY <1>4 DEF Wake, Restart
  <2>3. \A e \in Devices \ {d} : about'[e] = about[e]
    BY <1>3, <1>4 DEF Wake, Restart
  <2>4. pc'[d] \in {"waking", "starting"} /\ pc'[f] = "sent"
    BY <1>2, <1>3, <2>2
  <2>5. \A o \in Actors \ {d, f} : pc'[o] = pc[o]
    BY <1>3, <2>2
  <2>6. token'[f] = token[d] /\ \A o \in Holders \ {f} : token'[o] = token[o]
    BY <1>2, <1>3, <2>1
  <2>7. \A o \in Holders :
          \/ token'[o] \in {token[o], NoToken}
          \/ \E p \in Devices : token'[o] = token[p] /\ pc'[p] # "in"
    BY <2>4, <2>6
  <2>8. \A g \in Refreshes : g = f \/ (pc'[g] = pc[g] /\ token'[g] = token[g])
    BY <1>2, <2>5, <2>6
  <2>9. \A e \in Devices : e = d \/ (pc'[e] = pc[e] /\ token'[e] = token[e] /\ about'[e] = about[e])
    BY <1>2, <2>3, <2>5, <2>6
  <2>10. \A g \in Refreshes :
           pc'[g] \in {"locked", "rotated"} => token'[g] = token[g] /\ pc'[g] = pc[g]
    BY <2>4, <2>8
  <2>11. \A e \in Devices :
           /\ pc'[e] = "in" => pc[e] = "in" /\ token'[e] = token[e]
           /\ pc'[e] \in {"issued", "blocked"} => pc[e] = pc'[e] /\ about'[e] = about[e]
    BY <2>4, <2>9
  <2> QED BY <2>1, <2>7, <2>10, <2>11, CalmActors
<1>5. ASSUME LockRow(f) PROVE Calm
  <2>1. UNCHANGED <<sessions, token, about, spent>>
    BY <1>5 DEF LockRow, history
  <2>2. \A o \in Actors \ {f} : pc'[o] = pc[o]
    BY <1>3, <1>5 DEF LockRow, Step
  <2>3. pc'[f] = "locked"
    BY <1>2, <1>3, <1>5 DEF LockRow, Step, Actors
  <2>4. Current(token[f]) /\ token[f].session \in Live
    BY <1>5 DEF LockRow
  <2> QED BY <1>2, <2>1, <2>2, <2>3, <2>4 DEF Calm
<1>6. \A e \in Devices : Without(e) = pc[e] \/ Without(e) = "out"
  BY DEF Without
<1>7. \A e \in Devices : Without(e) # "in"
  BY DEF Without
<1>8. ASSUME RefuseRefresh(f) \/ FailRefresh(f) PROVE Calm
  <2>1. Answer(f, Without(caller[f]), NoToken)
    BY <1>8 DEF RefuseRefresh, FailRefresh
  <2>2. /\ UNCHANGED <<sessions, about, spent>>
        /\ pc'[f] = "idle" /\ token'[f] = NoToken
        /\ \A o \in Actors \ {f, caller[f]} : pc'[o] = pc[o]
        /\ \A o \in Holders \ {f, caller[f]} : token'[o] = token[o]
        /\ caller[f] \in Devices => pc'[caller[f]] = Without(caller[f]) /\ token'[caller[f]] = NoToken
        /\ caller[f] \notin Actors \/ caller[f] \in Devices
    BY <1>1, <2>1, AnswerEffect
  <2>3. \A g \in Refreshes : g = f \/ (pc'[g] = pc[g] /\ token'[g] = token[g])
    <3>1. \A g \in Refreshes : g # caller[f] /\ g \in Actors /\ g \in Holders
      BY <1>2, <2>2
    <3> QED BY <2>2, <3>1
  <2>4. \A e \in Devices : \/ pc'[e] = pc[e] /\ token'[e] = token[e]
                           \/ pc'[e] # "in" /\ pc'[e] \in {pc[e], "out"} /\ token'[e] = NoToken
    BY <1>2, <1>6, <1>7, <2>2
  <2>5. \A o \in Holders : token'[o] \in {token[o], NoToken}
    BY <2>2, <2>3, <2>4 DEF Holders
  <2>6. \A g \in Refreshes :
          pc'[g] \in {"locked", "rotated"} => token'[g] = token[g] /\ pc'[g] = pc[g]
    BY <2>2, <2>3
  <2>7. \A e \in Devices :
          /\ pc'[e] = "in" => pc[e] = "in" /\ token'[e] = token[e]
          /\ pc'[e] \in {"issued", "blocked"} => pc[e] = pc'[e] /\ about'[e] = about[e]
    BY <2>2, <2>4
  <2> QED BY <2>2, <2>5, <2>6, <2>7, CalmActors
<1>9. ASSUME LoseAnswer(f) PROVE Calm
  <2>1. caller[f] \in Devices
    BY <1>1, <1>9 DEF LoseAnswer, TypeOK
  <2>2. /\ UNCHANGED <<sessions, about, spent>>
        /\ pc'[caller[f]] = Without(caller[f]) /\ token'[caller[f]] = NoToken
        /\ \A o \in Actors \ {caller[f]} : pc'[o] = pc[o]
        /\ \A o \in Holders \ {caller[f]} : token'[o] = token[o]
    BY <1>2, <1>3, <1>9, <2>1 DEF LoseAnswer, history
  <2>3. \A g \in Refreshes : pc'[g] = pc[g] /\ token'[g] = token[g]
    BY <1>2, <2>1, <2>2
  <2>4. \A e \in Devices : \/ pc'[e] = pc[e] /\ token'[e] = token[e]
                           \/ pc'[e] # "in" /\ pc'[e] \in {pc[e], "out"} /\ token'[e] = NoToken
    BY <1>2, <1>6, <1>7, <2>1, <2>2
  <2>5. \A o \in Holders : token'[o] \in {token[o], NoToken}
    BY <2>3, <2>4 DEF Holders
  <2>6. \A g \in Refreshes :
          pc'[g] \in {"locked", "rotated"} => token'[g] = token[g] /\ pc'[g] = pc[g]
    BY <2>2, <2>3
  <2>7. \A e \in Devices :
          /\ pc'[e] = "in" => pc[e] = "in" /\ token'[e] = token[e]
          /\ pc'[e] \in {"issued", "blocked"} => pc[e] = pc'[e] /\ about'[e] = about[e]
    BY <2>2, <2>4
  <2> QED BY <2>2, <2>5, <2>6, <2>7, CalmActors
<1>10. Calm
  BY <1>4, <1>5, <1>8, <1>9 DEF Refresh
<1>11. UNCHANGED <<sessions, overlapped>>
  BY DEF Refresh, Wake, Restart, SendRefresh, LockRow, RefuseRefresh, FailRefresh, LoseAnswer,
         Answer, history
<1>12. ASSUME NEW d \in Devices, pc'[d] = "checked" PROVE pc[d] = "checked"
  <2>1. CASE \E e \in Devices : Wake(e, f) \/ Restart(e, f)
    BY <1>2, <1>3, <1>12, <2>1 DEF Wake, Restart
  <2>2. CASE LockRow(f)
    BY <1>2, <1>3, <1>12, <2>2 DEF LockRow, Step
  <2>3. CASE RefuseRefresh(f) \/ FailRefresh(f)
    <3>1. Answer(f, Without(caller[f]), NoToken)
      BY <2>3 DEF RefuseRefresh, FailRefresh
    <3>2. pc'[d] = pc[d] \/ (d = caller[f] /\ pc'[d] = Without(d))
      BY <1>1, <1>2, <3>1, AnswerEffect
    <3> QED BY <1>6, <1>12, <3>2
  <2>4. CASE LoseAnswer(f)
    <3>1. pc'[d] = pc[d] \/ pc'[d] = Without(d)
      BY <1>2, <1>3, <2>4 DEF LoseAnswer
    <3> QED BY <1>6, <1>12, <3>1
  <2> QED BY <2>1, <2>2, <2>3, <2>4 DEF Refresh
<1> QED
  BY <1>10, <1>11, <1>12

-----------------------------------------------------------------------------
(***************************************************************************)
(* The steps that are not calm.                                            *)
(***************************************************************************)

\* Inv apart from the types.
Parts == TokensKnown /\ Refreshing /\ SigningIn /\ SignedInAlone /\ SignInsApart

\* Facts that every step starts from.
LEMMA Basics ==
  ASSUME Inv
  PROVE  /\ sessions \in Seq(SessionRows) /\ 0 \notin DOMAIN sessions
         /\ DOMAIN pc = Actors /\ DOMAIN token = Holders /\ DOMAIN about = Devices \union Decisions
         /\ \A s \in DOMAIN sessions : sessions[s].gen \in Nat
         /\ \A o \in Holders : /\ token[o] \in Tokens
                               /\ token[o].session \in Nat /\ token[o].gen \in Nat
                               /\ token[o].session # 0 => token[o] # NoToken
         /\ \A g \in Refreshes : g \in Holders /\ g \in Actors /\ g \notin Devices
         /\ \A e \in Devices : e \in Holders /\ e \in Actors /\ e \notin Refreshes
<1>1. TypeOK
  BY DEF Inv
<1>2. sessions \in Seq(SessionRows)
  BY <1>1 DEF TypeOK
<1>3. \A s \in DOMAIN sessions : sessions[s] \in SessionRows
  BY <1>2
<1>4. \A s \in DOMAIN sessions : sessions[s].gen \in Nat
  BY <1>3 DEF SessionRows
<1>5. \A o \in Holders : token[o] \in Tokens
  BY <1>1 DEF TypeOK, Holders
<1>6. \A o \in Holders : token[o].session \in Nat /\ token[o].gen \in Nat
  BY <1>5 DEF Tokens
<1>7. 0 \notin DOMAIN sessions
  BY <1>2
<1> QED
  BY <1>1, <1>2, <1>4, <1>5, <1>6, <1>7, NoTokenType, SessionsConstants
  DEF TypeOK, Holders, Actors

LEMMA CreateKeeps ==
  ASSUME Inv, NEW d \in Devices, CreateSession(d)
  PROVE  Parts'
<1> DEFINE n == Len(sessions) + 1
           r == [state |-> "live", gen |-> 0]
<1>1. r \in SessionRows /\ sessions' = Append(sessions, r)
  BY DEF CreateSession, SessionRows
<1>2. /\ n \notin DOMAIN sessions
      /\ DOMAIN sessions' = DOMAIN sessions \union {n}
      /\ \A s \in DOMAIN sessions : sessions'[s] = sessions[s]
      /\ sessions'[n] = r
  BY <1>1, Basics, NewRow
<1>3. n \in Nat /\ n # 0
  BY Basics
<1>4. UNCHANGED <<token, spent, overlapped>>
  BY DEF CreateSession, history
<1>5. /\ pc[d] = "checked" /\ pc'[d] = "issued" /\ about'[d] = n
      /\ \A o \in Actors \ {d} : pc'[o] = pc[o]
      /\ \A e \in Devices \ {d} : about'[e] = about[e]
  BY Basics DEF CreateSession, Step
<1> HIDE DEF n
<1>6. \A o \in Holders : token[o].session # n
  BY <1>2, <1>3, NoTokenType DEF Inv, TokensKnown
<1>7. TokensKnown'
  BY <1>2, <1>4 DEF Inv, TokensKnown
<1>8. \A g \in Refreshes : pc'[g] = pc[g]
  BY <1>5, Basics
<1>9. Refreshing'
  BY <1>2, <1>4, <1>8 DEF Inv, Refreshing, Current, NextToken
<1>10. SigningIn'
  <2>1. /\ about'[d] \in DOMAIN sessions'
        /\ sessions'[about'[d]].gen = 0
        /\ \A o \in Holders : token'[o].session # about'[d]
    BY <1>2, <1>4, <1>5, <1>6
  <2>2. \A e \in Devices \ {d} : pc'[e] = pc[e] /\ about'[e] = about[e]
    BY <1>5, Basics
  <2>3. \A e \in Devices \ {d} : pc'[e] = "issued" => about'[e] # about'[d]
    BY <1>2, <1>5, <2>2 DEF Inv, SigningIn
  <2>4. pc'[d] # "blocked"
    BY <1>5
  <2>5. ASSUME NEW e \in Devices \ {d}
        PROVE  /\ pc'[e] = "blocked" => about'[e] \in DOMAIN sessions'
               /\ pc'[e] = "issued" =>
                    /\ about'[e] \in DOMAIN sessions'
                    /\ sessions'[about'[e]].gen = 0
                    /\ \A o \in Holders : token'[o].session # about'[e]
                    /\ \A c \in Devices \ {e} : pc'[c] = "issued" => about'[c] # about'[e]
    BY <1>2, <1>4, <2>2, <2>3 DEF Inv, SigningIn
  <2> QED BY <2>1, <2>3, <2>4, <2>5 DEF SigningIn
<1>11. SignedInAlone'
  <2>1. \A e \in Devices : pc'[e] = "in" => pc[e] = "in"
    BY <1>5, Basics
  <2> QED BY <1>2, <1>4, <2>1 DEF Inv, SignedInAlone, Current
<1>12. SignInsApart'
  <2> SUFFICES ASSUME ~ overlapped
               PROVE  /\ \A s, t \in Live' : s = t
                      /\ \A e \in Devices : pc'[e] # "checked"
    BY <1>4 DEF SignInsApart
  <2>1. Live = {} /\ \A e \in Devices : pc[e] = "checked" => e = d
    BY <1>5 DEF Inv, SignInsApart
  <2>2. Live' = {n}
    BY <1>2, <2>1 DEF Live
  <2>3. \A e \in Devices : pc'[e] # "checked"
    BY <1>5, <2>1, Basics
  <2> QED BY <2>2, <2>3
<1> QED
  BY <1>7, <1>9, <1>10, <1>11, <1>12 DEF Parts

LEMMA SignedInKeeps ==
  ASSUME Inv, NEW d \in Devices, SignedIn(d)
  PROVE  Parts'
<1> DEFINE t == [session |-> about[d], gen |-> 0]
<1>1. UNCHANGED <<sessions, spent, overlapped>>
  BY DEF SignedIn, history
<1>2. /\ pc[d] = "issued" /\ pc'[d] = "in" /\ token'[d] = t
      /\ \A o \in Actors \ {d} : pc'[o] = pc[o]
      /\ \A o \in Holders \ {d} : token'[o] = token[o]
      /\ \A e \in Devices \ {d} : about'[e] = about[e]
  BY Basics DEF SignedIn, Finish, Step
<1>3. /\ about[d] \in DOMAIN sessions /\ sessions[about[d]].gen = 0
      /\ \A o \in Holders : token[o].session # about[d]
      /\ \A e \in Devices \ {d} : pc[e] = "issued" => about[e] # about[d]
  BY <1>2 DEF Inv, SigningIn
<1>4. t.session = about[d] /\ t.gen = 0
  OBVIOUS
<1> HIDE DEF t
<1>5. TokensKnown'
  BY <1>1, <1>2, <1>3, <1>4 DEF Inv, TokensKnown
<1>6. Refreshing'
  <2>1. \A g \in Refreshes : pc'[g] = pc[g] /\ token'[g] = token[g]
    BY <1>2, Basics
  <2>2. \A g \in Refreshes : NextToken(g)' = NextToken(g) /\ NextToken(g).gen = token[g].gen + 1
    BY <2>1 DEF NextToken
  <2>3. \A g \in Refreshes : t # NextToken(g)
    BY <1>4, <2>2, Basics
  <2> QED BY <1>1, <1>2, <2>1, <2>2, <2>3 DEF Inv, Refreshing, Current
<1>7. SigningIn'
  <2>1. \A e \in Devices : pc'[e] \in {"blocked", "issued"} =>
          e # d /\ pc[e] = pc'[e] /\ about'[e] = about[e]
    BY <1>2, Basics
  <2> QED BY <1>1, <1>2, <1>3, <1>4, <2>1 DEF Inv, SigningIn
<1>8. SignedInAlone'
  <2>1. Current(token[d])'
    BY <1>1, <1>2, <1>3, <1>4 DEF Current
  <2>2. \A o \in Holders \ {d} : token'[o] # token'[d]
    BY <1>2, <1>3, <1>4
  <2>3. \A e \in Devices \ {d} : pc'[e] = "in" => pc[e] = "in" /\ token'[e] = token[e]
    BY <1>2, Basics
  <2>4. \A e \in Devices \ {d} : pc'[e] = "in" =>
          Current(token[e])' /\ \A o \in Holders \ {e} : token'[o] # token'[e]
    BY <1>1, <1>2, <2>2, <2>3, Basics DEF Inv, SignedInAlone, Current
  <2> QED BY <2>1, <2>2, <2>4 DEF SignedInAlone
<1>9. SignInsApart'
  <2>1. \A e \in Devices : pc'[e] = "checked" => pc[e] = "checked"
    BY <1>2, Basics
  <2>2. Live' = Live
    BY <1>1 DEF Live
  <2> QED BY <1>1, <2>1, <2>2, KeepsApart DEF Inv
<1> QED
  BY <1>5, <1>6, <1>7, <1>8, <1>9 DEF Parts

LEMMA CommitKeeps ==
  ASSUME Inv, NEW f \in Refreshes, CommitRefresh(f)
  PROVE  Parts'
<1> DEFINE s == token[f].session
<1>1. /\ pc[f] = "locked" /\ pc'[f] = "rotated"
      /\ \A o \in Actors \ {f} : pc'[o] = pc[o]
      /\ UNCHANGED <<token, about, overlapped>>
      /\ spent' = spent \union {token[f]}
  BY Basics DEF CommitRefresh, Step
<1>2. s \in DOMAIN sessions /\ sessions[s].gen = token[f].gen /\ sessions[s].state # "revoked"
  BY <1>1 DEF Inv, Refreshing, Current
<1>3. \A x \in DOMAIN sessions : sessions[x] \in SessionRows
  BY Basics
<1>4. /\ DOMAIN sessions' = DOMAIN sessions
      /\ \A x \in DOMAIN sessions \ {s} : sessions'[x] = sessions[x]
      /\ sessions'[s].gen = sessions[s].gen + 1 /\ sessions'[s].state = sessions[s].state
  BY <1>2, <1>3, Basics DEF CommitRefresh, SessionRows
<1> HIDE DEF s
<1>5. s = token[f].session
  BY DEF s
<1>6. TokensKnown'
  <2>1. \A x \in DOMAIN sessions :
          /\ x \in DOMAIN sessions' /\ sessions[x].gen \in Nat
          /\ x # s => sessions'[x].gen = sessions[x].gen
    BY <1>4, Basics
  <2>2. \A o \in Holders : token[o] # NoToken =>
          token[o].session \in DOMAIN sessions' /\ token[o].gen <= sessions'[token[o].session].gen
    BY <1>2, <1>4, <2>1, Basics DEF Inv, TokensKnown
  <2>3. \A t \in spent : t.session \in DOMAIN sessions' /\ t.gen < sessions'[t.session].gen
    <3>1. \A t \in spent : t.gen \in Nat
      BY DEF Inv, TypeOK, Tokens
    <3> QED BY <1>2, <1>4, <2>1, <3>1 DEF Inv, TokensKnown
  <2>4. s \in DOMAIN sessions' /\ token[f].gen < sessions'[s].gen
    BY <1>2, <1>4, <2>1
  <2> QED BY <1>1, <1>5, <2>2, <2>3, <2>4 DEF TokensKnown
<1>7. \A g \in Refreshes \ {f} : pc'[g] = pc[g]
  BY <1>1, Basics
<1>8. \A g \in Refreshes \ {f} : pc[g] = "locked" => token[g].session # s
  BY <1>1, <1>5 DEF Inv, TypeOK
<1>9. \A g \in Refreshes \ {f} : pc[g] = "rotated" => token[g].session # s
  <2> SUFFICES ASSUME NEW g \in Refreshes \ {f}, pc[g] = "rotated", token[g].session = s
               PROVE  FALSE
    OBVIOUS
  <2>1. token[f].gen = token[g].gen + 1
    BY <1>2 DEF Inv, Refreshing
  <2>2. token[f] = NextToken(g)
    BY <2>1, <1>5, Basics DEF NextToken, Tokens
  <2> QED BY <2>2, Basics DEF Inv, Refreshing
<1>10. \A o \in Holders : token[o] # NextToken(f)
  <2> SUFFICES ASSUME NEW o \in Holders, token[o] = NextToken(f) PROVE FALSE
    OBVIOUS
  <2>1. token[o].session = s /\ token[o].gen = token[f].gen + 1
    BY <1>5 DEF NextToken
  <2>2. token[o] # NoToken
    BY <1>2, <2>1, Basics, NoTokenType
  <2> QED BY <1>2, <2>1, <2>2, Basics DEF Inv, TokensKnown
<1>11. Refreshing'
  <2>1. /\ token'[f].session \in DOMAIN sessions'
        /\ sessions'[token'[f].session].gen = token'[f].gen + 1
        /\ \A o \in Holders : token'[o] # NextToken(f)'
        /\ \A g \in Refreshes \ {f} : pc'[g] = "rotated" => token'[g].session # token'[f].session
    BY <1>1, <1>2, <1>4, <1>5, <1>7, <1>9, <1>10 DEF NextToken
  <2>2. ASSUME NEW g \in Refreshes \ {f}
        PROVE  /\ pc'[g] = "locked" =>
                    Current(token[g])' /\ sessions'[token'[g].session].state # "revoked"
               /\ pc'[g] = "rotated" =>
                    /\ token'[g].session \in DOMAIN sessions'
                    /\ sessions'[token'[g].session].gen = token'[g].gen + 1
                    /\ \A o \in Holders : token'[o] # NextToken(g)'
                    /\ \A h \in Refreshes \ {g} :
                         pc'[h] = "rotated" => token'[h].session # token'[g].session
    <3>1. pc'[g] = pc[g] /\ token'[g] = token[g]
      BY <1>1, <1>7
    <3>2. ASSUME pc[g] = "locked"
          PROVE  Current(token[g])' /\ sessions'[token'[g].session].state # "revoked"
      BY <1>4, <1>8, <3>1, <3>2 DEF Inv, Refreshing, Current
    <3>3. ASSUME pc[g] = "rotated"
          PROVE  /\ token'[g].session \in DOMAIN sessions'
                 /\ sessions'[token'[g].session].gen = token'[g].gen + 1
                 /\ \A o \in Holders : token'[o] # NextToken(g)'
                 /\ \A h \in Refreshes \ {g} :
                      pc'[h] = "rotated" => token'[h].session # token'[g].session
      <4>1. \A h \in Refreshes \ {g} :
              pc'[h] = "rotated" => token'[h].session # token'[g].session
        BY <1>1, <1>5, <1>7, <1>9, <3>1, <3>3 DEF Inv, Refreshing
      <4>2. \A o \in Holders : token'[o] # NextToken(g)'
        BY <1>1, <3>3 DEF Inv, Refreshing, NextToken
      <4>3. token[g].session \in DOMAIN sessions \ {s} /\ sessions[token[g].session].gen = token[g].gen + 1
        BY <1>9, <3>3 DEF Inv, Refreshing
      <4> QED BY <1>4, <3>1, <4>1, <4>2, <4>3
    <3> QED BY <3>1, <3>2, <3>3
  <2>3. pc'[f] # "locked"
    BY <1>1
  <2> QED BY <2>1, <2>2, <2>3 DEF Refreshing
<1>12. \A e \in Devices : pc'[e] = pc[e]
  BY <1>1, Basics
<1>13. SigningIn'
  <2>1. \A e \in Devices : pc[e] = "issued" => about[e] # s
    BY <1>5, Basics DEF Inv, SigningIn
  <2> QED BY <1>1, <1>4, <1>12, <2>1 DEF Inv, SigningIn
<1>14. SignedInAlone'
  <2>1. ASSUME NEW e \in Devices, pc[e] = "in" PROVE token[e].session # s
    <3>1. Current(token[e]) /\ token[e] # token[f]
      BY <2>1, Basics DEF Inv, SignedInAlone
    <3> QED BY <1>2, <1>5, <3>1, Basics DEF Current, Tokens
  <2> QED BY <1>1, <1>4, <1>12, <2>1 DEF Inv, SignedInAlone, Current
<1>15. SignInsApart'
  <2>1. Live' \subseteq Live
    BY <1>4, <1>2 DEF Live
  <2> QED BY <1>1, <1>12, <2>1, KeepsApart DEF Inv
<1> QED
  BY <1>6, <1>11, <1>13, <1>14, <1>15 DEF Parts

LEMMA AnswerKeeps ==
  ASSUME Inv, NEW f \in Refreshes, AnswerRefresh(f)
  PROVE  Parts'
<1> DEFINE n == NextToken(f)
           c == caller[f]
<1>1. TypeOK /\ pc[f] = "rotated"
  BY DEF Inv, AnswerRefresh
<1>2. [token[f] EXCEPT !.gen = @ + 1] = n
  BY Basics DEF NextToken, Tokens
<1>3. /\ UNCHANGED <<sessions, about, spent, overlapped>>
      /\ pc'[f] = "idle" /\ token'[f] = NoToken
      /\ \A o \in Actors \ {f, c} : pc'[o] = pc[o]
      /\ \A o \in Holders \ {f, c} : token'[o] = token[o]
      /\ c \in Devices => pc'[c] = With(c) /\ token'[c] = n
      /\ c \notin Actors \/ c \in Devices
  <2>1. Answer(f, With(c), n)
    BY <1>2 DEF AnswerRefresh
  <2> QED BY <1>1, <2>1, AnswerEffect
<1>4. /\ n.session = token[f].session /\ n.gen = token[f].gen + 1
      /\ n.session \in DOMAIN sessions /\ sessions[n.session].gen = n.gen
      /\ \A o \in Holders : token[o] # n
      /\ \A g \in Refreshes \ {f} : pc[g] = "rotated" => token[g].session # n.session
  BY <1>1 DEF Inv, Refreshing, NextToken
<1> HIDE DEF n, c
<1>5. \A g \in Refreshes \ {f} : pc'[g] = pc[g] /\ token'[g] = token[g]
  <2>1. \A g \in Refreshes : g # c
    BY <1>3, Basics
  <2> QED BY <1>3, <2>1, Basics
<1>6. \A e \in Devices :
        \/ pc'[e] = pc[e] /\ token'[e] = token[e]
        \/ e = c /\ pc'[e] = With(e) /\ token'[e] = n
  BY <1>3, Basics
<1>7. \A o \in Holders : token'[o] \in {token[o], NoToken, n}
  BY <1>3, <1>5, <1>6 DEF Holders
<1>8. \A e \in Devices : pc'[e] \in {"issued", "blocked", "checked"} => pc[e] = pc'[e]
  BY <1>6 DEF With
<1>9. TokensKnown'
  <2>1. n.gen <= sessions[n.session].gen
    BY <1>4, Basics
  <2>2. \A o \in Holders : token'[o] # NoToken =>
          token'[o].session \in DOMAIN sessions /\ token'[o].gen <= sessions[token'[o].session].gen
    BY <1>4, <1>7, <2>1 DEF Inv, TokensKnown
  <2> QED BY <1>3, <2>2 DEF Inv, TokensKnown
<1>10. Refreshing'
  <2>1. \A g \in Refreshes : pc'[g] \in {"locked", "rotated"} =>
          g # f /\ pc'[g] = pc[g] /\ token'[g] = token[g]
    BY <1>3, <1>5
  <2>2. ASSUME NEW g \in Refreshes, pc'[g] = "locked"
        PROVE  Current(token[g])' /\ sessions'[token'[g].session].state # "revoked"
    BY <1>3, <2>1, <2>2 DEF Inv, Refreshing, Current
  <2>3. ASSUME NEW g \in Refreshes, pc'[g] = "rotated"
        PROVE  /\ token'[g].session \in DOMAIN sessions'
               /\ sessions'[token'[g].session].gen = token'[g].gen + 1
               /\ \A o \in Holders : token'[o] # NextToken(g)'
               /\ \A h \in Refreshes \ {g} :
                    pc'[h] = "rotated" => token'[h].session # token'[g].session
    <3>1. g # f /\ pc[g] = "rotated" /\ token'[g] = token[g]
      BY <2>1, <2>3
    <3>2. /\ token[g].session \in DOMAIN sessions
          /\ sessions[token[g].session].gen = token[g].gen + 1
          /\ \A o \in Holders : token[o] # NextToken(g)
          /\ \A h \in Refreshes \ {g} :
               pc[h] = "rotated" => token[h].session # token[g].session
      BY <3>1 DEF Inv, Refreshing
    <3>3. NextToken(g)' = NextToken(g) /\ NextToken(g).session = token[g].session
      BY <3>1 DEF NextToken
    <3>4. NextToken(g) # NoToken /\ NextToken(g) # n
      BY <1>4, <3>1, <3>2, <3>3, Basics, NoTokenType
    <3>5. \A o \in Holders : token'[o] # NextToken(g)'
      BY <1>7, <3>2, <3>3, <3>4
    <3>6. \A h \in Refreshes \ {g} :
            pc'[h] = "rotated" => token'[h].session # token'[g].session
      BY <2>1, <3>1, <3>2
    <3> QED BY <1>3, <3>1, <3>2, <3>5, <3>6
  <2> QED BY <2>2, <2>3 DEF Refreshing
<1>11. SigningIn'
  <2>1. ASSUME NEW e \in Devices, pc[e] = "issued"
        PROVE  \A o \in Holders : token'[o].session # about[e]
    <3>1. about[e] \in DOMAIN sessions /\ \A o \in Holders : token[o].session # about[e]
      BY <2>1 DEF Inv, SigningIn
    <3>2. n.session # about[e] /\ NoToken.session # about[e]
      BY <1>4, <3>1, Basics, NoTokenType
    <3> QED BY <1>7, <3>1, <3>2
  <2> QED BY <1>3, <1>8, <2>1 DEF Inv, SigningIn
<1>12. SignedInAlone'
  <2> SUFFICES ASSUME NEW e \in Devices, pc'[e] = "in"
               PROVE  Current(token[e])' /\ \A o \in Holders \ {e} : token'[o] # token'[e]
    BY DEF SignedInAlone
  <2>1. n # NoToken
    BY <1>4, Basics, NoTokenType
  <2>2. CASE token'[e] = n
    <3>1. Current(token[e])'
      BY <1>3, <1>4, <2>2 DEF Current
    <3>2. e = c
      BY <1>4, <1>6, <2>2, Basics
    <3>3. \A o \in Holders \ {e} : token'[o] \in {token[o], NoToken}
      BY <1>3, <3>2
    <3> QED BY <1>4, <2>1, <2>2, <3>1, <3>3
  <2>3. CASE token'[e] # n
    <3>1. pc[e] = "in" /\ token'[e] = token[e]
      BY <1>6, <2>3
    <3>2. Current(token[e]) /\ \A o \in Holders \ {e} : token[o] # token[e]
      BY <3>1 DEF Inv, SignedInAlone
    <3>3. token[e] # NoToken
      BY <3>2, Basics, NoTokenType DEF Current
    <3>4. \A o \in Holders \ {e} : token'[o] # token'[e]
      BY <1>7, <2>3, <3>1, <3>2, <3>3
    <3> QED BY <1>3, <3>1, <3>2, <3>4 DEF Current
  <2> QED BY <2>2, <2>3
<1>13. SignInsApart'
  <2>1. Live' = Live
    BY <1>3 DEF Live
  <2> QED BY <1>3, <1>8, <2>1, KeepsApart DEF Inv
<1> QED
  BY <1>9, <1>10, <1>11, <1>12, <1>13 DEF Parts

\* A check that finds nothing in the way: it is the only one, or it overlaps.
LEMMA FindNoneApart ==
  ASSUME Inv, NEW d \in Devices, FindNone(d)
  PROVE  SignInsApart'
<1>1. Live = {} /\ Live' = Live
  BY DEF FindNone, Live
<1>2. \A e \in Devices \ {d} : pc'[e] = pc[e]
  BY Basics DEF FindNone, Step
<1>3. ~ overlapped' => \A e \in Devices : pc[e] # "checked"
  BY DEF FindNone
<1> QED
  BY <1>1, <1>2, <1>3 DEF SignInsApart

-----------------------------------------------------------------------------
LEMMA InitInv == Init => Inv
<1> SUFFICES ASSUME Init PROVE Inv
  OBVIOUS
<1>1. \A o \in Holders : token[o] = NoToken
  BY DEF Init, Holders
<1>2. \A d \in Devices : pc[d] = "out"
  BY DEF Init
<1>3. \A f \in Refreshes : pc[f] = "idle"
  BY SessionsConstants DEF Init
<1>4. Live = {} /\ spent = {}
  BY DEF Init, Live
<1> QED
  BY <1>1, <1>2, <1>3, <1>4, InitType
  DEF Inv, TokensKnown, Refreshing, SigningIn, SignedInAlone, SignInsApart

\* Every step keeps the inductive invariant.
LEMMA NextInv == Inv /\ [Next]_vars => Inv'
<1> SUFFICES ASSUME Inv, [Next]_vars PROVE Inv'
  OBVIOUS
<1> USE DEF Parts
<1>1. TypeOK /\ SigningIn /\ Refreshing
  BY DEF Inv
<1>2. ASSUME NEW d \in Devices, SignIn(d) PROVE Inv'
  <2>1. TypeOK'
    BY <1>1, <1>2, SignInType
  <2>2. CASE CreateSession(d)
    BY <2>1, <2>2, CreateKeeps DEF Inv
  <2>3. CASE SignedIn(d)
    BY <2>1, <2>3, SignedInKeeps DEF Inv
  <2>4. CASE FindNone(d)
    BY <2>1, <2>4, SignInCalm, CalmKeeps, FindNoneApart DEF Inv
  <2>5. CASE FindActive(d) \/ Blocked(d) \/ RequestRelogin(d) \/ FailSignIn(d)
    <3>1. UNCHANGED <<sessions, overlapped>>
      BY <2>5 DEF FindActive, Blocked, RequestRelogin, FailSignIn, history
    <3>2. \A e \in Devices : pc'[e] = "checked" => pc[e] = "checked"
      BY <2>5, Basics DEF FindActive, Blocked, RequestRelogin, FailSignIn, Finish, Step
    <3>3. Live' = Live
      BY <3>1 DEF Live
    <3> QED BY <2>1, <2>5, <3>1, <3>2, <3>3, SignInCalm, CalmKeeps, KeepsApart DEF Inv
  <2> QED BY <1>2, <2>2, <2>3, <2>4, <2>5 DEF SignIn
<1>3. ASSUME NEW f \in Refreshes, Refresh(f) PROVE Inv'
  <2>1. TypeOK'
    BY <1>1, <1>3, RefreshType
  <2>2. CASE CommitRefresh(f)
    BY <2>1, <2>2, CommitKeeps DEF Inv
  <2>3. CASE AnswerRefresh(f)
    BY <2>1, <2>3, AnswerKeeps DEF Inv
  <2>4. CASE ~ CommitRefresh(f) /\ ~ AnswerRefresh(f)
    <3>1. /\ Calm /\ UNCHANGED <<sessions, overlapped>>
          /\ \A d \in Devices : pc'[d] = "checked" => pc[d] = "checked"
      BY <1>3, <2>4, RefreshCalm
    <3>2. Live' = Live
      BY <3>1 DEF Live
    <3> QED BY <2>1, <3>1, <3>2, CalmKeeps, KeepsApart DEF Inv
  <2> QED BY <2>2, <2>3, <2>4
<1>4. CASE Next /\ ~ (\E d \in Devices : SignIn(d)) /\ ~ (\E f \in Refreshes : Refresh(f))
  BY <1>4, OthersType, OthersCalm, CalmKeeps, KeepsApart DEF Inv
<1>5. CASE UNCHANGED vars
  BY <1>5 DEF vars, Inv, TypeOK, TokensKnown, Refreshing, SigningIn, SignedInAlone, SignInsApart,
              Current, NextToken, Live
<1> QED
  BY <1>2, <1>3, <1>4, <1>5

\* Whatever devices, refreshes, chairs and the clock do, every variable keeps
\* its type, one transaction at most holds a session's row, and every request is
\* about a session that exists.
THEOREM TypeCorrect == Spec => []TypeOK
<1>1. Inv => TypeOK
  BY DEF Inv
<1> QED
  BY <1>1, InitInv, NextInv, PTL DEF Spec

\* A delegate has one active session at most, unless two sign-ins overlapped.
THEOREM OneActiveAlways == Spec => []OneActive
<1>1. Inv => OneActive
  BY DEF Inv, SignInsApart, OneActive
<1> QED
  BY <1>1, InitInv, NextInv, PTL DEF Spec

\* A device that is signed in and waits for no refresh has a token that the
\* server accepts as long as the session is live.
THEOREM TokensAlwaysWork == Spec => []TokensWork
<1>1. Inv => TokensWork
  BY DEF Inv, SignedInAlone, TokensWork
<1> QED
  BY <1>1, InitInv, NextInv, PTL DEF Spec

\* A refresh token is exchanged once at most, for a session that is not revoked.
THEOREM RefreshesOnce == Spec => RefreshOnce
<1>1. ASSUME Inv, NEW f \in Refreshes, CommitRefresh(f)
      PROVE  token[f] \notin spent /\ sessions[token[f].session].state # "revoked"
  <2>1. Current(token[f]) /\ sessions[token[f].session].state # "revoked"
    BY <1>1 DEF Inv, Refreshing, CommitRefresh, Step
  <2>2. sessions[token[f].session].gen = token[f].gen /\ token[f].gen \in Nat
    BY <1>1, <2>1, Basics DEF Current
  <2> QED BY <1>1, <2>1, <2>2 DEF Inv, TokensKnown
<1>2. Inv /\ [Next]_vars =>
        [\A f \in Refreshes : CommitRefresh(f) =>
           token[f] \notin spent /\ sessions[token[f].session].state # "revoked"]_vars
  BY <1>1
<1> QED
  BY <1>2, InitInv, NextInv, PTL DEF Spec, RefreshOnce

\* The approval of a request that was made for the session in the way leaves no
\* active session, unless two sign-ins overlapped.
THEOREM ApprovalsFree == Spec => ApprovalFrees
<1>1. ASSUME Inv, NEW q \in DOMAIN relogins, Approve(q),
             relogins[q].session \in Live, ~ overlapped
      PROVE  Live' = {}
  <2>1. Live = {relogins[q].session}
    BY <1>1 DEF Inv, SignInsApart
  <2>2. /\ DOMAIN sessions' = DOMAIN sessions
        /\ \A s \in DOMAIN sessions :
             /\ s = relogins[q].session => sessions'[s].state = "revoked"
             /\ s # relogins[q].session => sessions'[s] = sessions[s]
    BY <1>1, Basics, RevokeRows DEF Approve
  <2> QED BY <2>1, <2>2 DEF Live
<1>2. Inv /\ [Next]_vars =>
        [\A q \in DOMAIN relogins :
           Approve(q) /\ relogins[q].session \in Live /\ ~ overlapped => Live' = {}]_vars
  BY <1>1
<1> QED
  BY <1>2, InitInv, NextInv, PTL DEF Spec, ApprovalFrees
=============================================================================
