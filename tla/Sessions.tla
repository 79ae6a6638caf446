------------------------------ MODULE Sessions ------------------------------
(***************************************************************************)
(* The sessions of one delegate: sign-in by password or by join, rotation  *)
(* of the refresh token, logout, force logout and the re-login requests    *)
(* that a chair decides (apps/server/src/auth/service.ts, sessions.ts),    *)
(* with the delegate's devices, which keep the tokens in a store that      *)
(* survives a crash (apps/desktop/src/main/backend.ts, auth/client.ts).    *)
(*                                                                         *)
(* Sign-in looks for an active session in one statement and inserts a new  *)
(* one in a later statement; a refresh is a transaction that locks the     *)
(* session's row; a denial reads the request and writes it later.  The     *)
(* server goes on with a refresh whose client has crashed or given up.     *)
(*                                                                         *)
(* force_logout makes a device log out, which it may do at any time; it    *)
(* therefore needs no action.  An operator that nothing uses is a faulty   *)
(* variant of the one after it.                                            *)
(***************************************************************************)
EXTENDS Naturals, Sequences

CONSTANTS
  Devices,
  Refreshes,      \* calls of rotateRefresh under way at one time
  Decisions,      \* denials and cancellations under way at one time
  NoOne,          \* nobody waits for the answer of a refresh
  MaxSessions,    \* bounds
  MaxRequests,
  MaxRotations

ASSUME SessionsConstants ==
  /\ Devices \intersect Refreshes = {}
  /\ Devices \intersect Decisions = {}
  /\ Refreshes \intersect Decisions = {}
  /\ NoOne \notin Devices \union Refreshes \union Decisions
  /\ MaxSessions \in Nat /\ MaxRequests \in Nat /\ MaxRotations \in Nat

VARIABLES
  sessions,    \* the rows of sessions, by creation
  relogins,    \* the rows of relogin_requests, by creation
  pc,          \* where each device, refresh and decision is
  token,       \* the refresh token in a device's store or sent with a refresh
  about,       \* the session or the request that a device or decision has read
  caller,      \* the device that waits for the answer of each refresh
  spent,       \* history: the refresh tokens that have been exchanged
  overlapped   \* history: a sign-in has begun between the check and the INSERT of another

vars == <<sessions, relogins, pc, token, about, caller, spent, overlapped>>

\* A refresh token, or the access token issued with it: the gen-th of a session.
Tokens == [session : Nat, gen : Nat]
NoToken == [session |-> 0, gen |-> 0]

Init ==
  /\ sessions = << >>
  /\ relogins = << >>
  /\ pc = [o \in Devices \union Refreshes \union Decisions |->
             IF o \in Devices THEN "out" ELSE "idle"]
  /\ token = [o \in Devices \union Refreshes |-> NoToken]
  /\ about = [o \in Devices \union Decisions |-> 0]
  /\ caller = [f \in Refreshes |-> NoOne]
  /\ spent = {}
  /\ overlapped = FALSE

\* Neither revoked nor expired.
Live == {s \in DOMAIN sessions : sessions[s].state = "live"}

Pending == {q \in DOMAIN relogins : relogins[q].state = "pending"}

\* The session that holds the hash of a token.
Current(t) == t.session \in DOMAIN sessions /\ sessions[t.session].gen = t.gen

\* No transaction holds the lock of the session's row.
Free(s) == \A f \in Refreshes : pc[f] = "locked" => token[f].session # s

Step(o, from, to) == pc[o] = from /\ pc' = [pc EXCEPT ![o] = to]

\* A device or a decision is done with what it has read.
Finish(o, from, to) == Step(o, from, to) /\ about' = [about EXCEPT ![o] = 0]

Revoke(S) ==
  sessions' = [s \in DOMAIN sessions |->
                 IF s \in S THEN [sessions[s] EXCEPT !.state = "revoked"] ELSE sessions[s]]

history == <<spent, overlapped>>

-----------------------------------------------------------------------------
(***************************************************************************)
(* login and join.                                                         *)
(***************************************************************************)

FindNoneUnchecked(d) ==
  /\ Len(sessions) < MaxSessions
  /\ Step(d, "out", "checked")
  /\ overlapped' = (overlapped \/ \E e \in Devices : pc[e] = "checked")
  /\ UNCHANGED <<sessions, relogins, token, about, caller, spent>>

FindNone(d) ==
  /\ Live = {}
  /\ Len(sessions) < MaxSessions
  /\ Step(d, "out", "checked")
  /\ overlapped' = (overlapped \/ \E e \in Devices : pc[e] = "checked")
  /\ UNCHANGED <<sessions, relogins, token, about, caller, spent>>

\* The newest active session is in the way.
FindActive(d) ==
  /\ Step(d, "out", "blocked")
  /\ \E s \in Live : (\A t \in Live : t <= s) /\ about' = [about EXCEPT ![d] = s]
  /\ UNCHANGED <<sessions, relogins, token, caller, history>>

\* join refuses, login uses the pending request again, whichever session it was
\* made for, or an await throws.
Blocked(d) ==
  /\ Finish(d, "blocked", "out")
  /\ UNCHANGED <<sessions, relogins, token, caller, history>>

\* The INSERT, which the unique index on pending requests lets through only if
\* there is still none.
RequestRelogin(d) ==
  /\ Finish(d, "blocked", "out")
  /\ Pending = {}
  /\ Len(relogins) < MaxRequests
  /\ relogins' = Append(relogins, [state |-> "pending", session |-> about[d]])
  /\ UNCHANGED <<sessions, token, caller, history>>

CreateSession(d) ==
  /\ Step(d, "checked", "issued")
  /\ sessions' = Append(sessions, [state |-> "live", gen |-> 0])
  /\ about' = [about EXCEPT ![d] = Len(sessions) + 1]
  /\ UNCHANGED <<relogins, token, caller, history>>

\* completeAuth puts the tokens into the device's store.
SignedIn(d) ==
  /\ Finish(d, "issued", "in")
  /\ token' = [token EXCEPT ![d] = [session |-> about[d], gen |-> 0]]
  /\ UNCHANGED <<sessions, relogins, caller, history>>

\* An await throws, or the answer is lost: a session that exists stays.
FailSignIn(d) ==
  /\ \E from \in {"checked", "issued"} : Finish(d, from, "out")
  /\ UNCHANGED <<sessions, relogins, token, caller, history>>

SignIn(d) ==
  \/ FindNone(d) \/ FindActive(d) \/ Blocked(d) \/ RequestRelogin(d)
  \/ CreateSession(d) \/ SignedIn(d) \/ FailSignIn(d)

-----------------------------------------------------------------------------
(***************************************************************************)
(* rotateRefresh, and the client's side of it.                             *)
(***************************************************************************)

SendRefresh(d, f) ==
  /\ token[d] # NoToken
  /\ token[d].gen < MaxRotations
  /\ pc[f] = "idle"
  /\ token' = [token EXCEPT ![f] = token[d]]
  /\ UNCHANGED <<sessions, relogins, history>>

\* refreshSession, when the computer wakes up, perhaps twice in a row.
Wake(d, f) ==
  /\ pc[d] \in {"in", "waking"}
  /\ SendRefresh(d, f)
  /\ pc' = [pc EXCEPT ![d] = "waking", ![f] = "sent"]
  /\ caller' = [caller EXCEPT ![f] = d]
  /\ UNCHANGED about

\* The client is started again after a crash; init means to free the session
\* that it finds in the store.
Restart(d, f) ==
  /\ SendRefresh(d, f)
  /\ pc' = [pc EXCEPT ![d] = "starting", ![f] = "sent"]
  /\ about' = [about EXCEPT ![d] = 0]
  /\ caller' = [g \in Refreshes |->
                  IF g = f THEN d ELSE IF caller[g] = d THEN NoOne ELSE caller[g]]

\* The device is lost, or its store cannot keep or read tokens over a crash.
Abandon(d) ==
  /\ pc' = [pc EXCEPT ![d] = "out"]
  /\ about' = [about EXCEPT ![d] = 0]
  /\ token' = [token EXCEPT ![d] = NoToken]
  /\ caller' = [f \in Refreshes |-> IF caller[f] = d THEN NoOne ELSE caller[f]]
  /\ UNCHANGED <<sessions, relogins, history>>

LockRowUnlocked(f) ==
  /\ Step(f, "sent", "locked")
  /\ Current(token[f])
  /\ token[f].session \in Live
  /\ UNCHANGED <<sessions, relogins, token, about, caller, history>>

LockRowReplayed(f) ==
  /\ Step(f, "sent", "locked")
  /\ token[f].session \in Live
  /\ Free(token[f].session)
  /\ UNCHANGED <<sessions, relogins, token, about, caller, history>>

\* SELECT ... WHERE refresh_token_hash FOR UPDATE, and the checks on the row.
LockRow(f) ==
  /\ Step(f, "sent", "locked")
  /\ Current(token[f])
  /\ token[f].session \in Live
  /\ Free(token[f].session)
  /\ UNCHANGED <<sessions, relogins, token, about, caller, history>>

\* The answer of a refresh reaches the device that waits for it.
Answer(f, to, tokens) ==
  LET d == caller[f] IN
  /\ pc' = [o \in DOMAIN pc |-> IF o = f THEN "idle" ELSE IF o = d THEN to ELSE pc[o]]
  /\ token' = [o \in DOMAIN token |-> IF o = f THEN NoToken ELSE IF o = d THEN tokens ELSE token[o]]
  /\ caller' = [caller EXCEPT ![f] = NoOne]
  /\ UNCHANGED <<sessions, relogins, about, history>>

\* Where a device is after a refresh that gave it no tokens: its store is cleared.
Without(d) == IF pc[d] \in {"in", "waking", "starting"} THEN "out" ELSE pc[d]

\* Where it is after a refresh that gave it tokens: init goes on to log out.
With(d) ==
  IF pc[d] = "waking" THEN "in" ELSE IF pc[d] = "starting" THEN "leaving" ELSE pc[d]

RefuseRefresh(f) ==
  /\ pc[f] = "sent"
  /\ ~ (Current(token[f]) /\ token[f].session \in Live)
  /\ Answer(f, Without(caller[f]), NoToken)

\* The request is lost, or an await of the transaction throws.
FailRefresh(f) ==
  /\ pc[f] \in {"sent", "locked"}
  /\ Answer(f, Without(caller[f]), NoToken)

CommitRefresh(f) ==
  /\ Step(f, "locked", "rotated")
  /\ sessions' = [sessions EXCEPT ![token[f].session].gen = @ + 1]
  /\ spent' = spent \union {token[f]}
  /\ UNCHANGED <<relogins, token, about, caller, overlapped>>

\* The new tokens go to the store of the device, whatever has happened there.
AnswerRefresh(f) ==
  /\ pc[f] = "rotated"
  /\ Answer(f, With(caller[f]), [token[f] EXCEPT !.gen = @ + 1])

\* The client's fetch fails, whatever the server does.
LoseAnswer(f) ==
  /\ caller[f] # NoOne
  /\ pc' = [pc EXCEPT ![caller[f]] = Without(caller[f])]
  /\ token' = [token EXCEPT ![caller[f]] = NoToken]
  /\ caller' = [caller EXCEPT ![f] = NoOne]
  /\ UNCHANGED <<sessions, relogins, about, history>>

Refresh(f) ==
  \/ \E d \in Devices : Wake(d, f) \/ Restart(d, f)
  \/ LockRow(f) \/ RefuseRefresh(f) \/ FailRefresh(f) \/ CommitRefresh(f)
  \/ AnswerRefresh(f) \/ LoseAnswer(f)

-----------------------------------------------------------------------------
(***************************************************************************)
(* logout: the access token is checked in one statement, the session is    *)
(* revoked in another.  The device forgets its tokens in any case.         *)
(***************************************************************************)

CheckLogout(d) ==
  /\ pc[d] \in {"in", "waking", "leaving"}
  /\ pc' = [pc EXCEPT ![d] = "revoking"]
  /\ Current(token[d])
  /\ token[d].session \in Live
  /\ about' = [about EXCEPT ![d] = token[d].session]
  /\ UNCHANGED <<sessions, relogins, token, caller, history>>

RevokeOwn(d) ==
  /\ Finish(d, "revoking", "out")
  /\ Free(about[d])
  /\ Revoke({about[d]})
  /\ token' = [token EXCEPT ![d] = NoToken]
  /\ UNCHANGED <<relogins, caller, history>>

\* The token is refused, the request is lost, or an await throws.
FailLogout(d) ==
  /\ \E from \in {"in", "waking", "leaving", "revoking"} : Finish(d, from, "out")
  /\ token' = [token EXCEPT ![d] = NoToken]
  /\ UNCHANGED <<sessions, relogins, caller, history>>

Logout(d) == CheckLogout(d) \/ RevokeOwn(d) \/ FailLogout(d)

-----------------------------------------------------------------------------
(***************************************************************************)
(* The chair, the admin and the clock.                                     *)
(***************************************************************************)

\* revokeAllForUser; also when the delegation is removed.
ForceLogout ==
  /\ \A s \in DOMAIN sessions : Free(s)
  /\ Revoke(DOMAIN sessions)
  /\ UNCHANGED <<relogins, pc, token, about, caller, history>>

ApproveOnly(q) ==
  /\ relogins[q].state = "pending"
  /\ Free(relogins[q].session)
  /\ relogins' = [relogins EXCEPT ![q].state = "approved"]
  /\ UNCHANGED <<sessions, pc, token, about, caller, history>>

\* The transaction of approveRelogin, which holds the lock of the request from
\* its check on.  Its force_logout goes to a sink with the id of the session,
\* which no sink has.
Approve(q) ==
  /\ relogins[q].state = "pending"
  /\ Free(relogins[q].session)
  /\ Revoke({relogins[q].session})
  /\ relogins' = [relogins EXCEPT ![q].state = "approved"]
  /\ UNCHANGED <<pc, token, about, caller, history>>

\* denyRelogin and cancelRelogin write the status without looking again.  (The
\* delegate who cancels needs a session, which is left out.)
CheckDecision(c, q) ==
  /\ relogins[q].state = "pending"
  /\ Step(c, "idle", "deciding")
  /\ about' = [about EXCEPT ![c] = q]
  /\ UNCHANGED <<sessions, relogins, token, caller, history>>

Deny(c) ==
  /\ Finish(c, "deciding", "idle")
  /\ relogins' = [relogins EXCEPT ![about[c]].state = "denied"]
  /\ UNCHANGED <<sessions, token, caller, history>>

Cancel(c) ==
  /\ Finish(c, "deciding", "idle")
  /\ relogins' = [relogins EXCEPT ![about[c]].state = "cancelled"]
  /\ UNCHANGED <<sessions, token, caller, history>>

FailDecision(c) ==
  /\ Finish(c, "deciding", "idle")
  /\ UNCHANGED <<sessions, relogins, token, caller, history>>

Decide(c) ==
  \/ \E q \in DOMAIN relogins : CheckDecision(c, q)
  \/ Deny(c) \/ Cancel(c) \/ FailDecision(c)

Expire(s) ==
  /\ sessions[s].state = "live"
  /\ sessions' = [sessions EXCEPT ![s].state = "expired"]
  /\ UNCHANGED <<relogins, pc, token, about, caller, history>>

-----------------------------------------------------------------------------
Next ==
  \/ \E d \in Devices : SignIn(d) \/ Logout(d) \/ Abandon(d)
  \/ \E f \in Refreshes : Refresh(f)
  \/ \E c \in Decisions : Decide(c)
  \/ \E q \in DOMAIN relogins : Approve(q)
  \/ \E s \in DOMAIN sessions : Expire(s)
  \/ ForceLogout

Spec == Init /\ [][Next]_vars

-----------------------------------------------------------------------------
(***************************************************************************)
(* Properties                                                              *)
(***************************************************************************)

SessionRows == [state : {"live", "expired", "revoked"}, gen : Nat]

ReloginRows == [state : {"pending", "approved", "denied", "cancelled"}, session : Nat]

Labels == {"out", "checked", "blocked", "issued", "in", "waking", "starting", "leaving",
           "revoking", "idle", "sent", "locked", "rotated", "deciding"}

\* Every variable stays within its type; each session's row is locked by one
\* transaction at most, and requests are about sessions that exist.
TypeOK ==
  /\ sessions \in Seq(SessionRows)
  /\ relogins \in Seq(ReloginRows)
  /\ pc \in [Devices \union Refreshes \union Decisions -> Labels]
  /\ token \in [Devices \union Refreshes -> Tokens]
  /\ about \in [Devices \union Decisions -> Nat]
  /\ caller \in [Refreshes -> Devices \union {NoOne}]
  /\ spent \subseteq Tokens
  /\ overlapped \in BOOLEAN
  /\ \A q \in DOMAIN relogins : relogins[q].session \in DOMAIN sessions
  /\ \A f, g \in Refreshes :
       pc[f] = "locked" /\ pc[g] = "locked" /\ f # g => token[f].session # token[g].session

\* A delegate has one active session at most, however sign-ins, crashes,
\* logouts and approvals follow one another, unless two sign-ins overlapped.
OneActive == ~ overlapped => \A s, t \in Live : s = t

\* "Refresh tokens are single-use" (auth/sessions.ts:11): a token is exchanged
\* once at most and for a session that is not revoked, whatever retries,
\* crashes and logouts are under way.
RefreshOnce ==
  [][\A f \in Refreshes : CommitRefresh(f) =>
       token[f] \notin spent /\ sessions[token[f].session].state # "revoked"]_vars

\* A device that is signed in and waits for no refresh holds tokens that the
\* server accepts, as long as their session is live: no lost, late or repeated
\* rotation leaves it signed in with dead tokens.
TokensWork ==
  \A d \in Devices : pc[d] = "in" /\ token[d].session \in Live => Current(token[d])

\* A chair who approves the request that was made for the session in the way
\* frees the delegation, unless sign-ins overlapped.
ApprovalFrees ==
  [][\A q \in DOMAIN relogins :
       Approve(q) /\ relogins[q].session \in Live /\ ~ overlapped => Live' = {}]_vars
=============================================================================
