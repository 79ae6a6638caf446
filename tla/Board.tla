--------------------------------- MODULE Board ---------------------------------
(***************************************************************************)
(* What the chair's window shows of the committee's submissions and        *)
(* warnings, and the delegate's window of their own submissions (renderer  *)
(* pages/Chair.tsx, pages/Delegate.tsx SubmissionCard and store.ts), and   *)
(* the handlers of the server behind them (submission/service.ts,          *)
(* monitoring/service.ts).                                                 *)
(*                                                                         *)
(* A row is written by one query.  Its handler then reads it back, waits   *)
(* for its audit entry and pushes what it has read, and other handlers run *)
(* in between.  The list of submissions is fetched once, when the page is  *)
(* mounted; its answer does not come on the socket, so nothing orders it   *)
(* with the pushes.  Delegates get no pushes about submissions: their card *)
(* is fetched when it is mounted, and after that changes only when they    *)
(* delete one.  Warnings are pushed and never fetched.                     *)
(*                                                                         *)
(* An operator that nothing uses is a faulty variant of the one after it.  *)
(***************************************************************************)
EXTENDS Naturals, Sequences, FiniteSets

CONSTANTS
  Submissions,  \* the submissions that delegates may make
  Warnings,     \* the warnings that may be raised
  Jobs,         \* requests that the server may have in hand at one time (a bound)
  MaxInbox      \* bound: pushes on the way to the window

ASSUME BoardConstants == MaxInbox \in Nat /\ Submissions \intersect Warnings = {}

VARIABLES
  submission,  \* the rows of submissions: status, or that there is none
  warning,     \* the rows of warnings
  jobs,        \* the requests in hand
  subscribed,  \* the sink of the chair's window is subscribed
  inbox,       \* the pushes on the way to the window
  mounted,     \* ChairScreen is on the screen
  list,        \* submissions in the store of the pages
  alerts,      \* warnings in the store of the pages
  settled,     \* whether the list was fetched, and since then no two requests
               \* overlapped and no change went unannounced
  card,        \* SubmissionCard of the delegate: the submissions it lists
  carded,      \* it is on the screen
  kept         \* whether the card was fetched, and since then no two requests
               \* overlapped and only it has changed the rows

rows == <<submission, warning>>
cardWindow == <<card, carded>>
boardVars == <<rows, jobs, subscribed, inbox, mounted, list, alerts, settled, cardWindow, kept>>

Absent == "absent"
SubmissionStatus == {Absent, "submitted", "reviewed"}
WarningStatus == {Absent, "raised", "acknowledged"}
Empty == [s \in Submissions |-> Absent]

\* A request: what it is about, its next step, what it has read, and whether
\* it has had the server for itself.
Idle == [op |-> "none", row |-> Absent, at |-> "idle", read |-> Absent, alone |-> TRUE]

BoardInit ==
  /\ submission = Empty /\ warning = [w \in Warnings |-> Absent]
  /\ jobs = [j \in Jobs |-> Idle]
  /\ subscribed = FALSE /\ inbox = <<>>
  /\ mounted = FALSE /\ list = Empty /\ alerts = [w \in Warnings |-> Absent]
  /\ settled = FALSE
  /\ card = Empty /\ carded = FALSE /\ kept = FALSE

Busy == {j \in Jobs : jobs[j] # Idle}

\* The requests in hand, each of which now has another beside it.
Disturbed == [j \in Jobs |-> IF j \in Busy THEN [jobs[j] EXCEPT !.alone = FALSE] ELSE Idle]

\* Request j arrives.
Begin(j, op, row, at) ==
  /\ jobs[j] = Idle
  /\ jobs' = [Disturbed EXCEPT ![j] =
       [op |-> op, row |-> row, at |-> at, read |-> Absent, alone |-> Busy = {}]]
  /\ settled' = (settled /\ Busy = {} /\ op # "withdraw")
  /\ kept' = (kept /\ Busy = {} /\ op \in {"withdraw", "list", "acknowledge"})

Step(j, at, read) == jobs' = [jobs EXCEPT ![j].at = at, ![j].read = read]
End(j) == jobs' = [jobs EXCEPT ![j] = Idle]

\* ChairScreen: the submissions and the warnings that have buttons.
Offered(s) == mounted /\ list[s] # Absent
Alarming(w) == mounted /\ alerts[w] = "raised"

\* broadcastCommittee: to the chair's sink, if there is one, not to delegates.
Push(msg) ==
  /\ Len(inbox) < MaxInbox
  /\ inbox' = IF subscribed THEN Append(inbox, msg) ELSE inbox

-----------------------------------------------------------------------------
\* Submissions.

\* createLinkSubmission, createFileSubmission: INSERT.  Their answer is not put
\* on the card.
Submit(j, s) ==
  /\ carded /\ submission[s] = Absent
  /\ submission' = [submission EXCEPT ![s] = "submitted"]
  /\ Begin(j, "submit", s, "read")
  /\ UNCHANGED <<warning, subscribed, inbox, mounted, list, alerts, cardWindow>>

\* The chair clicks "Mark Reviewed" or "Unreview"; markReviewed: UPDATE.
MarkReviewed(j, s) ==
  /\ Offered(s)
  /\ submission[s] # Absent
  /\ submission' = [submission EXCEPT ![s] = IF @ = "reviewed" THEN "submitted" ELSE "reviewed"]
  /\ Begin(j, "review", s, "read")
  /\ UNCHANGED <<warning, subscribed, inbox, mounted, list, alerts, cardWindow>>

\* getSubmission, after the write of either.
ReadBack(j) ==
  /\ jobs[j].op \in {"submit", "review"} /\ jobs[j].at = "read"
  /\ Step(j, "push", submission[jobs[j].row])
  /\ UNCHANGED <<rows, subscribed, inbox, mounted, list, alerts, settled, cardWindow, kept>>

\* The audit entry is written: broadcastSubmission, broadcastSubmissionUpdate.
\* A row that is gone by then makes no push, or one that the page chokes on.
PushSubmission(j) ==
  /\ jobs[j].op \in {"submit", "review"} /\ jobs[j].at = "push"
  /\ IF jobs[j].read = Absent THEN UNCHANGED inbox
     ELSE Push([row |-> jobs[j].row, status |-> jobs[j].read])
  /\ End(j)
  /\ settled' = (settled /\ subscribed)
  /\ UNCHANGED <<rows, subscribed, mounted, list, alerts, cardWindow, kept>>

\* The chair deletes a submission: SELECT, DELETE, and no broadcast.
Delete(j, s) ==
  /\ Offered(s)
  /\ submission' = [submission EXCEPT ![s] = Absent]
  /\ Begin(j, "delete", s, "answer")
  /\ UNCHANGED <<warning, subscribed, inbox, mounted, list, alerts, cardWindow>>

\* The window takes it from its own list when the answer comes, which a push
\* that was sent before may follow.
DeleteAnswered(j) ==
  /\ jobs[j].op = "delete"
  /\ list' = [list EXCEPT ![jobs[j].row] = Absent]
  /\ End(j)
  /\ settled' = (settled /\ inbox = <<>>)
  /\ UNCHANGED <<rows, subscribed, inbox, mounted, alerts, cardWindow, kept>>

\* SubmissionCard: those of the delegate's that have a delete button.
Mine(s) == carded /\ card[s] # Absent

\* The delegate deletes one of those that the card lists.  The chair's window is
\* not told.
Withdraw(j, s) ==
  /\ Mine(s)
  /\ submission' = [submission EXCEPT ![s] = Absent]
  /\ Begin(j, "withdraw", s, "answer")
  /\ UNCHANGED <<warning, subscribed, inbox, mounted, list, alerts, cardWindow>>

Withdrawn(j) ==
  /\ jobs[j].op = "withdraw"
  /\ card' = [card EXCEPT ![jobs[j].row] = Absent]
  /\ End(j)
  /\ UNCHANGED <<rows, subscribed, inbox, mounted, list, alerts, settled, carded, kept>>

\* Either of them, if the request does not get through or is refused: what it
\* is answered is not looked at, and the window that asked drops the submission
\* all the same.
DeleteFailed(s) ==
  /\ \/ /\ Offered(s)
        /\ list' = [list EXCEPT ![s] = Absent] /\ settled' = FALSE
        /\ UNCHANGED <<card, kept>>
     \/ /\ Mine(s)
        /\ card' = [card EXCEPT ![s] = Absent] /\ kept' = FALSE
        /\ UNCHANGED <<list, settled>>
  /\ UNCHANGED <<rows, jobs, subscribed, inbox, mounted, alerts, carded>>

-----------------------------------------------------------------------------
\* Warnings.

\* createWarning, with its broadcast; Reporting says when one is raised.
Raise(w) ==
  /\ warning[w] = Absent
  /\ warning' = [warning EXCEPT ![w] = "raised"]
  /\ Push([row |-> w, status |-> "raised"])
  /\ UNCHANGED <<submission, jobs, subscribed, mounted, list, alerts, settled, cardWindow, kept>>

\* acknowledgeWarning: only an UPDATE that found it unacknowledged is audited;
\* the other answers with what it finds.
Acknowledge(j, w) ==
  /\ Alarming(w)
  /\ warning' = [warning EXCEPT ![w] = "acknowledged"]
  /\ Begin(j, "acknowledge", w, "push")
  /\ UNCHANGED <<submission, subscribed, inbox, mounted, list, alerts, cardWindow>>

\* The route broadcasts warning_acked for either.
PushAcknowledged(j) ==
  /\ jobs[j].op = "acknowledge"
  /\ Push([row |-> jobs[j].row, status |-> "acknowledged"])
  /\ End(j)
  /\ UNCHANGED <<rows, subscribed, mounted, list, alerts, settled, cardWindow, kept>>

-----------------------------------------------------------------------------
\* The windows.

\* login: the chair's page is mounted with a committee, and asks for its submissions.
Mount(j) ==
  /\ ~mounted
  /\ mounted' = TRUE
  /\ Begin(j, "list", Absent, "read")
  /\ UNCHANGED <<rows, subscribed, inbox, list, alerts, cardWindow>>

\* listSubmissions: SELECT.
ListRead(j) ==
  /\ jobs[j].op \in {"list", "mine"} /\ jobs[j].at = "read"
  /\ Step(j, "answer", submission)
  /\ UNCHANGED <<rows, subscribed, inbox, mounted, list, alerts, settled, cardWindow, kept>>

\* The list read is added to what the page has.
ListMerged(j) ==
  /\ jobs[j].op = "list" /\ jobs[j].at = "answer"
  /\ list' = [s \in Submissions |-> IF list[s] = Absent THEN jobs[j].read[s] ELSE list[s]]
  /\ End(j)
  /\ settled' = (jobs[j].alone /\ subscribed /\ inbox = <<>>)
  /\ UNCHANGED <<rows, subscribed, inbox, mounted, alerts, cardWindow, kept>>

\* refreshSubmissions: set({ submissions }).
ListAnswered(j) ==
  /\ jobs[j].op = "list" /\ jobs[j].at = "answer"
  /\ list' = jobs[j].read
  /\ End(j)
  /\ settled' = (jobs[j].alone /\ subscribed /\ inbox = <<>>)
  /\ UNCHANGED <<rows, subscribed, inbox, mounted, alerts, cardWindow, kept>>

\* A request that fails is answered with an empty list.
ListFailed(j) ==
  /\ jobs[j].op \in {"list", "mine"}
  /\ IF jobs[j].op = "list"
     THEN list' = Empty /\ settled' = FALSE /\ UNCHANGED <<card, kept>>
     ELSE card' = Empty /\ kept' = FALSE /\ UNCHANGED <<list, settled>>
  /\ End(j)
  /\ UNCHANGED <<rows, subscribed, inbox, mounted, alerts, carded>>

\* The delegate signs in, and the card asks for the submissions.
CardMount(j) ==
  /\ ~carded
  /\ carded' = TRUE
  /\ Begin(j, "mine", Absent, "read")
  /\ UNCHANGED <<rows, subscribed, inbox, mounted, list, alerts, card>>

CardAnswered(j) ==
  /\ jobs[j].op = "mine" /\ jobs[j].at = "answer"
  /\ card' = jobs[j].read
  /\ End(j)
  /\ kept' = jobs[j].alone
  /\ UNCHANGED <<rows, subscribed, inbox, mounted, list, alerts, settled, carded>>

\* The delegate is signed out, which does not clear the store.
CardUnmount ==
  /\ carded
  /\ carded' = FALSE /\ kept' = FALSE
  /\ UNCHANGED <<rows, jobs, subscribed, inbox, mounted, list, alerts, settled, card>>

\* handleHello: broker.subscribe.
Subscribe ==
  /\ mounted /\ ~subscribed
  /\ subscribed' = TRUE
  /\ UNCHANGED <<rows, jobs, inbox, mounted, list, alerts, settled, cardWindow, kept>>

\* The connection is lost, with what was on the way.
Unsubscribe ==
  /\ subscribed
  /\ subscribed' = FALSE /\ inbox' = <<>>
  /\ settled' = FALSE
  /\ UNCHANGED <<rows, jobs, mounted, list, alerts, cardWindow, kept>>

\* dispatchEvent, if it only brought rows that are listed up to date.
ReadKnown ==
  /\ inbox # <<>>
  /\ LET msg == Head(inbox) IN
     IF msg.row \in Submissions
     THEN list' = [list EXCEPT ![msg.row] = msg.status] /\ UNCHANGED alerts
     ELSE /\ alerts' = [alerts EXCEPT ![msg.row] = IF @ = Absent THEN @ ELSE msg.status]
          /\ UNCHANGED list
  /\ inbox' = Tail(inbox)
  /\ UNCHANGED <<rows, jobs, subscribed, mounted, settled, cardWindow, kept>>

\* dispatchEvent: submission, submission_update, warning, warning_acked.  An
\* acknowledgement is for a warning that is in the list.
ReadPush ==
  /\ inbox # <<>>
  /\ LET msg == Head(inbox) IN
     IF msg.row \in Submissions
     THEN list' = [list EXCEPT ![msg.row] = msg.status] /\ UNCHANGED alerts
     ELSE /\ alerts' = [alerts EXCEPT ![msg.row] =
                          IF msg.status = "acknowledged" /\ @ = Absent THEN @ ELSE msg.status]
          /\ UNCHANGED list
  /\ inbox' = Tail(inbox)
  /\ UNCHANGED <<rows, jobs, subscribed, mounted, settled, cardWindow, kept>>

\* logout: the warnings are cleared, the submissions are not.
Unmount ==
  /\ mounted
  /\ mounted' = FALSE /\ subscribed' = FALSE /\ inbox' = <<>>
  /\ alerts' = [w \in Warnings |-> Absent]
  /\ settled' = FALSE
  /\ UNCHANGED <<rows, jobs, list, cardWindow, kept>>

-----------------------------------------------------------------------------
\* The chair's window, which is the same for both.
ChairNext ==
  \/ \E j \in Jobs : Mount(j) \/ ListRead(j) \/ ListAnswered(j) \/ ListFailed(j)
  \/ Subscribe \/ Unsubscribe \/ ReadPush \/ Unmount

SubmissionsNext ==
  \/ \E j \in Jobs, s \in Submissions : Submit(j, s) \/ MarkReviewed(j, s) \/ Delete(j, s) \/ Withdraw(j, s)
  \/ \E j \in Jobs : ReadBack(j) \/ PushSubmission(j) \/ DeleteAnswered(j) \/ Withdrawn(j)
  \/ \E j \in Jobs : CardMount(j) \/ CardAnswered(j)
  \/ \E s \in Submissions : DeleteFailed(s)
  \/ CardUnmount
  \/ ChairNext

WarningsNext ==
  \/ \E w \in Warnings : Raise(w)
  \/ \E j \in Jobs, w \in Warnings : Acknowledge(j, w)
  \/ \E j \in Jobs : PushAcknowledged(j)
  \/ ChairNext

\* The page's event loop runs, and the server answers an acknowledgement; what
\* keeps it waiting at times is only the bound on the inbox.
BoardFairness == WF_boardVars(ReadPush) /\ \A j \in Jobs : SF_boardVars(PushAcknowledged(j))

-----------------------------------------------------------------------------
\* Properties.

BoardTypeOK ==
  /\ submission \in [Submissions -> SubmissionStatus]
  /\ {list, card} \subseteq [Submissions -> SubmissionStatus]
  /\ warning \in [Warnings -> WarningStatus] /\ alerts \in [Warnings -> WarningStatus]
  /\ \A j \in Jobs : jobs[j].at \in {"idle", "read", "push", "answer"}
  /\ Len(inbox) <= MaxInbox /\ {subscribed, mounted, settled, carded, kept} \subseteq BOOLEAN

\* A list that was fetched with nothing else going on, and that since then has
\* had its pushes one request at a time, is the table (store.ts
\* refreshSubmissions and dispatchEvent against submission/service.ts); so is
\* the delegate's card, if nobody else has touched it; and nothing is shown as
\* acknowledged that is not.
BoardHonest ==
  /\ settled /\ Busy = {} /\ inbox = <<>> => list = submission
  /\ kept /\ Busy = {} => card = submission
  /\ \A w \in Warnings : alerts[w] = "acknowledged" => warning[w] = "acknowledged"

\* A warning that is pushed to the chair's window comes up there, and one that
\* is being acknowledged stops being offered, unless the connection is lost
\* first (store.ts dispatchEvent, monitoring/routes.ts).
WarningsAreSeen ==
  \A w \in Warnings :
    /\ (\E i \in 1 .. Len(inbox) : inbox[i] = [row |-> w, status |-> "raised"])
         ~> (alerts[w] # Absent \/ ~subscribed)
    /\ (\E j \in Jobs : jobs[j].op = "acknowledge" /\ jobs[j].row = w)
         ~> (alerts[w] # "raised" \/ ~subscribed)
=============================================================================
