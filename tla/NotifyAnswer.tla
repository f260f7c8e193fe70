---------------------------- MODULE NotifyAnswer ----------------------------
(***************************************************************************)
(* MsgCenterClient and the notifications of the system                     *)
(* (src/src/msg_center_client.ts): answerNotify, with which several users  *)
(* of an `input` race for its task, and waitNotify, which polls until the  *)
(* notification is closed or a deadline passes.                            *)
(*                                                                         *)
(* External: the message center, which shows a notification in the state   *)
(* of its task; the task manager, which keeps the first result and refuses *)
(* a write on another revision.                                            *)
(***************************************************************************)
EXTENDS Naturals, FiniteSets

CONSTANTS
  Users,         \* who answers
  Options,       \* options of the question; none asks for a text
  Given,         \* answers users give, a subset of Answers
  Deadline,      \* of waitNotify, in steps of the first interval
  MaxInterval,   \* the longest interval between two polls, likewise
  MaxChanges     \* bound: changes of the task

VARIABLES
  prompt,   \* the notification: kind, and whether a text is taken
  task,     \* its task; of a notice, the state of the notice
  user,     \* what each user does
  waiter,   \* waitNotify
  now,
  reply     \* what another method returned last: [kind, value]

vars == <<prompt, task, user, waiter, now, reply>>

-----------------------------------------------------------------------------
(* The client: what a method takes for an answer.                          *)

\* A method by what its answer has to be.  A page without its list is an
\* empty one; a view and a count have fields of their type.
MailMethods ==
  [dispatch |-> "record", post_send |-> "record", list_mailboxes |-> "array", move_record |-> "record",
   get_next |-> "optionalRecord", get_next_delivery |-> "optionalRecord", peek_box |-> "array",
   list_box_by_time |-> "page", list_sessions |-> "page", list_session |-> "page",
   update_record_state |-> "record", update_record_session |-> "record", report_delivery |-> "record",
   set_read_state |-> "record", list_read_receipts |-> "array", get_record |-> "optionalRecord",
   get_message |-> "optionalRecord"]
UiSessionMethods == [update_state |-> "record", get_state |-> "optionalRecord", list_state |-> "array"]
DidMethods ==
  [resolve_did |-> "string", resolve_endpoint_did |-> "string", resolve_target |-> "string",
   resolve_contact_for_endpoint |-> "optionalString", resolve_canonical_did |-> "string", list_alias_dids |-> "array"]
ContactMethods ==
  [get_preferred_binding |-> "record", check_access_permission |-> "record", grant_temporary_access |-> "page",
   block_contact |-> "nothing", import_contacts |-> "record", merge_contacts |-> "record", update_contact |-> "record",
   get_contact |-> "optionalRecord", list_contacts |-> "array"]
GroupMethods == [get_group_subscribers |-> "array", set_group_subscribers |-> "typed", lookup |-> "page"]
FriendMethods ==
  [update_tags |-> "record", remove_contact |-> "nothing", unblock_contact |-> "record",
   send_friend_request |-> "record", respond_friend_request |-> "record", cancel_friend_request |-> "record",
   remove_friend |-> "record", list_friend_requests |-> "optionalPage"]
NotifyMethods ==
  [send |-> "typed", get |-> "typed", list |-> "recordWithList", ack |-> "typed", dismiss |-> "typed", cancel |-> "typed"]
Kinds ==
  UNION {{methods[m] : m \in DOMAIN methods} :
           methods \in {MailMethods, UiSessionMethods, DidMethods, ContactMethods, GroupMethods, FriendMethods, NotifyMethods}}

\* What comes: its shape, and of an object whether the fields of its type and its list are there.
Shapes == [shape : {"null", "string", "array", "scalar"}, typed : {FALSE}, list : {FALSE}]
            \cup [shape : {"object"}, typed : BOOLEAN, list : BOOLEAN]

\* asRecord, asOptionalRecord, asArrayOf, asDid, asOptionalDid, asNotifyView: what throws, and what is returned.
Taken(kind, got) ==
  \/ kind = "nothing"
  \/ kind \in {"optionalRecord", "optionalString", "optionalPage"} /\ got.shape = "null"
  \/ kind \in {"string", "optionalString"} /\ got.shape = "string"
  \/ kind = "array" /\ got.shape = "array"
  \/ kind \in {"record", "optionalRecord", "page", "optionalPage"} /\ got.shape = "object"
  \/ kind = "typed" /\ got.shape = "object" /\ got.typed
  \/ kind = "recordWithList" /\ got.shape = "object" /\ got.typed /\ got.list
Returned(kind, got) ==
  CASE kind = "nothing" -> [got EXCEPT !.shape = "nothing"]
    [] kind = "page" -> [got EXCEPT !.list = TRUE]
    [] kind = "optionalPage" -> [shape |-> "array", typed |-> FALSE, list |-> FALSE]
    [] OTHER -> got

-----------------------------------------------------------------------------
(* Notifications.                                                          *)

Open == {"open", "read"}
Closed == {"answered", "dismissed", "expired", "canceled"}
IsNotifyClosed(status) == status \notin Open

Answers == [dismiss : BOOLEAN, option : Options \cup {"none", "unknown"}, text : BOOLEAN]

\* inputPrompt: a text is asked for when there is no option.
InputPrompt(allowText) == [kind |-> "input", text |-> Options = {} \/ allowText]
Notice == [kind |-> "notice", text |-> FALSE]

ValidateNotifyAnswer(a) ==
  \/ a.dismiss
  \/ /\ a.option \in Options \cup {"none"}
     /\ a.text => prompt.text
     /\ a.option # "none" \/ a.text

Result(a) == IF a.dismiss THEN "dismissed" ELSE "answered"

-----------------------------------------------------------------------------
(* External: the task.                                                     *)

NoUser == [answer |-> [dismiss |-> TRUE, option |-> "none", text |-> FALSE],
           at |-> "idle", attempt |-> 0, revision |-> 0, first |-> 0, got |-> "none"]
NoWaiter == [at |-> "idle", status |-> "open", interval |-> 1, wake |-> 0, watching |-> FALSE, reader |-> "none"]

NoReply == [kind |-> "none"]

Init ==
  /\ prompt \in {InputPrompt(TRUE), InputPrompt(FALSE), Notice}
  /\ task = [status |-> "open", by |-> "none", revision |-> 0]
  /\ user = [u \in Users |-> NoUser]
  /\ waiter = NoWaiter
  /\ now = 0
  /\ reply = NoReply

\* A result is taken on the revision the writer read, once.
Committed(t, revision, status, by) ==
  CASE IsNotifyClosed(t.status) -> "task_already_completed"
    [] t.revision # revision -> "revision_conflict"
    [] OTHER -> "none"

\* Assignees, controls, a note of the agent that asked.
TaskChanges ==
  /\ ~IsNotifyClosed(task.status) /\ task.revision < MaxChanges
  /\ task' = [task EXCEPT !.revision = @ + 1]
  /\ UNCHANGED <<prompt, user, waiter, now, reply>>

\* It expires, or the caller cancels it (notify.cancel).
TaskEnds(status) ==
  /\ ~IsNotifyClosed(task.status)
  /\ task' = [task EXCEPT !.status = status, !.by = "other", !.revision = @ + 1]
  /\ UNCHANGED <<prompt, user, waiter, now, reply>>

-----------------------------------------------------------------------------
(* answerNotify.                                                           *)

UserGoes(u, c) == user' = [user EXCEPT ![u] = c] /\ UNCHANGED <<prompt, waiter, now, reply>>
Returns(u, got) == [user[u] EXCEPT !.at = "done", !.got = got]

AnswerNotify(u, a) ==
  /\ user[u].at = "idle"
  /\ UserGoes(u, [NoUser EXCEPT !.answer = a, !.at = "view"])
  /\ UNCHANGED task

\* notify.get
ReadView(u) ==
  /\ user[u].at = "view"
  /\ UserGoes(u, IF prompt.kind = "notice" THEN [user[u] EXCEPT !.at = "mark"]
                 ELSE IF IsNotifyClosed(task.status) THEN Returns(u, task.status)
                 ELSE IF ~ValidateNotifyAnswer(user[u].answer) THEN Returns(u, "invalid")
                 ELSE [user[u] EXCEPT !.at = "read", !.first = task.revision])
  /\ UNCHANGED task

\* notify.ack or notify.dismiss: a notice that is closed stays as it is.
MarkNotice(u) ==
  /\ user[u].at = "mark"
  /\ task' = IF IsNotifyClosed(task.status) THEN task
             ELSE [task EXCEPT !.status = IF user[u].answer.dismiss THEN "dismissed" ELSE "read", !.by = u]
  /\ UserGoes(u, Returns(u, task'.status))

\* commitNotifyAnswer: the latest snapshot.
ReadTask(u) ==
  /\ user[u].at = "read"
  /\ UserGoes(u, IF IsNotifyClosed(task.status) THEN [user[u] EXCEPT !.at = "lastView"]
                 ELSE [user[u] EXCEPT !.at = "commit", !.revision = task.revision])
  /\ UNCHANGED task

\* Seeded: a conflict is taken for somebody else's answer.
OneAttempt == 1

Attempts == 3

Commit(u) ==
  LET code == Committed(task, user[u].revision, Result(user[u].answer), u) IN
  /\ user[u].at = "commit"
  /\ task' = IF code = "none"
             THEN [status |-> Result(user[u].answer), by |-> u, revision |-> task.revision + 1]
             ELSE task
  /\ UserGoes(u, CASE code = "none" -> [user[u] EXCEPT !.at = "lastView"]
                   [] code = "task_already_completed" -> [user[u] EXCEPT !.at = "readClosed"]
                   [] OTHER -> [user[u] EXCEPT !.attempt = @ + 1,
                                               !.at = IF user[u].attempt + 1 < Attempts THEN "read" ELSE "lastRead"])

\* The task as it is in the end.
ReadClosed(u) ==
  /\ user[u].at \in {"readClosed", "lastRead"}
  /\ UserGoes(u, IF user[u].at = "readClosed" \/ IsNotifyClosed(task.status)
                 THEN [user[u] EXCEPT !.at = "lastView"]
                 ELSE Returns(u, "keepsChanging"))
  /\ UNCHANGED task

LastView(u) ==
  /\ user[u].at = "lastView"
  /\ UserGoes(u, Returns(u, task.status))
  /\ UNCHANGED task

\* An error, or no answer: the request may have been served.
CallFails(u, served) ==
  /\ user[u].at \notin {"idle", "done"}
  /\ task' = IF served /\ user[u].at = "commit"
                /\ Committed(task, user[u].revision, Result(user[u].answer), u) = "none"
             THEN [status |-> Result(user[u].answer), by |-> u, revision |-> task.revision + 1]
             ELSE task
  /\ UserGoes(u, Returns(u, "failed"))

-----------------------------------------------------------------------------
(* waitNotify.                                                             *)

WaiterGoes(w) == waiter' = w /\ UNCHANGED <<prompt, task, user, now, reply>>

\* The first notify.get; a reader is opened in the background.
StartWait(kevent) ==
  /\ waiter.at = "idle"
  /\ WaiterGoes([waiter EXCEPT !.at = "check", !.status = task.status,
       !.reader = IF kevent /\ prompt.kind = "input" /\ ~IsNotifyClosed(task.status) THEN "opening" ELSE "none"])

\* `finally`
CloseReader(r) == IF r = "open" THEN "closed" ELSE r

Least(a, b) == IF a < b THEN a ELSE b
Pause(interval) == Least(interval, Deadline - now)

Check ==
  /\ waiter.at = "check"
  /\ WaiterGoes(IF IsNotifyClosed(waiter.status) \/ now >= Deadline
                THEN [waiter EXCEPT !.at = "done", !.reader = CloseReader(@)]
                ELSE [waiter EXCEPT !.at = "pause", !.wake = now + Pause(waiter.interval),
                                    !.watching = waiter.reader = "open"])

\* An event, or the interval: a reader that breaks or ends early leaves the
\* rest of the interval to a timer.
PauseEnds(event) ==
  /\ waiter.at = "pause"
  /\ IF event THEN waiter.watching ELSE now >= waiter.wake
  /\ WaiterGoes([waiter EXCEPT !.at = "poll", !.interval = Least(2 * @, MaxInterval)])

\* Each poll is answered, or throws.
Poll(answered) ==
  /\ waiter.at = "poll"
  /\ WaiterGoes(IF answered THEN [waiter EXCEPT !.at = "check", !.status = task.status]
                ELSE [waiter EXCEPT !.at = "failed", !.reader = CloseReader(@)])

\* What becomes of a reader when it opens.
OpenedAs == IF waiter.at \in {"done", "failed"} THEN "closed" ELSE "open"

ReaderOpens(opens) ==
  /\ waiter.reader = "opening"
  /\ WaiterGoes([waiter EXCEPT !.reader = IF opens THEN OpenedAs ELSE "none"])

Tick ==
  /\ now < Deadline
  /\ now' = now + 1
  /\ UNCHANGED <<prompt, task, user, waiter, reply>>

\* Another method of the client.  Bound: before anybody answers or waits.
Ask(kind, got) ==
  /\ waiter = NoWaiter /\ task.revision = 0 /\ task.status = "open" /\ \A u \in Users : user[u] = NoUser
  /\ Taken(kind, got)
  /\ reply' = [kind |-> kind, value |-> Returned(kind, got)]
  /\ UNCHANGED <<prompt, task, user, waiter, now>>

User(u) ==
  \/ \E a \in Given : AnswerNotify(u, a)
  \/ ReadView(u) \/ MarkNotice(u) \/ ReadTask(u) \/ Commit(u) \/ ReadClosed(u) \/ LastView(u)
  \/ \E served \in BOOLEAN : CallFails(u, served)

Waits == Check \/ PauseEnds(FALSE) \/ \E answered \in BOOLEAN : Poll(answered)

Asks == \E kind \in Kinds, got \in Shapes : Ask(kind, got)

Next ==
  \/ Asks \/ Tick
  \/ /\ reply = NoReply
     /\ \/ \E u \in Users : User(u)
        \/ \E kevent \in BOOLEAN : StartWait(kevent)
        \/ Waits \/ PauseEnds(TRUE)
        \/ \E opens \in BOOLEAN : ReaderOpens(opens)
        \/ TaskChanges \/ \E status \in {"expired", "canceled"} : TaskEnds(status)

Spec == Init /\ [][Next]_vars

\* Timers run, and a request is answered or fails.
FairSpec == Spec /\ WF_vars(Waits) /\ WF_vars(Tick)

-----------------------------------------------------------------------------
(* Properties.                                                             *)

\* An answer that gets no error shows the notification as it ended, by this
\* answer or by the one that won; a user is told that the task keeps changing
\* only if it changed three times under the call; and what was refused as an
\* answer is never the result.
AnswersSettle ==
  \A u \in Users :
    LET c == user[u] IN
    /\ c.at = "done" /\ prompt.kind = "input" =>
         /\ c.got \in {"invalid", "failed", "keepsChanging"} \/ (c.got = task.status /\ IsNotifyClosed(c.got))
         /\ c.got = "keepsChanging" => task.revision >= c.first + 3
    /\ task.by = u /\ prompt.kind = "input" => ValidateNotifyAnswer(c.answer) /\ Result(c.answer) = task.status

\* What any other method returns is of the type it declares: a list that can
\* be walked, fields that can be read, null only where null may be.
RepliesAreTyped ==
  reply # NoReply =>
    /\ reply.value.shape = "null" => reply.kind \in {"optionalRecord", "optionalString"}
    /\ reply.kind = "page" => reply.value.shape = "object" /\ reply.value.list
    /\ reply.kind \in {"array", "optionalPage"} => reply.value.shape = "array"
    /\ reply.kind \in {"typed", "recordWithList"} => reply.value.typed
    /\ reply.kind \in {"string", "optionalString"} => reply.value.shape \in {"string", "null"}

\* waitNotify returns a view that is closed, or the last one at its deadline;
\* it never sleeps past the deadline, and leaves no reader open.
WaitIsHonest ==
  /\ waiter.at = "done" => IsNotifyClosed(waiter.status) \/ now >= Deadline
  /\ waiter.at = "done" /\ IsNotifyClosed(waiter.status) => waiter.status = task.status
  /\ waiter.at = "pause" => waiter.wake <= Deadline
  /\ waiter.at \in {"done", "failed"} => waiter.reader # "open"

\* waitNotify returns.
Waiting == waiter.at # "idle"
Waited == waiter.at \in {"done", "failed"}
WaitEnds == Waiting ~> Waited
-----------------------------------------------------------------------------
(* The inductive invariant.                                                *)

\* The type of what waitNotify looks at.
WaitTypeOK ==
  /\ task.status \in Open \cup Closed
  /\ waiter \in [at : {"idle", "check", "pause", "poll", "done", "failed"}, status : Open \cup Closed,
                 interval : Nat, wake : Nat, watching : BOOLEAN, reader : {"none", "opening", "open", "closed"}]
  /\ now \in 0 .. Deadline

\* What waitNotify saw closed stays as it is.
ClosedIsFinal == IsNotifyClosed(waiter.status) => waiter.status = task.status

WaitInv == WaitTypeOK /\ ClosedIsFinal /\ WaitIsHonest
=============================================================================
