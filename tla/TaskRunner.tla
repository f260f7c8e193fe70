----------------------------- MODULE TaskRunner -----------------------------
(***************************************************************************)
(* TaskManagerClient (src/src/task_mgr_client.ts): the instances of an App *)
(* that run one task with runnerStart, runnerProgress, runnerWait,         *)
(* runnerComplete and runnerFail, each a read of the task and one or two   *)
(* writes fenced by what was read.                                         *)
(*                                                                         *)
(* External: the task manager applies one call at a time.  It refuses a    *)
(* write made on another revision or epoch than the task's, or in a phase  *)
(* that does not allow it.  The dispatcher binds the task to an instance   *)
(* and releases it; users ask for control and change who may see it.       *)
(***************************************************************************)
EXTENDS Naturals, FiniteSets, Sequences

CONSTANTS
  Runners,       \* instances of the App
  MaxRevision,   \* bound: changes of the task
  MaxCalls       \* bound: calls of one runner

VARIABLES
  task,   \* the task
  run     \* what each runner does

vars == <<task, run>>

-----------------------------------------------------------------------------
(* The wire.                                                               *)

Phases == {"Promised", "Accepted", "Running", "Waiting", "Paused", "Terminal"}
Outcomes == {"none", "Succeeded", "Failed", "Canceled"}
Actions == {"none", "Pause", "Resume", "Cancel"}

IsTerminalTaskPhase(phase) == phase = "Terminal"

Codes == <<"task_not_found", "permission_denied", "revision_conflict", "stale_runner_epoch",
           "invalid_task_phase", "control_not_available", "control_already_pending",
           "task_already_completed", "input_schema_mismatch", "result_schema_mismatch",
           "idempotency_conflict", "task_schema_not_found">>

\* The first code of the list whose first place in the message is a word of
\* its own; a message is a sequence of pieces.
TaskMgrErrorCode(message) ==
  LET Found(code) == {i \in DOMAIN message : message[i].text = code}
      First(s) == CHOOSE i \in s : \A j \in s : i <= j
      named == {c \in DOMAIN Codes : Found(Codes[c]) # {} /\ message[First(Found(Codes[c]))].word}
  IN  IF named = {} THEN "none" ELSE Codes[First(named)]

Says(code) == <<[text |-> code, word |-> TRUE]>>

\* What a method must answer; anything else is an error of the call, which the
\* service has executed all the same.
Answer == [m \in {"create_task", "get_task", "archive_task", "update_assignees", "grant_task_access",
                  "revoke_task_access", "report_started", "report_progress", "report_waiting",
                  "report_running", "update_control_profile", "ack_control", "commit_result", "fail_task",
                  "create_promised_task", "set_promise_wait", "bind_app_executor", "release_app_executor",
                  "finish_promise_failure", "cancel_promised_task"} |-> {"task"}]

Lists == [list_tasks |-> {"tasks"}, get_task_tree |-> {"tasks"}, get_subtasks |-> {"tasks"},
          request_control |-> {"Task", "Batch"}, list_task_access |-> {"grants"},
          register_task_schema |-> {"anything"}, get_task_schema |-> {"anything"},
          list_task_schemas |-> {"schemas"}, set_task_schema_enabled |-> {"anything"},
          list_task_events |-> {"events"}, add_task_note |-> {"note"}, list_task_notes |-> {"notes"}]

Readable(method, got) ==
  IF method \in DOMAIN Answer THEN got \in Answer[method]
  ELSE "anything" \in Lists[method] \/ got \in Lists[method]

-----------------------------------------------------------------------------
(* The service.                                                            *)

NoTask == [phase |-> "Promised", outcome |-> "none", by |-> "none", control |-> "none",
           instance |-> "none", epoch |-> 0, revision |-> 0]

\* When a write is allowed, and what it makes of the task.
Allowed(method, t) ==
  CASE method = "report_started" -> t.phase = "Accepted"
    [] method = "report_running" -> t.phase = "Waiting"
    [] method = "report_progress" -> t.phase \in {"Running", "Waiting", "Paused"}
    [] method = "report_waiting" -> t.phase = "Running"
    [] method = "ack_control" -> t.control # "none" /\ ~IsTerminalTaskPhase(t.phase)
    [] method \in {"commit_result", "fail_task"} -> t.phase \in {"Running", "Waiting", "Paused"}

Applied(method, t, by) ==
  LET u == [t EXCEPT !.revision = @ + 1] IN
  CASE method \in {"report_started", "report_running"} -> [u EXCEPT !.phase = "Running"]
    [] method = "report_progress" -> u
    [] method = "report_waiting" -> [u EXCEPT !.phase = "Waiting"]
    [] method = "commit_result" -> [u EXCEPT !.phase = "Terminal", !.outcome = "Succeeded", !.by = by]
    [] method = "fail_task" -> [u EXCEPT !.phase = "Terminal", !.outcome = "Failed", !.by = by]
    [] method = "ack_control" ->
         [u EXCEPT !.control = "none",
                   !.phase = CASE t.control = "Pause" -> "Paused"
                               [] t.control = "Resume" -> "Running"
                               [] OTHER -> "Terminal",
                   !.outcome = IF t.control = "Cancel" THEN "Canceled" ELSE @,
                   !.by = IF t.control = "Cancel" THEN by ELSE @]

RefusedWith(method, e) ==
  IF IsTerminalTaskPhase(task.phase) /\ e.revision = task.revision THEN "task_already_completed"
  ELSE IF e.revision # task.revision THEN "revision_conflict"
  ELSE IF e.epoch # task.epoch THEN "stale_runner_epoch"
  ELSE IF ~Allowed(method, task) THEN "invalid_task_phase" ELSE "none"

-----------------------------------------------------------------------------
(* The runner.                                                             *)

NoRun == [verb |-> "none", at |-> "idle", read |-> NoTask, first |-> 0, calls |-> 0, got |-> "none"]

Init == task = NoTask /\ run = [r \in Runners |-> NoRun]

Verbs == {"start", "progress", "wait", "complete", "fail", "ack"}

Begin(r, verb) ==
  /\ run[r].at = "idle" /\ run[r].calls < MaxCalls
  /\ task.epoch > 0
  /\ run' = [run EXCEPT ![r] = [NoRun EXCEPT !.verb = verb, !.at = "read", !.calls = run[r].calls + 1]]
  /\ UNCHANGED task

Ends(r, got) == [run[r] EXCEPT !.at = "idle", !.got = got, !.read = NoTask]
EndsWith(r, t) == [run[r] EXCEPT !.at = "idle", !.got = "task", !.read = t]

\* The writes are fenced by the snapshot: also its epoch and its instance.
SnapshotEnvelope(t) == [revision |-> t.revision, epoch |-> t.epoch, instance |-> t.instance]

\* getTask, the first of every verb.
Read(r) ==
  /\ run[r].at = "read"
  /\ LET seen == [run[r] EXCEPT !.read = task, !.first = task.revision] IN
     run' = [run EXCEPT ![r] =
       CASE run[r].verb \in {"start", "wait"} ->
              IF task.phase \in {"Accepted", "Waiting"} THEN [seen EXCEPT !.at = "report"]
              ELSE IF run[r].verb = "wait" /\ task.phase = "Running" THEN [seen EXCEPT !.at = "waiting"]
              ELSE [seen EXCEPT !.at = "idle", !.got = "task"]
         [] run[r].verb \in {"progress", "complete", "fail"} ->
              IF IsTerminalTaskPhase(task.phase) THEN [seen EXCEPT !.at = "idle", !.got = "task"]
              ELSE [seen EXCEPT !.at = "report"]
         [] OTHER -> [seen EXCEPT !.at = "report"]]
  /\ UNCHANGED task

MethodOf(r) ==
  CASE run[r].at = "waiting" -> "report_waiting"
    [] run[r].verb \in {"start", "wait"} ->
         IF run[r].read.phase = "Accepted" THEN "report_started" ELSE "report_running"
    [] run[r].verb = "progress" -> "report_progress"
    [] run[r].verb = "complete" -> "commit_result"
    [] run[r].verb = "fail" -> "fail_task"
    [] OTHER -> "ack_control"

\* runnerStart returns what it finds then.
FindsOut(r, code) ==
  run[r].verb \in {"start", "wait"} /\ run[r].at = "report" /\ code \in {"revision_conflict", "invalid_task_phase"}

\* runnerProgress and runnerComplete read again, once.
TriesAgain(r, code) ==
  run[r].verb \in {"progress", "complete"} /\ run[r].at = "report" /\ code = "revision_conflict"

\* A write is applied, or refused.
Write(r) ==
  LET method == MethodOf(r)
      code == TaskMgrErrorCode(Says(RefusedWith(method, SnapshotEnvelope(run[r].read)))) IN
  /\ run[r].at \in {"report", "again", "waiting"}
  /\ IF code = "none"
     THEN /\ task.revision < MaxRevision
          /\ task' = Applied(method, task, r)
          /\ run' = [run EXCEPT ![r] = IF run[r].verb = "wait" /\ run[r].at = "report"
                                       THEN [@ EXCEPT !.at = "waiting", !.read = task']
                                       ELSE EndsWith(r, task')]
     ELSE /\ UNCHANGED task
          /\ run' = [run EXCEPT ![r] = IF FindsOut(r, code) THEN [@ EXCEPT !.at = "findOut"]
                                       ELSE IF TriesAgain(r, code) THEN [@ EXCEPT !.at = "readAgain"]
                                       ELSE Ends(r, code)]

ReadAgain(r) ==
  /\ run[r].at \in {"findOut", "readAgain"}
  /\ run' = [run EXCEPT ![r] =
       IF run[r].at = "findOut" \/ (run[r].verb = "complete" /\ IsTerminalTaskPhase(task.phase))
       THEN IF run[r].verb = "wait" /\ task.phase = "Running"
            THEN [@ EXCEPT !.at = "waiting", !.read = task]
            ELSE EndsWith(r, task)
       ELSE [@ EXCEPT !.at = "again", !.read = task]]
  /\ UNCHANGED task

\* The request, or the answer, is lost, or the answer cannot be read: an error.
CallFails(r, executed, got) ==
  LET method == IF run[r].at \in {"read", "findOut", "readAgain"} THEN "get_task" ELSE MethodOf(r) IN
  /\ run[r].at # "idle"
  /\ got = "lost" \/ ~Readable(method, got)
  /\ run' = [run EXCEPT ![r] = Ends(r, "lost")]
  /\ IF executed
     THEN /\ method # "get_task" /\ task.revision < MaxRevision
          /\ RefusedWith(method, SnapshotEnvelope(run[r].read)) = "none"
          /\ task' = Applied(method, task, r)
     ELSE UNCHANGED task

-----------------------------------------------------------------------------
(* The others.                                                             *)

\* bind_app_executor: a promise is given to an instance, under a new epoch.
Bind(r) ==
  /\ task.phase = "Promised" /\ task.revision < MaxRevision
  /\ task' = [task EXCEPT !.phase = "Accepted", !.instance = r, !.epoch = @ + 1, !.revision = @ + 1]
  /\ UNCHANGED run

\* release_app_executor: the task is a promise again.
Release ==
  /\ task.instance # "none" /\ ~IsTerminalTaskPhase(task.phase) /\ task.revision < MaxRevision
  /\ task' = [task EXCEPT !.phase = "Promised", !.instance = "none", !.control = "none", !.revision = @ + 1]
  /\ UNCHANGED run

\* finish_promise_failure and cancel_promised_task.
PromiseEnds(outcome) ==
  /\ task.phase = "Promised" /\ task.revision < MaxRevision
  /\ task' = [task EXCEPT !.phase = "Terminal", !.outcome = outcome, !.by = "dispatcher", !.revision = @ + 1]
  /\ UNCHANGED run

\* request_control; set_promise_wait, update_assignees, grants, the profile of
\* controls and the archive change no more than the revision.
UserChanges(control) ==
  /\ task.revision < MaxRevision
  /\ control # "none" => task.phase \in {"Running", "Waiting", "Paused"} /\ task.control = "none"
  /\ task' = [task EXCEPT !.revision = @ + 1, !.control = IF control = "none" THEN @ ELSE control]
  /\ UNCHANGED run

Runner(r) ==
  \/ \E verb \in Verbs : Begin(r, verb)
  \/ Read(r) \/ Write(r) \/ ReadAgain(r)
  \/ \E executed \in BOOLEAN, got \in {"lost", "task", "tasks"} : CallFails(r, executed, got)

Next ==
  \/ \E r \in Runners : Runner(r) \/ Bind(r)
  \/ Release
  \/ \E outcome \in {"Failed", "Canceled"} : PromiseEnds(outcome)
  \/ \E control \in Actions : UserChanges(control)

Spec == Init /\ [][Next]_vars

-----------------------------------------------------------------------------
(* Properties.                                                             *)

TypeOK ==
  /\ task.phase \in Phases /\ task.outcome \in Outcomes /\ task.control \in Actions
  /\ task.revision \in 0..MaxRevision
  /\ \A r \in Runners : run[r].read.phase \in Phases /\ run[r].calls \in 0..MaxCalls

\* A runner that completes or fails the task and gets no error holds a task
\* that has ended, its own result or the one that won; and it is told of a
\* conflict only if the task changed under it twice, once where the verb does
\* not read again.
EndIsHeard ==
  \A r \in Runners :
    LET c == run[r] IN
    c.at = "idle" =>
      /\ c.verb \in {"complete", "fail"} /\ c.got = "task"
           => IsTerminalTaskPhase(c.read.phase) /\ c.read.outcome = task.outcome /\ c.read.by = task.by
      /\ c.got = "revision_conflict"
           => task.revision >= c.first + (IF c.verb \in {"complete", "progress"} THEN 2 ELSE 1)
      /\ c.verb = "start" => c.got # "revision_conflict"
=============================================================================
