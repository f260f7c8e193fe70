------------------------------ MODULE TaskWait ------------------------------
(***************************************************************************)
(* The task commands of the command-line tool (src/cli/modules/task.ts)    *)
(* and waitForTask (src/cli/core/task.ts), with which every command that   *)
(* starts a task waits for it.                                             *)
(*                                                                         *)
(* External: the task manager runs tasks; control-panel makes a new task   *)
(* of one that failed.  A reader of events may be had or not, and may end  *)
(* or break at any time.                                                   *)
(***************************************************************************)
EXTENDS Naturals, FiniteSets

CONSTANTS
  Deadline,     \* of the command (--timeout), in poll intervals
  MaxRevision   \* bound: changes of a task

VARIABLES
  tasks,     \* the task asked for, and the one that retries it
  command,   \* the command
  reader,    \* the reader of events: "none" "live" "ended" "broken" "closed"
  reported,  \* revisions shown to the user, the latest last
  now

vars == <<tasks, command, reader, reported, now>>

-----------------------------------------------------------------------------
(* Tasks.                                                                  *)

Task == [phase |-> "Running", outcome |-> "none", revision |-> 1]
Absent == [phase |-> "absent", outcome |-> "none", revision |-> 0]
Ids == {"old", "new"}

\* A name of a phase in any case; an unknown one is refused.
NormalizePhase(value) ==
  LET known == [promised |-> "Promised", accepted |-> "Accepted", running |-> "Running",
                waiting |-> "Waiting", paused |-> "Paused", terminal |-> "Terminal"] IN
  IF value \in DOMAIN known THEN known[value] ELSE "INVALID_ARGUMENT"

NormalizeLimit(limit) == limit \in 1..500

NoCommand == [verb |-> "none", at |-> "idle", id |-> "old", fails |-> FALSE, seen |-> Absent, last |-> 0,
              until |-> 0, result |-> "none"]

Init ==
  /\ tasks = [id \in Ids |-> IF id = "old" THEN Task ELSE Absent]
  /\ command = NoCommand /\ reader = "none" /\ reported = {} /\ now = 0

Runs(c) == command' = c
Ends(result) == command' = [command EXCEPT !.at = "done", !.result = result]

-----------------------------------------------------------------------------
(* The commands.                                                           *)

\* `wait` does not fail with the task.
Wait ==
  /\ command.at = "idle"
  /\ Runs([NoCommand EXCEPT !.verb = "wait", !.at = "open"])
  /\ UNCHANGED <<tasks, reader, reported, now>>

List(phase, limit) ==
  /\ command.at = "idle"
  /\ Runs([NoCommand EXCEPT !.verb = "list", !.at = "done",
       !.result = IF NormalizePhase(phase) = "INVALID_ARGUMENT" \/ ~NormalizeLimit(limit)
                  THEN "INVALID_ARGUMENT" ELSE "listed"])
  /\ UNCHANGED <<tasks, reader, reported, now>>

\* The task and a page of its children, which are read on their own.
Get(limit, page) ==
  /\ command.at = "idle"
  /\ Runs([NoCommand EXCEPT !.verb = "get", !.at = "done",
       !.result = IF ~NormalizeLimit(limit) THEN "INVALID_ARGUMENT"
                  ELSE IF page THEN "shown" ELSE "INVALID_SERVICE_RESPONSE"])
  /\ UNCHANGED <<tasks, reader, reported, now>>

\* request_control under a fresh id, fenced by the revision the user may give.
Cancel(expected) ==
  /\ command.at = "idle"
  /\ IF expected \in {0, tasks["old"].revision} /\ tasks["old"].phase # "Terminal"
     THEN /\ tasks["old"].revision < MaxRevision
          /\ tasks' = [tasks EXCEPT !["old"] = [phase |-> "Terminal", outcome |-> "Canceled", revision |-> @.revision + 1]]
          /\ Runs([NoCommand EXCEPT !.verb = "cancel", !.at = "done", !.result = "requested"])
     ELSE /\ Runs([NoCommand EXCEPT !.verb = "cancel", !.at = "done", !.result = "refused"])
          /\ UNCHANGED tasks
  /\ UNCHANGED <<reader, reported, now>>

\* Only a task that ended as failed is tried again.
Retry ==
  /\ command.at = "idle"
  /\ LET c == [NoCommand EXCEPT !.verb = "retry", !.fails = TRUE] IN
     Runs(IF tasks["old"].phase = "Terminal" /\ tasks["old"].outcome = "Failed"
          THEN [c EXCEPT !.at = "retry"]
          ELSE [c EXCEPT !.at = "done", !.result = "TASK_NOT_RETRYABLE"])
  /\ UNCHANGED <<tasks, reader, reported, now>>

\* task.retry: what it answers must name another task, made of this one.
RetryMade(answer, noWait) ==
  /\ command.at = "retry"
  /\ tasks' = IF answer = "refused" THEN tasks ELSE [tasks EXCEPT !["new"] = Task]
  /\ CASE answer = "new" /\ noWait -> Ends("created")
       [] answer = "new" -> Runs([command EXCEPT !.at = "open", !.id = "new"])
       [] answer \in {"same", "another"} -> Ends("INVALID_SERVICE_RESPONSE")
       [] OTHER -> Ends("failed")
  /\ UNCHANGED <<reader, reported, now>>

-----------------------------------------------------------------------------
(* waitForTask.                                                            *)

\* createEventReader, which may be absent, refuse or time out.
OpenReader(r) ==
  /\ command.at = "open"
  /\ reader' = r
  /\ Runs([command EXCEPT !.at = "observe"])
  /\ UNCHANGED <<tasks, reported, now>>

\* `finally`
CloseReader == reader' = IF reader = "none" THEN "none" ELSE "closed"

Changed == command.last # tasks[command.id].revision

\* get_task, what it says reported if it is new.
Observe ==
  /\ command.at = "observe"
  /\ Runs([command EXCEPT !.at = "decide", !.seen = tasks[command.id], !.last = tasks[command.id].revision])
  /\ reported' = IF Changed THEN reported \cup {tasks[command.id].revision} ELSE reported
  /\ UNCHANGED <<tasks, reader, now>>

ObserveFails(code) ==
  /\ command.at \in {"observe", "pull"}
  /\ command.at = "pull" => reader = "broken" \/ code = "CANCELED"
  /\ Ends(code) /\ CloseReader
  /\ UNCHANGED <<tasks, reported, now>>

\* Seeded: the deadline is looked at before what was observed.
DeadlineFirst == now >= Deadline

TimedOut == now >= Deadline /\ command.seen.phase # "Terminal"

Decide ==
  /\ command.at = "decide"
  /\ IF TimedOut THEN Ends("TIMEOUT") /\ CloseReader
     ELSE IF command.seen.phase = "Terminal"
     THEN Ends(IF command.fails /\ command.seen.outcome # "Succeeded" THEN "task_failed" ELSE "task") /\ CloseReader
     ELSE /\ Runs([command EXCEPT !.at = "pull", !.until = now + 1])
          /\ UNCHANGED reader
  /\ UNCHANGED <<tasks, reported, now>>

\* Seeded: an event is waited for as long as it takes.
UntilAnEvent == reader = "ended" \/ (reader # "live" /\ now >= command.until)

\* An interval passes, or the reader has ended and says so at once.
PauseOver == now >= command.until \/ reader = "ended"

Pull(event) ==
  /\ command.at = "pull"
  /\ IF event THEN reader = "live" ELSE PauseOver
  /\ Runs([command EXCEPT !.at = "observe"])
  /\ UNCHANGED <<tasks, reader, reported, now>>

ReaderGoes(to) ==
  /\ reader = "live" /\ command.at # "done"
  /\ reader' = to
  /\ UNCHANGED <<tasks, command, reported, now>>

-----------------------------------------------------------------------------
(* The task and the clock.                                                 *)

TaskChanges(id, outcome) ==
  /\ tasks[id].phase \notin {"Terminal", "absent"} /\ tasks[id].revision < MaxRevision
  /\ tasks' = [tasks EXCEPT ![id] =
       [phase |-> IF outcome = "none" THEN "Running" ELSE "Terminal", outcome |-> outcome, revision |-> @.revision + 1]]
  /\ UNCHANGED <<command, reader, reported, now>>

Tick ==
  /\ command.at # "idle" /\ now <= Deadline
  /\ now' = now + 1
  /\ UNCHANGED <<tasks, command, reader, reported>>

Steps == (\E r \in {"none", "live"} : OpenReader(r)) \/ Observe \/ Decide \/ Pull(FALSE)

Next ==
  \/ Wait \/ Retry
  \/ \E limit \in {0, 500} : List("paused", limit) \/ List("done", limit)
  \/ \E limit \in {500, 501}, page \in BOOLEAN : Get(limit, page)
  \/ \E expected \in 0..MaxRevision : Cancel(expected)
  \/ \E answer \in {"new", "same", "another", "refused"}, noWait \in BOOLEAN : RetryMade(answer, noWait)
  \/ Steps \/ Pull(TRUE)
  \/ \E code \in {"SERVICE_UNAVAILABLE", "CANCELED"} : ObserveFails(code)
  \/ \E to \in {"ended", "broken"} : ReaderGoes(to)
  \/ \E id \in Ids, outcome \in {"none", "Succeeded", "Failed", "Canceled"} : TaskChanges(id, outcome)
  \/ Tick

Spec == Init /\ [][Next]_vars

\* Requests are answered or fail, timers run; no task need ever end.
FairSpec == Spec /\ WF_vars(Steps) /\ WF_vars(Tick)

-----------------------------------------------------------------------------
(* Properties.                                                             *)

\* What the wait says of the task is so: it returns with the task only when it
\* has ended, with its outcome; a deadline that has passed hides no end that
\* was observed; each end it tells of was shown; no reader is left open.
WaitIsTrue ==
  LET c == command IN
  c.at = "done" =>
    /\ c.result \in {"task", "task_failed"}
         => c.seen = tasks[c.id] /\ c.seen.phase = "Terminal" /\ c.seen.revision \in reported
    /\ c.result = "task_failed" => c.seen.outcome # "Succeeded"
    /\ c.result = "TIMEOUT" => now >= Deadline /\ c.seen.phase # "Terminal"
    /\ reader \in {"none", "closed"}
    /\ c.verb = "retry" /\ tasks["new"] # Absent
         => tasks["old"].outcome = "Failed"

\* The wait ends, at its deadline at the latest, whatever the reader does.
Waiting == command.at = "observe"
Waited == command.at = "done"
WaitReturns == Waiting ~> Waited
-----------------------------------------------------------------------------
(* The inductive invariant.                                                *)

TaskStates ==
  [phase : {"absent", "Running", "Terminal"}, outcome : {"none", "Succeeded", "Failed", "Canceled"}, revision : Nat]

Results ==
  {"none", "INVALID_ARGUMENT", "INVALID_SERVICE_RESPONSE", "listed", "shown", "requested", "refused",
   "TASK_NOT_RETRYABLE", "created", "failed", "SERVICE_UNAVAILABLE", "CANCELED", "TIMEOUT", "task", "task_failed"}

Commands ==
  [verb : {"none", "wait", "list", "get", "cancel", "retry"},
   at : {"idle", "retry", "open", "observe", "decide", "pull", "done"},
   id : Ids, fails : BOOLEAN, seen : TaskStates, last : Nat, until : Nat, result : Results]

\* The type of every variable.
TypeOK ==
  /\ tasks \in [Ids -> TaskStates]
  /\ command \in Commands
  /\ reader \in {"none", "live", "ended", "broken", "closed"}
  /\ reported \subseteq Nat
  /\ now \in Nat

\* Nobody has a reader before the wait, nor after it.
ReaderIsItsOwn ==
  /\ command.at \in {"idle", "retry", "open"} => reader = "none"
  /\ command.at = "done" => reader \in {"none", "closed"}

\* Whatever was observed was shown.
ShownIsReported ==
  /\ command.last # 0 => command.last \in reported
  /\ command.seen.revision = command.last
  /\ command.seen.phase # "absent" => command.last # 0
  /\ \A id \in Ids : tasks[id].phase # "absent" => tasks[id].revision # 0

\* An end that was observed is the end.
EndIsFinal == command.seen.phase = "Terminal" => command.seen = tasks[command.id]

\* A second task is only made for a retry of one that failed.
RetriedFailed ==
  /\ command.at = "idle" => command.verb = "none"
  /\ command.at = "retry" \/ tasks["new"] # Absent =>
       command.verb = "retry" /\ tasks["old"].phase = "Terminal" /\ tasks["old"].outcome = "Failed"
  /\ command.at = "retry" => command.seen = Absent /\ tasks["new"] = Absent

IInv == TypeOK /\ ReaderIsItsOwn /\ ShownIsReported /\ EndIsFinal /\ RetriedFailed /\ WaitIsTrue
=============================================================================
