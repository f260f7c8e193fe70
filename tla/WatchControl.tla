---------------------------- MODULE WatchControl ----------------------------
(***************************************************************************)
(* watchControl (src/src/aiws_ext.ts) over NfspClient.watch (nfsp.ts): a   *)
(* control is built again when its source folder changes.                  *)
(*                                                                         *)
(* The loop lists the folder for its watch token, opens the stream, and    *)
(* restarts the debounce timer at every event; the timer queues a check    *)
(* behind the checks that still run; a check reads the sources and calls   *)
(* onChange when they differ from those of the last call.  Streams end and *)
(* break; a change while no stream is open raises no event.                *)
(***************************************************************************)
EXTENDS Naturals

CONSTANTS
  MaxChanges,  \* bound: changes of the folder
  MaxBreaks,   \* bound: streams that end, break or are refused
  MaxFailures  \* bound: source listings and builds that fail

VARIABLES
  folder,    \* version of the sources
  loop,      \* what the loop awaits: "list", "open", "stream", "sleep", "finish",
             \* or how it ended: "done", "threw"
  deaf,      \* the stream does not know of the signal
  event,     \* an event is in the stream
  timer,     \* the debounce timer runs
  queued,    \* a check waits in the chain `running`
  check,     \* the check that runs: "none", "reading", "building"
  reads,     \* the version it read
  last,      \* version onChange was last called with
  built,     \* version the workspace has
  aborted,   \* the signal
  missed,    \* a change since the last reading raised no event
  breaks, failures

vars == <<folder, loop, deaf, event, timer, queued, check, reads, last, built,
          aborted, missed, breaks, failures>>

\* `while (!signal.aborted)`
Head(a) == IF a THEN "finish" ELSE "list"

Init ==
  /\ folder = 1 /\ last = 0 /\ built = 0 /\ reads = 0
  /\ aborted \in BOOLEAN /\ loop = Head(aborted)
  /\ deaf = FALSE /\ event = FALSE /\ timer = FALSE
  /\ queued = 1 /\ check = "none"
  /\ missed = FALSE /\ breaks = 0 /\ failures = 0

-----------------------------------------------------------------------------
(* The loop.                                                               *)

checkVars == <<queued, check, reads, last, built, failures>>

\* Leaving the loop stops the timer.
Goes(to) == loop' = to /\ timer' = (timer /\ to # "finish")

\* watch() listens for an abort to come; one that has come is not seen.
ListReturns ==
  /\ loop = "list"
  /\ Goes("open")
  /\ deaf' = aborted
  /\ UNCHANGED <<folder, event, checkVars, aborted, missed, breaks>>

\* The listing is refused, or there is no session: no handler, no clean-up.
ListThrows ==
  /\ loop = "list" /\ breaks < MaxBreaks
  /\ Goes("threw")
  /\ breaks' = breaks + 1
  /\ UNCHANGED <<folder, deaf, event, checkVars, aborted, missed>>

OpenReturns ==
  /\ loop = "open"
  /\ Goes("stream")
  /\ UNCHANGED <<folder, deaf, event, checkVars, aborted, missed, breaks>>

Event ==
  /\ loop = "stream" /\ event
  /\ event' = FALSE
  /\ timer' = TRUE
  /\ UNCHANGED <<folder, loop, deaf, checkVars, aborted, missed, breaks>>

\* An event of a stream that is gone is gone too.
StreamOver(to) ==
  /\ loop \in {"open", "stream"} /\ breaks < MaxBreaks
  /\ Goes(to)
  /\ breaks' = breaks + 1
  /\ event' = FALSE /\ missed' = (missed \/ event)
  /\ UNCHANGED <<folder, deaf, checkVars, aborted>>

StreamEnds == loop = "stream" /\ StreamOver(Head(aborted))
StreamBreaks == StreamOver(IF aborted THEN "finish" ELSE "sleep")

SleepOver ==
  /\ loop = "sleep"
  /\ Goes(Head(aborted))
  /\ UNCHANGED <<folder, deaf, event, checkVars, aborted, missed, breaks>>

ChecksOver == queued = 0 /\ check = "none"

Returns ==
  /\ loop = "finish" /\ ChecksOver
  /\ Goes("done")
  /\ UNCHANGED <<folder, deaf, event, checkVars, aborted, missed, breaks>>

-----------------------------------------------------------------------------
(* The checks, one behind the other.                                       *)

otherVars == <<folder, loop, deaf, event, aborted, breaks>>

TimerFires ==
  /\ timer
  /\ timer' = FALSE
  /\ queued' = queued + 1
  /\ UNCHANGED <<otherVars, check, reads, last, built, missed, failures>>

\* Seeded: a check does not wait for the one before it to build.
OverABuild == check \in {"none", "building"}

NothingRuns == check = "none"

StartCheck ==
  /\ queued > 0 /\ NothingRuns
  /\ queued' = queued - 1 /\ check' = "reading"
  /\ UNCHANGED <<otherVars, timer, reads, last, built, missed, failures>>

\* collectSources, and the comparison with the sources of the last build.
SourcesRead ==
  /\ check = "reading"
  /\ reads' = folder /\ missed' = FALSE
  /\ last' = folder
  /\ check' = IF folder = last THEN "none" ELSE "building"
  /\ UNCHANGED <<otherVars, timer, queued, built, failures>>

ReadFails ==
  /\ check = "reading" /\ failures < MaxFailures
  /\ failures' = failures + 1
  /\ check' = "none"
  /\ UNCHANGED <<otherVars, timer, queued, reads, last, built, missed>>

\* onChange has the files that were read, and may read the folder again, as
\* buildControl does.
BuildReturns ==
  /\ check = "building"
  /\ built' \in {reads, folder} /\ check' = "none"
  /\ UNCHANGED <<otherVars, timer, queued, reads, last, missed, failures>>

\* The failure is swallowed, and the sources count as built.
BuildFails ==
  /\ check = "building" /\ failures < MaxFailures
  /\ failures' = failures + 1
  /\ check' = "none"
  /\ UNCHANGED <<otherVars, timer, queued, reads, last, built, missed>>

-----------------------------------------------------------------------------
(* The user.                                                               *)

Change ==
  /\ folder < MaxChanges
  /\ folder' = folder + 1
  /\ event' = (event \/ loop = "stream")
  /\ missed' = (missed \/ loop # "stream")
  /\ UNCHANGED <<loop, deaf, timer, checkVars, aborted, breaks>>

\* A stream opened before it ends at once.
Abort ==
  /\ ~aborted
  /\ aborted' = TRUE
  /\ IF loop \in {"open", "stream"}
     THEN Goes("finish") /\ event' = FALSE /\ missed' = (missed \/ event)
     ELSE UNCHANGED <<loop, timer, event, missed>>
  /\ UNCHANGED <<folder, deaf, checkVars, breaks>>

LoopStep == ListReturns \/ OpenReturns \/ Event \/ SleepOver \/ Returns
CheckStep == TimerFires \/ StartCheck \/ SourcesRead \/ BuildReturns
Faults == ListThrows \/ StreamEnds \/ StreamBreaks \/ ReadFails \/ BuildFails

Next == LoopStep \/ CheckStep \/ Faults \/ Change \/ Abort

\* The service answers, the stream delivers, timers fire; a stream need not end.
FairSpec == Init /\ [][Next]_vars /\ WF_vars(LoopStep) /\ WF_vars(CheckStep)

-----------------------------------------------------------------------------
(* Properties.                                                             *)

\* While the loop streams and nothing is left to do, the workspace has the
\* sources as they are, unless a change came while no stream was open or a
\* listing or build failed.
QuietMeansBuilt ==
  (loop = "stream" /\ ~event /\ ~timer /\ ChecksOver)
    => built = folder \/ missed \/ failures > 0

\* Builds follow each other in the order of the sources, and none runs after
\* watchControl returned.
BuildInOrder ==
  /\ built' >= built
  /\ check' = "building" => check # "building" \/ reads' = reads
BuildsInOrder == [][BuildInOrder]_vars
ReturnedMeansQuiet == loop = "done" => ~timer /\ ChecksOver

\* "Returns when `signal` aborts": it does when the signal aborts while a stream
\* is open.
AbortedOpen == aborted /\ loop = "finish"
Returned == loop = "done"
OpenAbortReturns == AbortedOpen ~> Returned
-----------------------------------------------------------------------------
(* The inductive invariant.                                                *)

\* The type of every variable.
TypeOK ==
  /\ folder \in Nat /\ last \in Nat /\ built \in Nat /\ reads \in Nat /\ queued \in Nat
  /\ loop \in {"list", "open", "stream", "sleep", "finish", "done", "threw"}
  /\ check \in {"none", "reading", "building"}
  /\ deaf \in BOOLEAN /\ event \in BOOLEAN /\ timer \in BOOLEAN /\ aborted \in BOOLEAN /\ missed \in BOOLEAN
  /\ breaks \in Nat /\ failures \in Nat

\* A loop that is over has stopped the timer; when it has returned, the checks
\* are over too.
Stopped ==
  /\ loop \in {"finish", "done"} => ~timer
  /\ loop = "done" => ChecksOver

\* Builds never run ahead of the folder, nor behind what was built.
BuildsFollow ==
  /\ last <= folder /\ built <= folder
  /\ check = "building" => reads = last /\ built <= reads
  /\ failures = 0 /\ check # "building" => last <= built

\* A change that no event, timer or check is about to find was missed.
ChangesAreFound ==
  loop \notin {"finish", "done"} =>
    \/ folder = last \/ missed \/ failures > 0
    \/ event \/ timer \/ queued > 0 \/ check = "reading"

IInv == TypeOK /\ Stopped /\ BuildsFollow /\ ChangesAreFound
=============================================================================
