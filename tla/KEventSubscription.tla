------------------------- MODULE KEventSubscription -------------------------
(***************************************************************************)
(* KEventClient.subscribe (src/src/kevent_client.ts) over native readers:  *)
(* the loop that creates a reader, pulls an event at a time, awaits the    *)
(* callback, and after a failure closes the reader, waits and creates the  *)
(* next one; and the subscription's close(), which the application may     *)
(* call at any time.  Every reader has a connection of its own             *)
(* (KEventNative); the loop is its only puller.                            *)
(***************************************************************************)
EXTENDS KEventNative

\* Pullers holds "run", the loop; nobody else pulls of its readers.

VARIABLES
  pc,       \* the loop: "top", "creating", "loop", "pulling", "callback",
            \* "finally", "closing", "delay", "done"
  current,  \* currentReader is set
  ended,    \* the `closed` flag or the abort signal
  closer    \* the application's close(): "none", "reader", "run", "returned"

subVars == <<pc, current, ended, closer>>
vars == <<nativeVars, subVars>>

Init ==
  /\ NativeInit
  /\ pc = "top" /\ current = FALSE /\ closer = "none"
  /\ ended \in BOOLEAN

-----------------------------------------------------------------------------
(* The loop.                                                               *)

LoopEnds ==
  /\ pc = "top" /\ ended
  /\ pc' = "done"
  /\ UNCHANGED <<nativeVars, current, ended, closer>>

CreatesReader ==
  /\ pc = "top" /\ ~ended
  /\ pc' = "creating"
  /\ CreateReader
  /\ UNCHANGED <<current, ended, closer>>

ReaderCreated ==
  /\ pc = "creating" /\ reader = "open"
  /\ current' = TRUE
  /\ pc' = "loop"
  /\ UNCHANGED <<nativeVars, ended, closer>>

CreateFailed ==
  /\ pc = "creating" /\ reader = "failed"
  /\ pc' = "finally"
  /\ UNCHANGED <<nativeVars, current, ended, closer>>

Pulls ==
  /\ pc = "loop" /\ ~ended
  /\ pc' = "pulling"
  /\ PullEvent("run")
  /\ UNCHANGED <<current, ended, closer>>

StopsPulling ==
  /\ pc = "loop" /\ ended
  /\ pc' = "finally"
  /\ UNCHANGED <<nativeVars, current, ended, closer>>

CallsBack ==
  /\ pc = "pulling" /\ call["run"] = "event"
  /\ pc' = "callback"
  /\ UNCHANGED <<nativeVars, current, ended, closer>>

CallbackReturns ==
  /\ pc = "callback"
  /\ pc' = "loop"
  /\ UNCHANGED <<nativeVars, current, ended, closer>>

\* No event, or pullEvent failed: the reader is given up.
PullOver ==
  /\ pc = "pulling"
  /\ call["run"] \in {"answered", "failed"}
  /\ pc' = "finally"
  /\ UNCHANGED <<nativeVars, current, ended, closer>>

ClosesReader ==
  /\ pc = "finally" /\ current
  /\ current' = FALSE
  /\ CloseReader
  /\ pc' = "closing"
  /\ UNCHANGED <<ended, closer>>

\* There was no reader, or close() took it and closes it.
NoReaderToClose ==
  /\ pc = "finally" /\ ~current
  /\ pc' = "delay"
  /\ UNCHANGED <<nativeVars, current, ended, closer>>

\* Seeded: the loop does not wait for the reader it gives up.
ReaderLeft == TRUE

\* The loop awaits reader.close().
ReaderGone == reader = "closed"

LoopReaderClosed ==
  /\ pc = "closing" /\ ReaderGone
  /\ pc' = "delay"
  /\ UNCHANGED <<nativeVars, current, ended, closer>>

\* The reconnect delay is over, or there is nothing to reconnect for.
Retries ==
  /\ pc = "delay"
  /\ pc' = IF ended THEN "done" ELSE "top"
  /\ UNCHANGED <<nativeVars, current, ended, closer>>

LoopStep ==
  \/ LoopEnds \/ CreatesReader \/ ReaderCreated \/ CreateFailed
  \/ Pulls \/ StopsPulling \/ CallsBack \/ CallbackReturns \/ PullOver
  \/ ClosesReader \/ NoReaderToClose \/ LoopReaderClosed \/ Retries

-----------------------------------------------------------------------------
(* close() and the abort signal.                                           *)

\* The signal does not reach a native reader: the loop sees it.
Aborts ==
  /\ ~ended
  /\ ended' = TRUE
  /\ UNCHANGED <<nativeVars, pc, current, closer>>

Close ==
  /\ closer = "none"
  /\ ended' = TRUE
  /\ IF current
     THEN current' = FALSE /\ CloseReader /\ closer' = "reader"
     ELSE UNCHANGED <<nativeVars, current>> /\ closer' = "run"
  /\ UNCHANGED <<pc>>

CloseGoesOn ==
  /\ closer = "reader" /\ reader = "closed"
  /\ closer' = "run"
  /\ UNCHANGED <<nativeVars, pc, current, ended>>

\* Seeded: close() does not wait for the loop.
RunLeft == TRUE

\* close() awaits the loop.
RunOver == pc = "done"

CloseReturned ==
  /\ closer = "run" /\ RunOver
  /\ closer' = "returned"
  /\ UNCHANGED <<nativeVars, pc, current, ended>>

CloseStep == CloseGoesOn \/ CloseReturned

Connection ==
  \/ \E id \in Ids : CallStep(id)
  \/ SocketStep
  \/ ReaderStep
  \/ Event
  \/ DaemonAnswers

Next ==
  \/ LoopStep
  \/ Aborts
  \/ Close
  \/ CloseStep
  \/ Connection /\ UNCHANGED subVars

Spec == Init /\ [][Next]_vars

\* The event loop and the network go on, callbacks return, and the daemon
\* answers what it can: a pull only when there is an event.
CallGoesOn(id) == (CallSends(id) \/ CallConnects(id) \/ Connected(id)) /\ UNCHANGED subVars
FramesCome == (FrameArrives \/ FrameSwallowed \/ FrameMisread) /\ UNCHANGED subVars
ReaderGoesOn == ReaderStep /\ UNCHANGED subVars
DaemonGoesOn == ~Quiet /\ DaemonAnswers /\ UNCHANGED subVars

Fairness ==
  /\ WF_vars(LoopStep) /\ WF_vars(CloseStep)
  /\ \A id \in Ids : WF_vars(CallGoesOn(id))
  /\ WF_vars(FramesCome) /\ WF_vars(ReaderGoesOn) /\ WF_vars(DaemonGoesOn)

FairSpec == Spec /\ Fairness

-----------------------------------------------------------------------------
(* Properties.                                                             *)

\* When close() has returned, nothing of the subscription is left: no reader,
\* no connection, no call, and the callback is not running.
NothingLeftAfterClose ==
  closer = "returned" =>
    /\ reader \in {"none", "closed", "failed"} /\ ~socket
    /\ \A id \in Ids : ~Outstanding(id)
    /\ pc = "done"

\* A reader is only replaced when its connection is gone: one reader at a
\* time, whichever of the loop and close() closes it.
OneReader == reader # "opening" /\ reader' = "opening" => closed /\ ~socket
OneReaderAtATime == [][OneReader]_vars

\* No connection breaks inside a frame.
Whole == buffer # "stale"
WholeFrames == []Whole

\* "kevent subscription disconnected, will retry": whenever the reader is given
\* up, another one is created unless the subscription has ended.
Disconnected == pc = "finally"
Retried == pc \in {"creating", "done"}
DisconnectedWillRetry == Disconnected ~> Retried

\* It does so as long as connections break between frames, also when the
\* unregister call fails, or finds another connection.
RetriesBetweenFrames == WholeFrames => DisconnectedWillRetry

\* close() waits for nothing but the pull under way: whatever the loop was
\* doing, it returns, as long as connections break between frames, unless
\* the daemon never has an event again.  unregister_reader waits its turn
\* behind the loop's pull, which carries no timeout (l.971).
Closes == closer # "none"
Closed == closer = "returned"
CloseReturns == WholeFrames /\ []<>~Quiet => (Closes ~> Closed)

-----------------------------------------------------------------------------
(* What every step keeps.                                                  *)

SubTypeOK ==
  /\ pc \in {"top", "creating", "loop", "pulling", "callback", "finally", "closing", "delay", "done"}
  /\ current \in BOOLEAN /\ ended \in BOOLEAN
  /\ closer \in {"none", "reader", "run", "returned"}

NoReader == reader \in {"none", "closed", "failed"}
ReaderGoes == reader \in {"closing", "closed"}

\* close() ends the subscription, and takes the reader if there is one.
CloserOwns ==
  /\ closer # "none" => ended
  /\ closer = "reader" => ReaderGoes
  /\ closer = "returned" => pc = "done" /\ NoReader

\* The loop has the reader it made, until it or close() closes it.
LoopOwns ==
  /\ pc = "top" => NoReader
  /\ pc = "creating" => ~current /\ reader \in {"opening", "open", "failed"}
  /\ current => reader = "open" /\ pc \in {"loop", "pulling", "callback", "finally"}
  /\ pc = "closing" => ReaderGoes
  /\ reader = "closing" => pc = "closing" \/ closer = "reader"
  /\ pc \in {"loop", "pulling", "callback"} /\ ~current => ReaderGoes /\ closer # "none"
  /\ pc = "finally" /\ ~current => reader = "failed" \/ (ReaderGoes /\ closer # "none")
  /\ pc \in {"delay", "done"} => NoReader \/ (reader = "closing" /\ closer = "reader")

SubInv == NativeInv /\ SubTypeOK /\ CloserOwns /\ LoopOwns
=============================================================================
