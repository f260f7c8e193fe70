------------------------------- MODULE MCWaits -------------------------------
(***************************************************************************)
(* One run for the components that wait: for messages of a frame, for      *)
(* events, for a task.  They share nothing, so that a state of the run is  *)
(* a state of one of them: `part` says of which, and the slots hold its    *)
(* variables in the order of their declaration.                            *)
(***************************************************************************)
EXTENDS Naturals, Sequences

CONSTANTS
  Parts,                       \* the components that the run looks at
  Requests, Titles,            \* of the App frame
  Themes, States,              \* of the preview embed
  Pullers,                     \* who pulls of a reader
  WaitDeadline, MaxInterval,   \* of waitNotify
  TaskDeadline,                \* of waitForTask
  MaxHellos, MaxReloads, MaxFocus, MaxTitles, MaxLoads, MaxPosts, \* bounds of the components
  MaxEvents, MaxBreaks, MaxFrames, MaxChanges, MaxFailures, MaxRevision,
  Unset,                       \* undefined
  Unused                       \* what the other slots hold

ASSUME MaxHellosAssumption == MaxHellos \in Nat
ASSUME WaitAssumption == WaitDeadline \in Nat /\ MaxInterval \in Nat
ASSUME DeadlineAssumption == TaskDeadline \in Nat
ASSUME PullersAssumption == "run" \in Pullers /\ Pullers \cap {"register", "unregister"} = {}

VARIABLES part, s1, s2, s3, s4, s5, s6, s7, s8, s9, s10, s11, s12, s13, s14, s15, s16, s17

from6 == <<s6, s7, s8, s9, s10, s11, s12, s13, s14, s15, s16, s17>>
from7 == <<s7, s8, s9, s10, s11, s12, s13, s14, s15, s16, s17>>
from10 == <<s10, s11, s12, s13, s14, s15, s16, s17>>
from13 == <<s13, s14, s15, s16, s17>>
from14 == <<s14, s15, s16, s17>>
from15 == <<s15, s16, s17>>
all == <<part, s1, s2, s3, s4, s5, from6>>

Free15 == s15 = Unused /\ s16 = Unused /\ s17 = Unused
Free14 == s14 = Unused /\ Free15
Free13 == s13 = Unused /\ Free14
Free10 == s10 = Unused /\ s11 = Unused /\ s12 = Unused /\ Free13
Free7 == s7 = Unused /\ s8 = Unused /\ s9 = Unused /\ Free10
Free6 == s6 = Unused /\ Free7

-----------------------------------------------------------------------------
(* The components, with the constants of this run.                         *)

Frame == INSTANCE AppFrame WITH
  host <- s1, request <- s2, app <- s3, handler <- s4, consent <- s5, toHost <- s6, toApp <- s7,
  reloads <- s8, changes <- s9

Embed == INSTANCE PreviewEmbed WITH
  app <- s1, host <- s2, toHost <- s3, toApp <- s4, loads <- s5, posts <- s6

\* "native" is a reader by itself, "subscription" one with its readers.
Subscription == INSTANCE KEventSubscription WITH
  MidFrame <- TRUE,
  call <- s1, serial <- s2, pending <- s3, socket <- s4, buffer <- s5, closed <- s6, reader <- s7,
  request <- s8, response <- s9, daemon <- s10, made <- s11, breaks <- s12, got <- s13,
  pc <- s14, current <- s15, ended <- s16, closer <- s17

Browser == INSTANCE KEventBrowser WITH
  creating <- s1, stream <- s2, refused <- s3, acked <- s4, aborted <- s5, items <- s6, waiters <- s7,
  closed <- s8, closing <- s9, pulls <- s10, given <- s11, frames <- s12

Watch == INSTANCE WatchControl WITH
  folder <- s1, loop <- s2, deaf <- s3, event <- s4, timer <- s5, queued <- s6, check <- s7, reads <- s8,
  last <- s9, built <- s10, aborted <- s11, missed <- s12, breaks <- s13, failures <- s14

\* waitNotify alone; who answers is looked at in Clients.
Notice == INSTANCE NotifyAnswer WITH
  Users <- {}, Options <- {"yes"}, Given <- {}, Deadline <- WaitDeadline, MaxChanges <- 0,
  prompt <- s1, task <- s2, user <- s3, waiter <- s4, now <- s5, reply <- s6

Task == INSTANCE TaskWait WITH
  Deadline <- TaskDeadline, tasks <- s1, command <- s2, reader <- s3, reported <- s4, now <- s5

-----------------------------------------------------------------------------
Init ==
  /\ part \in Parts
  /\ \/ part = "frame" /\ Frame!Init /\ Free10
     \/ part = "embed" /\ Embed!Init /\ Free7
     \/ part = "native" /\ Subscription!NativeInit /\ Free14
     \/ part = "subscription" /\ Subscription!Init
     \/ part = "browser" /\ Browser!Init /\ Free13
     \/ part = "watch" /\ Watch!Init /\ Free15
     \/ part = "notice" /\ Notice!Init /\ Free7
     \/ part = "task" /\ Task!Init /\ Free6

\* A step of one component.
InFrame(A) == part = "frame" /\ A /\ UNCHANGED <<part, from10>>
InEmbed(A) == part = "embed" /\ A /\ UNCHANGED <<part, from7>>
InNative(A) == part = "native" /\ A /\ UNCHANGED <<part, from14>>
InSubscription(A) == part = "subscription" /\ A /\ UNCHANGED part
InBrowser(A) == part = "browser" /\ A /\ UNCHANGED <<part, from13>>
InWatch(A) == part = "watch" /\ A /\ UNCHANGED <<part, from15>>
InNotice(A) == part = "notice" /\ A /\ UNCHANGED <<part, from7>>
InTask(A) == part = "task" /\ A /\ UNCHANGED <<part, from6>>

FrameStep == InFrame(Frame!Next)
EmbedStep == InEmbed(Embed!Next)
NativeStep == InNative(Subscription!NativeNext)
SubscriptionStep == InSubscription(Subscription!Next)
BrowserStep == InBrowser(Browser!Next)
WatchStep == InWatch(Watch!Next)
NoticeStep == InNotice(Notice!Next)
TaskStep == InTask(Task!Next)

Next ==
  \/ FrameStep \/ EmbedStep \/ NativeStep \/ SubscriptionStep
  \/ BrowserStep \/ WatchStep \/ NoticeStep \/ TaskStep

\* The fairness of each component's own specification.
Fairness ==
  /\ WF_all(InFrame(Frame!HostReceives))
  /\ WF_all(InFrame(Frame!AppReceives))
  /\ WF_all(InFrame(Frame!SaysHello))
  /\ WF_all(InSubscription(Subscription!LoopStep))
  /\ WF_all(InSubscription(Subscription!CloseStep))
  /\ \A id \in {"run", "register", "unregister"} :
       WF_all(InSubscription(Subscription!CallGoesOn(id)))
  /\ WF_all(InSubscription(Subscription!FramesCome))
  /\ WF_all(InSubscription(Subscription!ReaderGoesOn))
  /\ WF_all(InSubscription(Subscription!DaemonGoesOn))
  /\ WF_all(InBrowser(Browser!ReaderGoesOn))
  /\ WF_all(InBrowser(Browser!Fetched))
  /\ WF_all(InBrowser(Browser!AbortEndsStream))
  /\ WF_all(InWatch(Watch!LoopStep))
  /\ WF_all(InWatch(Watch!CheckStep))
  /\ WF_all(InNotice(Notice!Waits))
  /\ WF_all(InNotice(Notice!Tick))
  /\ WF_all(InTask(Task!Steps))
  /\ WF_all(InTask(Task!Tick))

Spec == Init /\ [][Next]_all

FairSpec == Spec /\ Fairness

-----------------------------------------------------------------------------
(* Properties: what the modules state of the components.                   *)

\* Shell and page agree on the focus and the title, App and preview on the look
\* and the state, once no message is under way, also after a page was replaced
\* (AppFrame and PreviewEmbed in app-frame.ts), and only the App's own handler lets
\* its window be closed.
FrameAgrees ==
  /\ part = "frame" => Frame!FocusAgrees /\ Frame!TitleAgrees /\ Frame!CloseNeedsConsent
  /\ part = "embed" => Embed!EmbedAgrees

\* A page that still says hello to a listening shell is connected.
ConnectsInTime ==
  \A n \in 0 .. MaxReloads : (part = "frame" /\ Frame!SaysHelloStill(n)) ~> (part = "frame" /\ Frame!Connected(n))

\* Events come in order and none twice, over a native connection and over a
\* stream, and each response is taken by the call it answers.
EventsInOrder ==
  /\ part = "native" => Subscription!ResponsesMatch /\ Subscription!EventsInOrder
  /\ part = "browser" => Browser!PullsFollowStream

\* A closed reader or subscription leaves no connection, stream or call.
ClosedLeavesNothing ==
  /\ part = "native" => Subscription!ClosedMeansDisconnected
  /\ part = "subscription" => Subscription!NothingLeftAfterClose
  /\ part = "browser" => Browser!NoStreamLeft

\* A subscription makes a reader only when it has no other, and watchControl a
\* build only when none runs, of sources no older than those of the last.
OneAtATime ==
  [][ (part = "subscription" => Subscription!OneReader) /\ (part = "watch" => Watch!BuildInOrder) ]_all

\* As long as connections break between frames, a subscription that lost its
\* reader makes another one, and close() waits for nothing but the pull under way:
\* it returns unless the daemon has no event for that pull for ever, since
\* unregister_reader is sent after the answer to a pull that carries no timeout
\* (kevent_client.ts:782, 971).
WholeFrames == [](part = "subscription" => Subscription!Whole)
QuietForEver == <>[](part = "subscription" /\ Subscription!Quiet)
SubscriptionGoesOn ==
  WholeFrames =>
    /\ (part = "subscription" /\ Subscription!Disconnected) ~> (part = "subscription" /\ Subscription!Retried)
    /\ \/ QuietForEver
       \/ (part = "subscription" /\ Subscription!Closes) ~> (part = "subscription" /\ Subscription!Closed)

\* What the code logs, "will retry", is so however a connection breaks.
DisconnectedWillRetry ==
  (part = "subscription" /\ Subscription!Disconnected) ~> (part = "subscription" /\ Subscription!Retried)

\* A quiet watch loop has built the sources as they are, and no build runs when
\* watchControl has returned.
FolderIsBuilt == part = "watch" => Watch!QuietMeansBuilt /\ Watch!ReturnedMeansQuiet

\* What waitForTask and waitNotify say of the task when they return is so.
WaitsAreTrue ==
  /\ part = "notice" => Notice!WaitIsHonest
  /\ part = "task" => Task!WaitIsTrue

\* Each wait comes to an end: a reader's by the abort signal, watchControl's by
\* the signal while a stream is open, the others' at their deadline.
WaitsReturn ==
  /\ (part = "browser" /\ Browser!Aborted) ~> (part = "browser" /\ Browser!Told)
  /\ (part = "watch" /\ Watch!AbortedOpen) ~> (part = "watch" /\ Watch!Returned)
  /\ (part = "notice" /\ Notice!Waiting) ~> (part = "notice" /\ Notice!Waited)
  /\ (part = "task" /\ Task!Waiting) ~> (part = "task" /\ Task!Waited)
==============================================================================
