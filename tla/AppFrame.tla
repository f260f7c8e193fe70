------------------------------- MODULE AppFrame -------------------------------
(***************************************************************************)
(* The frame protocol between the shell and an App in its iframe           *)
(* (src/src/app-frame.ts): AppFrameHost in the shell, AppFrameClient in    *)
(* the App's page.  Both windows post messages, delivered in order.  The   *)
(* App's page may reload at any time: the new document starts over, and    *)
(* what was posted to the old one is gone.                                 *)
(***************************************************************************)
EXTENDS Integers, Sequences

CONSTANTS
  Requests,    \* the calls of AppFrameHost.request
  Titles,      \* window titles the App may set
  MaxHellos,   \* how often a page says hello (every 250 ms for 1500 ms)
  MaxReloads,  \* bound: reloads of the page
  MaxFocus,    \* bound: focus changes in the shell
  MaxTitles,   \* bound: calls of setTitle
  Unset        \* undefined

Kinds == {"beforeClose", "back", "open"}
Focus == BOOLEAN \cup {Unset}

VARIABLES
  host,      \* AppFrameHost: [stage, ready, able, focused, title]
  request,   \* request[r]: [stage, kind, result]
  app,       \* the page's AppFrameClient: [able, init, focused, title, hellos]
  handler,   \* handler[r]: the page's handler of request r
  consent,   \* the beforeClose requests some handler allowed
  toHost,    \* messages posted to the shell
  toApp,     \* messages posted to the page
  reloads,   \* how often the page was reloaded
  changes    \* how often the focus and the title were set: [focus, title]

vars == <<host, request, app, handler, consent, toHost, toApp, reloads, changes>>

\* A page that has just been loaded: the constructor says hello at once.
NewPage(able) ==
  [able |-> able, init |-> FALSE, focused |-> Unset, title |-> Unset,
   hellos |-> MaxHellos - 1]

Hello(able) == [type |-> "hello", able |-> able]

Init ==
  /\ host = [stage |-> "none", ready |-> FALSE, able |-> FALSE,
             focused |-> Unset, title |-> Unset]
  /\ request = [r \in Requests |-> [stage |-> "idle", kind |-> "back", result |-> "none"]]
  /\ \E able \in BOOLEAN :
       /\ app = NewPage(able)
       /\ toHost = <<Hello(able)>>
  /\ handler = [r \in Requests |-> "none"]
  /\ consent = {}
  /\ toApp = <<>>
  /\ reloads = 0
  /\ changes = [focus |-> 0, title |-> 0]

-----------------------------------------------------------------------------
(* The shell.                                                              *)

\* The host begins to listen; a message that arrived before is not seen.
HostCreated ==
  /\ host.stage = "none"
  /\ host' = [host EXCEPT !.stage = "listening"]
  /\ UNCHANGED <<request, app, handler, consent, toHost, toApp, reloads, changes>>

Focused(focused) == [type |-> "focus", focused |-> focused]

\* Seeded: a page that says hello again is not told the focus again.
InitAlone == <<[type |-> "init"]>>

\* Seeded: a shell that has been greeted once takes no other page's hello.
WelcomeOnce ==
  (IF host.ready THEN <<>> ELSE <<[type |-> "init"]>>) \o
    (IF host.focused = Unset THEN <<>> ELSE <<Focused(host.focused)>>)

\* The answer to a hello: frame.init, and the focus if the shell has set it.
Welcome ==
  <<[type |-> "init"]>> \o
    (IF host.focused = Unset THEN <<>> ELSE <<Focused(host.focused)>>)

HelloReceived(m) ==
  /\ m.type = "hello"
  /\ host' = [host EXCEPT !.ready = TRUE, !.able = m.able]
  /\ toApp' = toApp \o Welcome
  /\ UNCHANGED request

\* A reply settles the request it names, if that is still pending.
ReplyReceived(m) ==
  /\ m.type = "reply"
  /\ request' = IF host.ready /\ request[m.to].stage = "pending"
                  THEN [request EXCEPT ![m.to].stage = "answered", ![m.to].result = m.result]
                  ELSE request
  /\ UNCHANGED <<host, toApp>>

TitleReceived(m) ==
  /\ m.type = "title"
  /\ host' = [host EXCEPT !.title = IF host.ready THEN m.title ELSE @]
  /\ UNCHANGED <<request, toApp>>

HostReceives ==
  /\ toHost # <<>>
  /\ toHost' = Tail(toHost)
  /\ IF host.stage = "listening"
       THEN \/ HelloReceived(Head(toHost))
            \/ ReplyReceived(Head(toHost))
            \/ TitleReceived(Head(toHost))
       ELSE UNCHANGED <<host, request, toApp>>
  /\ UNCHANGED <<app, handler, consent, reloads, changes>>

\* setFocused: stored, and sent if it changed and somebody said hello.
SetFocused(focused) ==
  /\ host.stage = "listening" /\ changes.focus < MaxFocus
  /\ host.focused # focused
  /\ changes' = [changes EXCEPT !.focus = @ + 1]
  /\ host' = [host EXCEPT !.focused = focused]
  /\ toApp' = IF host.ready THEN Append(toApp, Focused(focused)) ELSE toApp
  /\ UNCHANGED <<request, app, handler, consent, toHost, reloads>>

Settled(r, kind, stage, result) ==
  request' = [request EXCEPT ![r] = [stage |-> stage, kind |-> kind, result |-> result]]

\* beforeClose, back and open.  An App that did not say it handles them is not
\* asked: it may be closed, does not go back and opens nothing.
Asks(r, kind) ==
  /\ request[r].stage = "idle" /\ host.stage # "none"
  /\ IF kind = "beforeClose" /\ ~(host.ready /\ host.able)
       THEN Settled(r, kind, "unasked", "yes") /\ UNCHANGED toApp
     ELSE IF kind # "beforeClose" /\ ~host.able
       THEN Settled(r, kind, "unasked", "no") /\ UNCHANGED toApp
     ELSE IF ~host.ready
       THEN Settled(r, kind, "rejected", "none") /\ UNCHANGED toApp
     ELSE /\ Settled(r, kind, "pending", "none")
          /\ toApp' = Append(toApp, [type |-> "request", id |-> r, kind |-> kind])
  /\ UNCHANGED <<host, app, handler, consent, toHost, reloads, changes>>

TimesOut(r) ==
  /\ request[r].stage = "pending"
  /\ request' = [request EXCEPT ![r].stage = "rejected"]
  /\ UNCHANGED <<host, app, handler, consent, toHost, toApp, reloads, changes>>

Dispose ==
  /\ host.stage = "listening"
  /\ host' = [host EXCEPT !.stage = "disposed", !.ready = FALSE]
  /\ request' = [r \in Requests |->
       IF request[r].stage = "pending" THEN [request[r] EXCEPT !.stage = "rejected"]
       ELSE request[r]]
  /\ UNCHANGED <<app, handler, consent, toHost, toApp, reloads, changes>>

-----------------------------------------------------------------------------
(* The App's page.                                                         *)

SaysHello ==
  /\ app.hellos > 0
  /\ app' = [app EXCEPT !.hellos = @ - 1]
  /\ toHost' = Append(toHost, Hello(app.able))
  /\ UNCHANGED <<host, request, handler, consent, toApp, reloads, changes>>

InitReceived(m) ==
  /\ m.type = "init"
  /\ app' = [app EXCEPT !.init = TRUE, !.hellos = 0, !.focused = Unset, !.title = Unset]
  /\ UNCHANGED handler

FocusReceived(m) ==
  /\ m.type = "focus"
  /\ app' = [app EXCEPT !.focused = IF app.init THEN m.focused ELSE @]
  /\ UNCHANGED handler

RequestReceived(m) ==
  /\ m.type = "request"
  /\ handler' = IF app.init THEN [handler EXCEPT ![m.id] = m.kind] ELSE handler
  /\ UNCHANGED app

AppReceives ==
  /\ toApp # <<>>
  /\ toApp' = Tail(toApp)
  /\ \/ InitReceived(Head(toApp))
     \/ FocusReceived(Head(toApp))
     \/ RequestReceived(Head(toApp))
  /\ UNCHANGED <<host, request, consent, toHost, reloads, changes>>

\* What is answered when the handler throws; back answers nothing.
AnswerOnError(kind) == IF kind = "back" THEN "none" ELSE "no"

\* The handler of a request returns or throws.
HandlerEnds(r) ==
  /\ handler[r] # "none"
  /\ handler' = [handler EXCEPT ![r] = "none"]
  /\ \E outcome \in {"yes", "no", "throws"} :
       LET answer == IF outcome = "throws" THEN AnswerOnError(handler[r]) ELSE outcome IN
       /\ consent' = IF outcome = "yes" THEN consent \cup {r} ELSE consent
       /\ toHost' = IF answer = "none" THEN toHost
                    ELSE Append(toHost, [type |-> "reply", to |-> r, result |-> answer])
  /\ UNCHANGED <<host, request, app, toApp, reloads, changes>>

\* What setTitle remembers before frame.init: nothing, so that the title can
\* be set again.
RememberedBeforeInit(title) == app.title

SetTitle(title) ==
  /\ changes.title < MaxTitles
  /\ changes' = [changes EXCEPT !.title = @ + 1]
  /\ IF app.init /\ title # app.title
       THEN /\ app' = [app EXCEPT !.title = title]
            /\ toHost' = Append(toHost, [type |-> "title", title |-> title])
       ELSE /\ app' = [app EXCEPT !.title = IF app.init THEN @ ELSE RememberedBeforeInit(title)]
            /\ UNCHANGED toHost
  /\ UNCHANGED <<host, request, handler, consent, toApp, reloads>>

\* The page is loaded again, perhaps with another version of the App.
Reload ==
  /\ reloads < MaxReloads
  /\ reloads' = reloads + 1
  /\ \E able \in BOOLEAN :
       /\ app' = NewPage(able)
       /\ toHost' = Append(toHost, Hello(able))
  /\ toApp' = <<>>
  /\ handler' = [r \in Requests |-> "none"]
  /\ UNCHANGED <<host, request, consent, changes>>

-----------------------------------------------------------------------------

Deliver == HostReceives \/ AppReceives

Next ==
  \/ HostCreated \/ Dispose \/ Deliver \/ SaysHello \/ Reload
  \/ \E focused \in BOOLEAN : SetFocused(focused)
  \/ \E title \in Titles : SetTitle(title)
  \/ \E r \in Requests : TimesOut(r) \/ HandlerEnds(r) \/ \E kind \in Kinds : Asks(r, kind)

Spec == Init /\ [][Next]_vars

\* The browser delivers messages and the timers of hello() run.
FairSpec == Spec /\ WF_vars(HostReceives) /\ WF_vars(AppReceives) /\ WF_vars(SaysHello)

-----------------------------------------------------------------------------
(* Properties.                                                             *)

\* No message is under way that would still change the page or the shell.
Quiet == toApp = <<>> /\ toHost = <<>>

\* A page that was welcomed ends up with the focus the shell has set, however
\* often it said hello or was reloaded while the focus changed.
FocusAgrees ==
  Quiet /\ app.init /\ host.stage = "listening" /\ host.focused # Unset
    => app.focused = host.focused

\* A title the page thinks it has shown is the one the shell shows: setTitle
\* leaves out what it sent already, and nothing else.
TitleAgrees ==
  Quiet /\ host.stage = "listening" /\ app.title # Unset => host.title = app.title

\* An App that says it wants to be asked is closed only if its handler for
\* this very request allowed it: not when the handler failed, timed out or was
\* reloaded away.
CloseNeedsConsent ==
  \A r \in Requests :
    request[r].kind = "beforeClose" /\ request[r].stage = "answered" /\ request[r].result = "yes"
      => r \in consent

\* A page that still says hello when the shell listens gets its frame.init.
SaysHelloStill(n) == host.stage = "listening" /\ reloads = n /\ app.hellos > 0
Connected(n) == app.init \/ reloads # n \/ host.stage = "disposed"
ConnectsInTime == \A n \in 0 .. MaxReloads : SaysHelloStill(n) ~> Connected(n)
-----------------------------------------------------------------------------
(* The inductive invariant.                                                *)

ToHost ==
  {Hello(able) : able \in BOOLEAN}
    \cup [type : {"reply"}, to : Requests, result : {"yes", "no"}]
    \cup [type : {"title"}, title : Titles]

ToApp ==
  [type : {"init"}] \cup [type : {"focus"}, focused : BOOLEAN]
    \cup [type : {"request"}, id : Requests, kind : Kinds]

\* The type of every variable.
TypeOK ==
  /\ host \in [stage : {"none", "listening", "disposed"}, ready : BOOLEAN, able : BOOLEAN,
               focused : Focus, title : Titles \cup {Unset}]
  /\ request \in [Requests -> [stage : {"idle", "pending", "answered", "unasked", "rejected"},
                              kind : Kinds, result : {"none", "yes", "no"}]]
  /\ app \in [able : BOOLEAN, init : BOOLEAN, focused : Focus, title : Titles \cup {Unset},
              hellos : Int]
  /\ handler \in [Requests -> Kinds \cup {"none"}]
  /\ consent \subseteq Requests
  /\ toHost \in Seq(ToHost)
  /\ toApp \in Seq(ToApp)

\* Message i of s is the last of these types; s holds none of them.
IsLast(s, i, types) ==
  i \in DOMAIN s /\ s[i].type \in types /\ \A k \in DOMAIN s : k > i => s[k].type \notin types
NoneOf(s, types) == \A k \in DOMAIN s : s[k].type \notin types

\* Nothing is said to a page, and no page is welcome, before its hello.
WelcomeFirst ==
  /\ ~host.ready /\ host.stage # "disposed" => ~app.init /\ toApp = <<>>
  /\ host.stage = "none" => host.focused = Unset
  /\ host.stage # "listening" => ~host.ready
  /\ ~app.init => app.title = Unset

\* The last word on the focus that is under way, if any, or else what the page
\* knows, is what the shell has set.
FocusFollows ==
  host.stage = "listening" =>
    /\ \A i \in DOMAIN toApp : IsLast(toApp, i, {"init", "focus"}) =>
         host.focused = IF toApp[i].type = "init" THEN Unset ELSE toApp[i].focused
    /\ NoneOf(toApp, {"init", "focus"}) /\ app.init => app.focused = host.focused

\* The last title under way, if any, or else the one shown, is what the page set.
TitleFollows ==
  host.stage = "listening" /\ app.title # Unset =>
    /\ \A i \in DOMAIN toHost : IsLast(toHost, i, {"title"}) => toHost[i].title = app.title
    /\ NoneOf(toHost, {"title"}) => host.title = app.title

\* Only a handler says yes.
YesIsMeant ==
  \A i \in DOMAIN toHost :
    toHost[i].type = "reply" /\ toHost[i].result = "yes" => toHost[i].to \in consent

IInv ==
  TypeOK /\ WelcomeFirst /\ FocusFollows /\ TitleFollows /\ YesIsMeant /\ CloseNeedsConsent
==============================================================================
