---------------------------- MODULE PreviewEmbed ----------------------------
(***************************************************************************)
(* The preview embed protocol (src/src/app-frame.ts): an App (PreviewEmbed)*)
(* frames the system's preview page (PreviewEmbedHost) and tells it what   *)
(* to show and how; the page tells the App how it goes.  Each window       *)
(* receives what the other posts in the order it was posted; when the      *)
(* frame's document is replaced, what was on its way to it is lost, what   *)
(* it had posted is not.                                                   *)
(***************************************************************************)
EXTENDS Naturals, Sequences

CONSTANTS
  Themes,    \* looks the App may have: [theme, locale] abstracted
  States,    \* what the page may say of its preview
  MaxLoads,  \* bound: documents of the frame
  MaxPosts   \* bound: updates of the App, states of the page, repeated hellos

VARIABLES
  app,    \* PreviewEmbed: its init, and the state it was told last
  host,   \* PreviewEmbedHost of the frame's document: the look it shows, what it said last
  toHost, \* posted to the frame
  toApp,  \* posted to the App
  loads,
  posts

vars == <<app, host, toHost, toApp, loads, posts>>

-----------------------------------------------------------------------------
NoHost == [alive |-> FALSE, ready |-> FALSE, theme |-> "nothing", said |-> "nothing"]
Init ==
  /\ app \in [theme : Themes, given : Themes, shown : {"nothing"}] /\ app.theme = app.given
  /\ host = NoHost /\ toHost = <<>> /\ toApp = <<>> /\ loads = 0 /\ posts = 0

Hello == [type |-> "embed.hello"]

\* The page loads, or loads again: a new PreviewEmbedHost says hello.
Load ==
  /\ loads < MaxLoads /\ loads' = loads + 1
  /\ host' = [NoHost EXCEPT !.alive = TRUE]
  /\ toHost' = <<>> /\ toApp' = Append(toApp, Hello)
  /\ UNCHANGED <<app, posts>>

Unload ==
  /\ host.alive
  /\ host' = NoHost /\ toHost' = <<>>
  /\ UNCHANGED <<app, toApp, loads, posts>>

\* The interval of 250 ms: hello again until it is answered.
HelloAgain ==
  /\ host.alive /\ ~host.ready /\ posts < MaxPosts /\ posts' = posts + 1
  /\ toApp' = Append(toApp, Hello)
  /\ UNCHANGED <<app, host, toHost, loads>>

\* (mutant) A hello is answered with the look the App began with.
AsGiven == app.given
InitOf == app.theme

\* PreviewEmbed.receive
AppReceives ==
  /\ toApp # <<>> /\ toApp' = Tail(toApp)
  /\ LET msg == Head(toApp)
     IN IF msg.type = "embed.hello"
        THEN /\ toHost' = IF host.alive THEN Append(toHost, [type |-> "embed.init", theme |-> InitOf]) ELSE toHost
             /\ UNCHANGED app
        ELSE /\ app' = [app EXCEPT !.shown = msg.state]
             /\ UNCHANGED toHost
  /\ UNCHANGED <<host, loads, posts>>

\* PreviewEmbed.update
Update(theme) ==
  /\ posts < MaxPosts /\ posts' = posts + 1
  /\ app' = [app EXCEPT !.theme = theme]
  /\ toHost' = IF host.alive THEN Append(toHost, [type |-> "embed.update", theme |-> theme]) ELSE toHost
  /\ UNCHANGED <<host, toApp, loads>>

\* PreviewEmbedHost.receive: an update before the first init is ignored.
HostReceives ==
  /\ toHost # <<>> /\ toHost' = Tail(toHost)
  /\ LET msg == Head(toHost)
     IN host' = IF msg.type = "embed.init" \/ host.ready
                THEN [host EXCEPT !.ready = TRUE, !.theme = msg.theme] ELSE host
  /\ UNCHANGED <<app, toApp, loads, posts>>

\* PreviewEmbedHost.state: said to nobody before the page is ready.
State(state) ==
  /\ host.alive /\ posts < MaxPosts /\ posts' = posts + 1
  /\ IF host.ready THEN /\ host' = [host EXCEPT !.said = state]
                        /\ toApp' = Append(toApp, [type |-> "embed.state", state |-> state])
     ELSE UNCHANGED <<host, toApp>>
  /\ UNCHANGED <<app, toHost, loads>>

Next ==
  \/ Load \/ Unload \/ HelloAgain \/ AppReceives \/ HostReceives
  \/ \E theme \in Themes : Update(theme)
  \/ \E state \in States : State(state)

Spec == Init /\ [][Next]_vars

-----------------------------------------------------------------------------
(***************************************************************************)
(* A page that is ready and has received what was posted shows the App's   *)
(* look, however hellos, inits and updates crossed; an App that has        *)
(* received what was posted shows what its page said last, also after the  *)
(* page was replaced.                                                      *)
(***************************************************************************)
EmbedAgrees ==
  /\ host.ready /\ toHost = <<>> => host.theme = app.theme
  /\ host.said # "nothing" /\ toApp = <<>> => app.shown = host.said
-----------------------------------------------------------------------------
(* The inductive invariant.                                                *)

ToHost == [type : {"embed.init", "embed.update"}, theme : Themes]
ToApp == {Hello} \cup [type : {"embed.state"}, state : States]

\* The type of every variable.
TypeOK ==
  /\ app \in [theme : Themes, given : Themes, shown : States \cup {"nothing"}]
  /\ host \in [alive : BOOLEAN, ready : BOOLEAN, theme : Themes \cup {"nothing"}, said : States \cup {"nothing"}]
  /\ toHost \in Seq(ToHost) /\ toApp \in Seq(ToApp)

\* What is said last to the page is the look of the App.
LookFollows ==
  /\ ~host.alive => toHost = <<>> /\ ~host.ready
  /\ ~host.ready => host.said = "nothing"
  /\ IF toHost = <<>> THEN host.ready => host.theme = app.theme
     ELSE toHost[Len(toHost)].theme = app.theme

\* Message i of s is the last of these types; s holds none of them.
IsLast(s, i, types) ==
  i \in DOMAIN s /\ s[i].type \in types /\ \A k \in DOMAIN s : k > i => s[k].type \notin types
NoneOf(s, types) == \A k \in DOMAIN s : s[k].type \notin types

\* The last state under way, if any, or else what the App shows, is what the
\* page said last.
StateFollows ==
  host.said # "nothing" =>
    /\ \A i \in DOMAIN toApp : IsLast(toApp, i, {"embed.state"}) => toApp[i].state = host.said
    /\ NoneOf(toApp, {"embed.state"}) => app.shown = host.said

IInv == TypeOK /\ LookFollows /\ StateFollows
=============================================================================
