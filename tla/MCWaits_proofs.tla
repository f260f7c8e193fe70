---------------------------- MODULE MCWaits_proofs ----------------------------
(***************************************************************************)
(* Theorems about the components that MCWaits composes, for every value of *)
(* the constants.  Each component has an inductive invariant, IInv of its  *)
(* module; the slots s1, s2, ... stand for its variables in the order of   *)
(* their declaration.                                                      *)
(***************************************************************************)
EXTENDS MCWaits, SequenceTheorems, TLAPS

-----------------------------------------------------------------------------
(* Messages posted and received.                                           *)

\* A message is posted behind the others.
LEMMA Posting ==
  ASSUME NEW T, NEW s \in Seq(T), NEW e \in T
  PROVE  /\ Append(s, e) \in Seq(T) /\ Append(s, e) # <<>>
         /\ Len(Append(s, e)) = Len(s) + 1 /\ Len(s) \in Nat
         /\ DOMAIN s = 1 .. Len(s) /\ DOMAIN Append(s, e) = 1 .. Len(s) + 1
         /\ \A i \in DOMAIN s : Append(s, e)[i] = s[i]
         /\ Append(s, e)[Len(s) + 1] = e
  OBVIOUS

\* The first message is received.
LEMMA Receiving ==
  ASSUME NEW T, NEW s \in Seq(T), s # <<>>
  PROVE  /\ Tail(s) \in Seq(T) /\ Head(s) \in T /\ Head(s) = s[1] /\ 1 \in DOMAIN s
         /\ Len(Tail(s)) = Len(s) - 1 /\ Len(s) \in Nat \ {0}
         /\ DOMAIN s = 1 .. Len(s) /\ DOMAIN Tail(s) = 1 .. Len(s) - 1
         /\ \A i \in DOMAIN Tail(s) : i + 1 \in DOMAIN s /\ Tail(s)[i] = s[i + 1]
         /\ Tail(s) = <<>> <=> Len(s) = 1
  <1>1. /\ Tail(s) \in Seq(T) /\ Head(s) \in T /\ Head(s) = s[1] /\ 1 \in DOMAIN s
        /\ Len(Tail(s)) = Len(s) - 1 /\ Len(s) \in Nat \ {0}
    OBVIOUS
  <1>2. /\ DOMAIN s = 1 .. Len(s) /\ DOMAIN Tail(s) = 1 .. Len(s) - 1
        /\ \A i \in DOMAIN Tail(s) : i + 1 \in DOMAIN s /\ Tail(s)[i] = s[i + 1]
    OBVIOUS
  <1>3. Tail(s) = <<>> <=> Len(s) = 1
    BY <1>1, EmptySeq
  <1> QED BY <1>1, <1>2, <1>3

\* Message i of s is the last of these types; s holds none of them.
IsLast(s, i, types) ==
  i \in DOMAIN s /\ s[i].type \in types /\ \A k \in DOMAIN s : k > i => s[k].type \notin types
NoneOf(s, types) == \A k \in DOMAIN s : s[k].type \notin types

\* What the last message of these types was before one more was posted.
LEMMA LastPosted ==
  ASSUME NEW T, NEW s \in Seq(T), NEW e \in T, NEW types
  PROVE  /\ e.type \in types =>
              /\ \A i \in DOMAIN Append(s, e) : IsLast(Append(s, e), i, types) => i = Len(s) + 1
              /\ ~NoneOf(Append(s, e), types)
         /\ e.type \notin types =>
              /\ \A i \in DOMAIN Append(s, e) :
                   IsLast(Append(s, e), i, types) => i \in DOMAIN s /\ IsLast(s, i, types)
              /\ NoneOf(Append(s, e), types) => NoneOf(s, types)
  <1> DEFINE t == Append(s, e)
  <1>1. /\ DOMAIN s = 1 .. Len(s) /\ DOMAIN t = 1 .. Len(s) + 1 /\ Len(s) \in Nat
        /\ \A i \in DOMAIN s : t[i] = s[i]
        /\ t[Len(s) + 1] = e
    BY Posting
  <1> HIDE DEF t
  <1> QED BY <1>1 DEF IsLast, NoneOf

\* What it was before the first message was received.
LEMMA LastReceived ==
  ASSUME NEW T, NEW s \in Seq(T), s # <<>>, NEW types
  PROVE  /\ \A i \in DOMAIN Tail(s) : IsLast(Tail(s), i, types) => IsLast(s, i + 1, types)
         /\ NoneOf(Tail(s), types) /\ Head(s).type \in types => IsLast(s, 1, types)
         /\ NoneOf(Tail(s), types) /\ Head(s).type \notin types => NoneOf(s, types)
  <1> DEFINE t == Tail(s)
  <1>1. /\ DOMAIN s = 1 .. Len(s) /\ DOMAIN t = 1 .. Len(s) - 1 /\ Len(s) \in Nat \ {0}
        /\ \A i \in DOMAIN t : i + 1 \in DOMAIN s /\ t[i] = s[i + 1]
        /\ Head(s) = s[1]
    BY Receiving
  <1> HIDE DEF t
  <1>2. \A k \in DOMAIN s : k # 1 => k - 1 \in DOMAIN t /\ t[k - 1] = s[k]
    BY <1>1
  <1>3. ASSUME NEW i \in DOMAIN t, IsLast(t, i, types) PROVE IsLast(s, i + 1, types)
    <2>1. ASSUME NEW k \in DOMAIN s, k > i + 1 PROVE s[k].type \notin types
      <3>1. k - 1 \in DOMAIN t /\ t[k - 1] = s[k] /\ k - 1 > i
        BY <1>1, <1>2, <2>1
      <3> QED BY <3>1, <1>3 DEF IsLast
    <2> QED BY <2>1, <1>1, <1>3 DEF IsLast
  <1>4. ASSUME NoneOf(t, types), NEW k \in DOMAIN s, k # 1 PROVE s[k].type \notin types
    BY <1>2, <1>4 DEF NoneOf
  <1>5. 1 \in DOMAIN s
    BY <1>1
  <1> QED BY <1>1, <1>3, <1>4, <1>5 DEF IsLast, NoneOf, t

-----------------------------------------------------------------------------
(* The components share nothing.                                           *)

\* A step is one of the component that the state is of.
LEMMA PartSteps ==
  ASSUME [Next]_all
  PROVE  /\ part' = part
         /\ part = "frame" => Frame!Next \/ UNCHANGED Frame!vars
         /\ part = "embed" => Embed!Next \/ UNCHANGED Embed!vars
         /\ part = "native" => Subscription!NativeNext \/ UNCHANGED Subscription!nativeVars
         /\ part = "subscription" => Subscription!Next \/ UNCHANGED Subscription!vars
         /\ part = "browser" => Browser!Next \/ UNCHANGED Browser!vars
         /\ part = "watch" => Watch!Next \/ UNCHANGED Watch!vars
         /\ part = "notice" => Notice!Next \/ UNCHANGED Notice!vars
         /\ part = "task" => Task!Next \/ UNCHANGED Task!vars
  <1>1. CASE UNCHANGED all
    BY <1>1 DEF all, from6, Frame!vars, Embed!vars, Subscription!vars,
      Subscription!nativeVars, Subscription!subVars, Browser!vars, Watch!vars, Notice!vars, Task!vars
  <1>2. CASE Next
    BY <1>2 DEF Next, FrameStep, EmbedStep, NativeStep, SubscriptionStep, BrowserStep, WatchStep, NoticeStep,
      TaskStep, InFrame, InEmbed, InNative, InSubscription, InBrowser, InWatch, InNotice, InTask
  <1> QED BY <1>1, <1>2

-----------------------------------------------------------------------------
(* PreviewEmbed.                                                           *)

\* No page is shown at first.
LEMMA EmbedInit == Embed!Init => Embed!IInv
  BY DEF Embed!Init, Embed!NoHost, Embed!IInv, Embed!TypeOK, Embed!LookFollows, Embed!StateFollows

\* A page that loads or goes has said nothing.
LEMMA EmbedPage ==
  ASSUME Embed!IInv, Embed!Load \/ Embed!Unload PROVE Embed!IInv'
  <1> USE DEF Embed!IInv
  <1>1. Embed!TypeOK'
    <2>1. CASE Embed!Load
      <3>1. s4' = Append(s4, Embed!Hello) /\ s4 \in Seq(Embed!ToApp) /\ Embed!Hello \in Embed!ToApp
        BY <2>1 DEF Embed!Load, Embed!TypeOK, Embed!ToApp
      <3>2. s4' \in Seq(Embed!ToApp)
        BY <3>1, Posting
      <3>3. s2' = [alive |-> TRUE, ready |-> FALSE, theme |-> "nothing", said |-> "nothing"]
        BY <2>1 DEF Embed!Load, Embed!NoHost
      <3>4. s3' \in Seq(Embed!ToHost) /\ s1' = s1
        BY <2>1 DEF Embed!Load
      <3> QED BY <3>2, <3>3, <3>4 DEF Embed!TypeOK
    <2>2. CASE Embed!Unload
      BY <2>2 DEF Embed!Unload, Embed!NoHost, Embed!TypeOK
    <2> QED BY <2>1, <2>2
  <1>2. Embed!LookFollows' /\ Embed!StateFollows'
    BY DEF Embed!Load, Embed!Unload, Embed!NoHost, Embed!LookFollows, Embed!StateFollows
  <1> QED BY <1>1, <1>2

\* What the App posts to a page that is there is its look.
LEMMA EmbedPosts ==
  ASSUME Embed!IInv, NEW m \in Embed!ToHost, NEW look \in Themes, m.theme = look,
         s1' = [s1 EXCEPT !.theme = look], s2' = s2, s4' = s4,
         s3' = IF s2.alive THEN Append(s3, m) ELSE s3
  PROVE  Embed!IInv'
  <1> USE DEF Embed!IInv
  <1>1. s3 \in Seq(Embed!ToHost)
    BY DEF Embed!TypeOK
  <1>2. Embed!TypeOK'
    BY <1>1, Posting DEF Embed!TypeOK
  <1>3. Embed!LookFollows'
    BY <1>1, Posting DEF Embed!LookFollows, Embed!TypeOK
  <1>4. Embed!StateFollows'
    BY DEF Embed!StateFollows, Embed!TypeOK
  <1> QED BY <1>2, <1>3, <1>4

\* What the App receives.
LEMMA EmbedAppReceives ==
  ASSUME Embed!IInv, Embed!AppReceives PROVE Embed!IInv'
  <1> DEFINE m == Head(s4)
  <1>1. /\ s4 # <<>> /\ s4' = Tail(s4) /\ s4 \in Seq(Embed!ToApp) /\ UNCHANGED s2
        /\ m \in Embed!ToApp
    BY Receiving DEF Embed!AppReceives, Embed!IInv, Embed!TypeOK
  <1>2. /\ s4' \in Seq(Embed!ToApp) /\ Len(s4') = Len(s4) - 1 /\ Len(s4) \in Nat
        /\ DOMAIN s4 = 1 .. Len(s4) /\ DOMAIN s4' = 1 .. Len(s4) - 1
        /\ \A i \in DOMAIN s4' : i + 1 \in DOMAIN s4 /\ s4'[i] = s4[i + 1]
        /\ m = s4[1] /\ 1 \in DOMAIN s4
    BY <1>1, Receiving
  <1>4. /\ \A i \in DOMAIN s4' : Embed!IsLast(s4', i, {"embed.state"}) => Embed!IsLast(s4, i + 1, {"embed.state"})
        /\ Embed!NoneOf(s4', {"embed.state"}) =>
             IF m.type = "embed.state" THEN Embed!IsLast(s4, 1, {"embed.state"})
             ELSE Embed!NoneOf(s4, {"embed.state"})
    BY <1>1, LastReceived DEF IsLast, NoneOf, Embed!IsLast, Embed!NoneOf
  <1>3. CASE m.type = "embed.hello"
    <2>1. /\ s1' = s1
          /\ s3' = IF s2.alive THEN Append(s3, [type |-> "embed.init", theme |-> s1.theme]) ELSE s3
      BY <1>3 DEF Embed!AppReceives, Embed!InitOf
    <2>2. s3 \in Seq(Embed!ToHost) /\ [type |-> "embed.init", theme |-> s1.theme] \in Embed!ToHost
      BY DEF Embed!IInv, Embed!TypeOK, Embed!ToHost
    <2>3. Embed!TypeOK'
      BY <1>1, <1>2, <2>1, <2>2, Posting DEF Embed!IInv, Embed!TypeOK
    <2>4. Embed!LookFollows'
      BY <1>1, <2>1, <2>2, Posting DEF Embed!IInv, Embed!LookFollows
    <2>5. Embed!StateFollows'
      <3> SUFFICES ASSUME s2.said # "nothing" PROVE Embed!StateFollows'
        BY <1>1 DEF Embed!StateFollows
      <3>1. ASSUME NEW i \in DOMAIN s4', Embed!IsLast(s4', i, {"embed.state"})
            PROVE  s4'[i].state = s2.said
        BY <3>1, <1>2, <1>4 DEF Embed!IInv, Embed!StateFollows
      <3>2. Embed!NoneOf(s4', {"embed.state"}) => s1.shown = s2.said
        BY <1>4, <1>3 DEF Embed!IInv, Embed!StateFollows
      <3> QED BY <3>1, <3>2, <1>1, <2>1 DEF Embed!StateFollows
    <2> QED BY <2>3, <2>4, <2>5 DEF Embed!IInv
  <1>5. CASE m.type # "embed.hello"
    <2>1. s1' = [s1 EXCEPT !.shown = m.state] /\ s3' = s3 /\ m.state \in States /\ m.type = "embed.state"
      BY <1>1, <1>5 DEF Embed!AppReceives, Embed!ToApp, Embed!Hello
    <2>2. Embed!TypeOK'
      BY <1>1, <1>2, <2>1 DEF Embed!IInv, Embed!TypeOK
    <2>3. Embed!LookFollows'
      BY <1>1, <2>1 DEF Embed!IInv, Embed!LookFollows, Embed!TypeOK
    <2>4. Embed!StateFollows'
      <3>1. s1'.shown = m.state
        BY <2>1 DEF Embed!IInv, Embed!TypeOK
      <3> SUFFICES ASSUME s2.said # "nothing" PROVE Embed!StateFollows'
        BY <1>1 DEF Embed!StateFollows
      <3>2. ASSUME NEW i \in DOMAIN s4', Embed!IsLast(s4', i, {"embed.state"})
            PROVE  s4'[i].state = s2.said
        BY <3>2, <1>2, <1>4 DEF Embed!IInv, Embed!StateFollows
      <3>3. Embed!NoneOf(s4', {"embed.state"}) => m.state = s2.said
        BY <1>2, <1>4, <2>1 DEF Embed!IInv, Embed!StateFollows
      <3> QED BY <3>1, <3>2, <3>3, <1>1 DEF Embed!StateFollows
    <2> QED BY <2>2, <2>3, <2>4 DEF Embed!IInv
  <1> QED BY <1>3, <1>5

\* What the page receives.
LEMMA EmbedHostReceives ==
  ASSUME Embed!IInv, Embed!HostReceives PROVE Embed!IInv'
  <1> DEFINE m == Head(s3)
  <1>1. /\ s3 # <<>> /\ s3' = Tail(s3) /\ s3 \in Seq(Embed!ToHost) /\ UNCHANGED <<s1, s4>>
        /\ m \in Embed!ToHost
        /\ s2' = IF m.type = "embed.init" \/ s2.ready
                   THEN [s2 EXCEPT !.ready = TRUE, !.theme = m.theme] ELSE s2
    BY Receiving DEF Embed!HostReceives, Embed!IInv, Embed!TypeOK
  <1>2. Embed!TypeOK'
    BY <1>1, Receiving DEF Embed!IInv, Embed!TypeOK, Embed!ToHost
  <1>3. Embed!LookFollows'
    <2>1. s3' # <<>> => s3'[Len(s3')] = s3[Len(s3)]
      BY <1>1, Receiving
    <2>2. s3' = <<>> => m = s3[Len(s3)]
      BY <1>1, Receiving
    <2> QED BY <1>1, <2>1, <2>2 DEF Embed!IInv, Embed!LookFollows, Embed!TypeOK
  <1>4. Embed!StateFollows'
    BY <1>1 DEF Embed!IInv, Embed!StateFollows, Embed!TypeOK
  <1> QED BY <1>2, <1>3, <1>4 DEF Embed!IInv

\* The page posts a hello, or a state, to the App.
LEMMA EmbedHostPosts ==
  ASSUME Embed!IInv, NEW m \in Embed!ToApp, s4' = Append(s4, m), UNCHANGED <<s1, s3>>,
         \/ m.type = "embed.hello" /\ s2' = s2
         \/ m.type = "embed.state" /\ s2.ready /\ s2' = [s2 EXCEPT !.said = m.state]
  PROVE  Embed!IInv'
  <1>1. s4 \in Seq(Embed!ToApp) /\ (m.type = "embed.state" => m.state \in States)
    BY DEF Embed!IInv, Embed!TypeOK, Embed!ToApp, Embed!Hello
  <1>2. Embed!TypeOK'
    BY <1>1, Posting DEF Embed!IInv, Embed!TypeOK
  <1>3. Embed!LookFollows'
    BY DEF Embed!IInv, Embed!LookFollows, Embed!TypeOK
  <1>4. Embed!StateFollows'
    <2>1. /\ m.type = "embed.state" =>
               /\ \A i \in DOMAIN s4' : Embed!IsLast(s4', i, {"embed.state"}) => s4'[i] = m
               /\ ~Embed!NoneOf(s4', {"embed.state"})
          /\ m.type # "embed.state" =>
               /\ \A i \in DOMAIN s4' :
                    Embed!IsLast(s4', i, {"embed.state"}) =>
                      i \in DOMAIN s4 /\ s4'[i] = s4[i] /\ Embed!IsLast(s4, i, {"embed.state"})
               /\ Embed!NoneOf(s4', {"embed.state"}) => Embed!NoneOf(s4, {"embed.state"})
      BY <1>1, LastPosted, Posting DEF IsLast, NoneOf, Embed!IsLast, Embed!NoneOf
    <2> QED BY <1>1, <2>1 DEF Embed!IInv, Embed!StateFollows, Embed!TypeOK
  <1> QED BY <1>2, <1>3, <1>4 DEF Embed!IInv

\* Every step keeps the invariant of the preview embed.
LEMMA EmbedNext == Embed!IInv /\ Embed!Next => Embed!IInv'
  <1> SUFFICES ASSUME Embed!IInv, Embed!Next PROVE Embed!IInv'
    OBVIOUS
  <1>1. CASE Embed!HelloAgain
    BY <1>1, EmbedHostPosts DEF Embed!HelloAgain, Embed!ToApp, Embed!Hello
  <1>2. ASSUME NEW theme \in Themes, Embed!Update(theme) PROVE Embed!IInv'
    BY <1>2, EmbedPosts DEF Embed!Update, Embed!ToHost
  <1>3. ASSUME NEW state \in States, Embed!State(state) PROVE Embed!IInv'
    <2>1. CASE s2.ready
      BY <1>3, <2>1, EmbedHostPosts DEF Embed!State, Embed!ToApp
    <2>2. CASE ~s2.ready
      BY <1>3, <2>2 DEF Embed!State, Embed!IInv, Embed!TypeOK, Embed!LookFollows, Embed!StateFollows
    <2> QED BY <2>1, <2>2
  <1> QED BY <1>1, <1>2, <1>3, EmbedPage, EmbedAppReceives, EmbedHostReceives DEF Embed!Next

-----------------------------------------------------------------------------
(* AppFrame.                                                               *)

\* The page has said hello to nobody yet.
LEMMA FrameInit == Frame!Init => Frame!IInv
  <1> SUFFICES ASSUME Frame!Init PROVE Frame!IInv
    OBVIOUS
  <1>1. PICK able \in BOOLEAN : s3 = Frame!NewPage(able) /\ s6 = <<Frame!Hello(able)>>
    BY DEF Frame!Init
  <1>2. s6 \in Seq(Frame!ToHost)
    <2>1. Frame!Hello(able) \in Frame!ToHost
      BY DEF Frame!ToHost
    <2> QED BY <1>1, <2>1
  <1>3. Frame!TypeOK
    BY <1>1, <1>2, MaxHellosAssumption DEF Frame!Init, Frame!NewPage, Frame!TypeOK, Frame!Focus, Frame!Kinds
  <1>4. Frame!WelcomeFirst /\ Frame!FocusFollows /\ Frame!TitleFollows /\ Frame!CloseNeedsConsent
    BY <1>1 DEF Frame!Init, Frame!NewPage, Frame!WelcomeFirst, Frame!FocusFollows, Frame!TitleFollows,
                Frame!CloseNeedsConsent
  <1>5. Frame!YesIsMeant
    BY <1>1 DEF Frame!YesIsMeant, Frame!Hello
  <1> QED BY <1>3, <1>4, <1>5 DEF Frame!IInv

\* What is posted to the page: the focus that is set, or a request.
LEMMA FramePostsToApp ==
  ASSUME Frame!IInv, NEW m \in Frame!ToApp, s1.ready, s1.stage = "listening", s7' = Append(s7, m),
         UNCHANGED <<s3, s4, s5, s6>>,
         \/ m.type = "focus" /\ s1' = [s1 EXCEPT !.focused = m.focused] /\ s2' = s2
         \/ /\ m.type = "request" /\ s1' = s1
            /\ s2' = [s2 EXCEPT ![m.id] = [stage |-> "pending", kind |-> m.kind, result |-> "none"]]
  PROVE  Frame!IInv'
  <1> USE DEF Frame!IInv
  <1>1. s7 \in Seq(Frame!ToApp) /\ s6 \in Seq(Frame!ToHost)
    BY DEF Frame!TypeOK
  <1>2. s7' \in Seq(Frame!ToApp)
    BY <1>1, Posting
  <1>3. m.type = "request" => m.id \in Requests /\ m.kind \in Frame!Kinds
    BY DEF Frame!ToApp
  <1>4. m.type = "focus" => m.focused \in BOOLEAN
    BY DEF Frame!ToApp
  <1>5. Frame!TypeOK'
    <2>1. s1' \in [stage : {"none", "listening", "disposed"}, ready : BOOLEAN, able : BOOLEAN,
               focused : Frame!Focus, title : Titles \cup {Unset}]
      BY <1>4 DEF Frame!TypeOK, Frame!Focus
    <2>2. s2' \in [Requests -> [stage : {"idle", "pending", "answered", "unasked", "rejected"},
                              kind : Frame!Kinds, result : {"none", "yes", "no"}]]
      BY <1>3 DEF Frame!TypeOK
    <2> QED BY <1>2, <2>1, <2>2 DEF Frame!TypeOK
  <1>6. Frame!WelcomeFirst' /\ Frame!TitleFollows' /\ Frame!YesIsMeant'
    BY DEF Frame!WelcomeFirst, Frame!TitleFollows, Frame!YesIsMeant, Frame!TypeOK
  <1>7. Frame!FocusFollows'
    <2>1. CASE m.type = "focus"
      <3>1. /\ \A i \in DOMAIN s7' : Frame!IsLast(s7', i, {"init", "focus"}) => s7'[i] = m
            /\ ~Frame!NoneOf(s7', {"init", "focus"})
        BY <1>1, <2>1, LastPosted, Posting DEF IsLast, NoneOf, Frame!IsLast, Frame!NoneOf
      <3> QED BY <2>1, <3>1 DEF Frame!FocusFollows, Frame!TypeOK
    <2>2. CASE m.type = "request"
      <3>1. m.type \notin {"init", "focus"} /\ m \in Frame!ToApp
        BY <2>2
      <3>2. /\ \A i \in DOMAIN s7' :
                 IsLast(s7', i, {"init", "focus"}) => i \in DOMAIN s7 /\ IsLast(s7, i, {"init", "focus"})
            /\ NoneOf(s7', {"init", "focus"}) => NoneOf(s7, {"init", "focus"})
        BY <1>1, <3>1, LastPosted
      <3>3. \A i \in DOMAIN s7 : s7'[i] = s7[i]
        BY <1>1, Posting
      <3>4. /\ \A i \in DOMAIN s7' : Frame!IsLast(s7', i, {"init", "focus"}) =>
                 i \in DOMAIN s7 /\ s7'[i] = s7[i] /\ Frame!IsLast(s7, i, {"init", "focus"})
            /\ Frame!NoneOf(s7', {"init", "focus"}) => Frame!NoneOf(s7, {"init", "focus"})
        BY <3>2, <3>3 DEF IsLast, NoneOf, Frame!IsLast, Frame!NoneOf
      <3> QED BY <2>2, <3>4 DEF Frame!FocusFollows
    <2> QED BY <2>1, <2>2
  <1>8. Frame!CloseNeedsConsent'
    <2>1. \A r \in Requests : s2'[r] = s2[r] \/ s2'[r].stage = "pending"
      BY <1>3 DEF Frame!TypeOK
    <2> QED BY <2>1 DEF Frame!CloseNeedsConsent
  <1> QED BY <1>5, <1>6, <1>7, <1>8

\* What is posted to the shell: a hello, the title that is set, or an answer
\* that the handler gave or that the handler's failure stands for.
LEMMA FramePostsToHost ==
  ASSUME Frame!IInv, NEW m \in Frame!ToHost, s6' = Append(s6, m), UNCHANGED <<s1, s2, s7>>,
         s4' \in [Requests -> Frame!Kinds \cup {"none"}], s5 \subseteq s5', s5' \subseteq Requests,
         \/ m.type = "hello" /\ \E n \in Int : s3' = [s3 EXCEPT !.hellos = n]
         \/ m.type = "title" /\ s3' = [s3 EXCEPT !.title = m.title] /\ s3.init
         \/ m.type = "reply" /\ (m.result = "yes" => m.to \in s5') /\ s3' = s3
  PROVE  Frame!IInv'
  <1> USE DEF Frame!IInv
  <1>1. s7 \in Seq(Frame!ToApp) /\ s6 \in Seq(Frame!ToHost)
    BY DEF Frame!TypeOK
  <1>2. s6' \in Seq(Frame!ToHost)
    BY <1>1, Posting
  <1>3. m.type = "title" => m.title \in Titles
    BY DEF Frame!ToHost, Frame!Hello
  <1>4. Frame!TypeOK'
    <2>1. s3' \in [able : BOOLEAN, init : BOOLEAN, focused : Frame!Focus, title : Titles \cup {Unset},
                   hellos : Int]
      BY <1>3 DEF Frame!TypeOK
    <2> QED BY <1>2, <2>1 DEF Frame!TypeOK
  <1>5. s3'.init = s3.init /\ s3'.focused = s3.focused
    BY DEF Frame!TypeOK
  <1>6. m.type # "title" => s3'.title = s3.title
    BY DEF Frame!TypeOK
  <1>7. Frame!WelcomeFirst' /\ Frame!FocusFollows' /\ Frame!CloseNeedsConsent'
    BY <1>5, <1>6 DEF Frame!WelcomeFirst, Frame!FocusFollows, Frame!CloseNeedsConsent
  <1>8. Frame!TitleFollows'
    <2>1. CASE m.type = "title"
      <3>1. /\ \A i \in DOMAIN s6' : Frame!IsLast(s6', i, {"title"}) => s6'[i] = m
            /\ ~Frame!NoneOf(s6', {"title"})
        BY <1>1, <2>1, LastPosted, Posting DEF IsLast, NoneOf, Frame!IsLast, Frame!NoneOf
      <3>2. s3'.title = m.title
        BY <2>1 DEF Frame!TypeOK
      <3> QED BY <3>1, <3>2 DEF Frame!TitleFollows
    <2>2. CASE m.type # "title"
      <3>1. m.type \notin {"title"} /\ m \in Frame!ToHost
        BY <2>2
      <3>2. /\ \A i \in DOMAIN s6' :
                 IsLast(s6', i, {"title"}) => i \in DOMAIN s6 /\ IsLast(s6, i, {"title"})
            /\ NoneOf(s6', {"title"}) => NoneOf(s6, {"title"})
        BY <1>1, <3>1, LastPosted
      <3>3. \A i \in DOMAIN s6 : s6'[i] = s6[i]
        BY <1>1, Posting
      <3>4. /\ \A i \in DOMAIN s6' : Frame!IsLast(s6', i, {"title"}) =>
                 i \in DOMAIN s6 /\ s6'[i] = s6[i] /\ Frame!IsLast(s6, i, {"title"})
            /\ Frame!NoneOf(s6', {"title"}) => Frame!NoneOf(s6, {"title"})
        BY <3>2, <3>3 DEF IsLast, NoneOf, Frame!IsLast, Frame!NoneOf
      <3> QED BY <2>2, <3>4, <1>6 DEF Frame!TitleFollows
    <2> QED BY <2>1, <2>2
  <1>9. Frame!YesIsMeant'
    <2>1. /\ DOMAIN s6' = 1 .. Len(s6) + 1 /\ DOMAIN s6 = 1 .. Len(s6) /\ Len(s6) \in Nat
          /\ \A i \in DOMAIN s6 : s6'[i] = s6[i]
          /\ s6'[Len(s6) + 1] = m
      BY <1>1, Posting
    <2>2. m.type = "reply" /\ m.result = "yes" => m.to \in s5'
      OBVIOUS
    <2> QED BY <2>1, <2>2 DEF Frame!YesIsMeant
  <1> QED BY <1>4, <1>7, <1>8, <1>9

\* The shell receives a hello, an answer or a title, or it does not listen.
LEMMA FrameHostReceives ==
  ASSUME Frame!IInv, Frame!HostReceives PROVE Frame!IInv'
  <1> DEFINE m == Head(s6)
  <1> USE DEF Frame!IInv
  <1>1. /\ s6 # <<>> /\ s6' = Tail(s6) /\ s6 \in Seq(Frame!ToHost) /\ s7 \in Seq(Frame!ToApp)
        /\ m \in Frame!ToHost /\ UNCHANGED <<s3, s4, s5>>
    BY Receiving DEF Frame!HostReceives, Frame!TypeOK
  <1>2. /\ s6' \in Seq(Frame!ToHost)
        /\ \A i \in DOMAIN s6' : i + 1 \in DOMAIN s6 /\ s6'[i] = s6[i + 1]
        /\ m = s6[1] /\ 1 \in DOMAIN s6
    BY <1>1, Receiving
  <1>3. /\ \A i \in DOMAIN s6' : Frame!IsLast(s6', i, {"title"}) => Frame!IsLast(s6, i + 1, {"title"})
        /\ Frame!NoneOf(s6', {"title"}) =>
             IF m.type = "title" THEN Frame!IsLast(s6, 1, {"title"}) ELSE Frame!NoneOf(s6, {"title"})
    BY <1>1, LastReceived DEF IsLast, NoneOf, Frame!IsLast, Frame!NoneOf
  <1>4. Frame!YesIsMeant'
    BY <1>1, <1>2 DEF Frame!YesIsMeant
  <1> HIDE DEF m
  \* Where the title stays as it was.
  <1>5. ASSUME s1'.stage = s1.stage, s1'.title = s1.title, m.type # "title" PROVE Frame!TitleFollows'
    <2> SUFFICES ASSUME s1.stage = "listening", s3.title # Unset PROVE Frame!TitleFollows'
      BY <1>1, <1>5 DEF Frame!TitleFollows
    <2>1. ASSUME NEW i \in DOMAIN s6', Frame!IsLast(s6', i, {"title"})
          PROVE  s6'[i].title = s3.title
      BY <2>1, <1>2, <1>3 DEF Frame!TitleFollows
    <2>2. Frame!NoneOf(s6', {"title"}) => s1'.title = s3.title
      BY <1>3, <1>5 DEF Frame!TitleFollows
    <2> QED BY <2>1, <2>2, <1>1 DEF Frame!TitleFollows
  <1>6. CASE s1.stage # "listening"
    <2>1. UNCHANGED <<s1, s2, s7>>
      BY <1>6 DEF Frame!HostReceives
    <2>2. Frame!TypeOK'
      BY <1>1, <1>2, <2>1 DEF Frame!TypeOK
    <2> QED BY <1>1, <1>4, <1>6, <2>1, <2>2
        DEF Frame!WelcomeFirst, Frame!FocusFollows, Frame!TitleFollows, Frame!CloseNeedsConsent
  <1>7. CASE s1.stage = "listening" /\ Frame!HelloReceived(m)
    <2>1. /\ s1' = [s1 EXCEPT !.ready = TRUE, !.able = m.able] /\ s2' = s2 /\ m.type = "hello"
          /\ s7' = s7 \o Frame!Welcome
      BY <1>7 DEF Frame!HelloReceived
    <2>2. m.able \in BOOLEAN
      BY <1>1, <2>1 DEF Frame!ToHost, Frame!Hello
    <2> DEFINE last == IF s1.focused = Unset THEN [type |-> "init"] ELSE Frame!Focused(s1.focused)
    <2>3. [type |-> "init"] \in Frame!ToApp /\ last \in Frame!ToApp
      BY DEF Frame!ToApp, Frame!Focused, Frame!TypeOK, Frame!Focus
    <2>4. \E t \in Seq(Frame!ToApp) : s7' = Append(t, last)
      <3>1. CASE s1.focused = Unset
        <4>1. s7' = Append(s7, last)
          BY <1>1, <2>1, <2>3, <3>1 DEF Frame!Welcome
        <4> QED BY <1>1, <4>1
      <3>2. CASE s1.focused # Unset
        <4>1. s7' = Append(Append(s7, [type |-> "init"]), last)
          BY <1>1, <2>1, <2>3, <3>2 DEF Frame!Welcome
        <4>2. Append(s7, [type |-> "init"]) \in Seq(Frame!ToApp)
          BY <1>1, <2>3, Posting
        <4> QED BY <4>1, <4>2
      <3> QED BY <3>1, <3>2
    <2>5. PICK t \in Seq(Frame!ToApp) : s7' = Append(t, last)
      BY <2>4
    <2>6. s7' \in Seq(Frame!ToApp)
      BY <2>3, <2>5, Posting
    <2>7. Frame!TypeOK'
      BY <1>1, <1>2, <2>1, <2>2, <2>6 DEF Frame!TypeOK
    <2>8. last.type \in {"init", "focus"}
      BY DEF Frame!Focused
    <2>9. /\ \A i \in DOMAIN s7' : Frame!IsLast(s7', i, {"init", "focus"}) => s7'[i] = last
          /\ ~Frame!NoneOf(s7', {"init", "focus"})
      BY <2>3, <2>5, <2>8, LastPosted, Posting DEF IsLast, NoneOf, Frame!IsLast, Frame!NoneOf
    <2>10. Frame!FocusFollows'
      BY <2>1, <2>9 DEF Frame!FocusFollows, Frame!Focused, Frame!TypeOK
    <2>11. Frame!WelcomeFirst' /\ Frame!CloseNeedsConsent'
      BY <1>1, <1>7, <2>1 DEF Frame!WelcomeFirst, Frame!CloseNeedsConsent, Frame!TypeOK
    <2>12. Frame!TitleFollows'
      BY <1>5, <2>1 DEF Frame!TypeOK
    <2> QED BY <1>4, <2>7, <2>10, <2>11, <2>12
  <1>8. CASE s1.stage = "listening" /\ Frame!ReplyReceived(m)
    <2>1. /\ UNCHANGED <<s1, s7>> /\ m.type = "reply"
          /\ \/ s2' = s2
             \/ s2' = [s2 EXCEPT ![m.to].stage = "answered", ![m.to].result = m.result]
      BY <1>8 DEF Frame!ReplyReceived
    <2>2. m.to \in Requests /\ m.result \in {"yes", "no"} /\ (m.result = "yes" => m.to \in s5)
      BY <1>1, <1>2, <2>1 DEF Frame!ToHost, Frame!Hello, Frame!YesIsMeant
    <2>3. Frame!TypeOK'
      <3>1. s2' \in [Requests -> [stage : {"idle", "pending", "answered", "unasked", "rejected"},
                                  kind : Frame!Kinds, result : {"none", "yes", "no"}]]
        BY <2>1, <2>2 DEF Frame!TypeOK
      <3> QED BY <1>1, <1>2, <2>1, <3>1 DEF Frame!TypeOK
    <2>4. Frame!CloseNeedsConsent'
      BY <1>1, <2>1, <2>2, SMTT(20) DEF Frame!CloseNeedsConsent, Frame!TypeOK
    <2>5. Frame!TitleFollows'
      BY <1>5, <2>1
    <2> QED BY <1>1, <1>4, <2>1, <2>3, <2>4, <2>5 DEF Frame!WelcomeFirst, Frame!FocusFollows
  <1>9. CASE s1.stage = "listening" /\ Frame!TitleReceived(m)
    <2>1. /\ UNCHANGED <<s2, s7>> /\ m.type = "title"
          /\ s1' = [s1 EXCEPT !.title = IF s1.ready THEN m.title ELSE @]
      BY <1>9 DEF Frame!TitleReceived
    <2>2. m.title \in Titles
      BY <1>1, <2>1 DEF Frame!ToHost, Frame!Hello
    <2>3. Frame!TypeOK'
      BY <1>1, <1>2, <2>1, <2>2 DEF Frame!TypeOK
    <2>4. Frame!TitleFollows'
      <3> SUFFICES ASSUME s3.title # Unset PROVE Frame!TitleFollows'
        BY <1>1 DEF Frame!TitleFollows
      <3>1. s1.ready
        BY <1>9 DEF Frame!WelcomeFirst
      <3>2. ASSUME NEW i \in DOMAIN s6', Frame!IsLast(s6', i, {"title"})
            PROVE  s6'[i].title = s3.title
        BY <3>2, <1>2, <1>3, <1>9 DEF Frame!TitleFollows
      <3>3. Frame!NoneOf(s6', {"title"}) => m.title = s3.title
        BY <1>2, <1>3, <1>9, <2>1 DEF Frame!TitleFollows
      <3>4. s1'.title = m.title
        BY <2>1, <3>1 DEF Frame!TypeOK
      <3> QED BY <1>1, <3>2, <3>3, <3>4 DEF Frame!TitleFollows
    <2> QED BY <1>1, <1>4, <2>1, <2>3, <2>4
        DEF Frame!WelcomeFirst, Frame!FocusFollows, Frame!CloseNeedsConsent, Frame!TypeOK
  <1> QED BY <1>6, <1>7, <1>8, <1>9 DEF Frame!HostReceives, m


\* A listening shell has heard nobody; a disposed one keeps silent.
LEMMA FrameStage ==
  ASSUME Frame!IInv, Frame!HostCreated \/ Frame!Dispose PROVE Frame!IInv'
  <1> USE DEF Frame!IInv
  <1>1. UNCHANGED <<s3, s4, s5, s6, s7>>
    BY DEF Frame!HostCreated, Frame!Dispose
  <1>2. CASE Frame!HostCreated
    <2>1. s1.stage = "none" /\ s1' = [s1 EXCEPT !.stage = "listening"] /\ s2' = s2
      BY <1>2 DEF Frame!HostCreated
    <2>2. s7 = <<>> /\ ~s3.init /\ s3.title = Unset
      BY <2>1 DEF Frame!WelcomeFirst, Frame!TypeOK
    <2> QED BY <1>1, <2>1, <2>2
        DEF Frame!TypeOK, Frame!WelcomeFirst, Frame!FocusFollows, Frame!TitleFollows, Frame!YesIsMeant,
            Frame!CloseNeedsConsent
  <1>3. CASE Frame!Dispose
    <2>1. /\ s1' = [s1 EXCEPT !.stage = "disposed", !.ready = FALSE]
          /\ s2' = [r \in Requests |->
               IF s2[r].stage = "pending" THEN [s2[r] EXCEPT !.stage = "rejected"] ELSE s2[r]]
      BY <1>3 DEF Frame!Dispose
    <2>2. Frame!TypeOK'
      BY <1>1, <2>1 DEF Frame!TypeOK
    <2>3. Frame!CloseNeedsConsent'
      BY <1>1, <2>1 DEF Frame!CloseNeedsConsent, Frame!TypeOK
    <2>4. s1'.stage = "disposed" /\ ~s1'.ready
      BY <2>1 DEF Frame!TypeOK
    <2> QED BY <1>1, <2>2, <2>3, <2>4
        DEF Frame!WelcomeFirst, Frame!FocusFollows, Frame!TitleFollows, Frame!YesIsMeant, Frame!TypeOK
  <1> QED BY <1>2, <1>3

\* The focus is told to a page that said hello; another one learns it later.
LEMMA FrameSetFocused ==
  ASSUME Frame!IInv, NEW focused \in BOOLEAN, Frame!SetFocused(focused) PROVE Frame!IInv'
  <1>1. /\ s1.stage = "listening" /\ s1' = [s1 EXCEPT !.focused = focused]
        /\ UNCHANGED <<s2, s3, s4, s5, s6>>
        /\ s7' = IF s1.ready THEN Append(s7, Frame!Focused(focused)) ELSE s7
    BY DEF Frame!SetFocused
  <1>2. CASE s1.ready
    <2>1. Frame!Focused(focused) \in Frame!ToApp
      BY DEF Frame!Focused, Frame!ToApp
    <2> QED BY <1>1, <1>2, <2>1, FramePostsToApp DEF Frame!Focused
  <1>3. CASE ~s1.ready
    <2> USE DEF Frame!IInv
    <2>1. s7' = <<>> /\ ~s3'.init
      BY <1>1, <1>3 DEF Frame!WelcomeFirst
    <2>2. Frame!TypeOK'
      BY <1>1, <1>3 DEF Frame!TypeOK, Frame!Focus
    <2>3. Frame!WelcomeFirst' /\ Frame!FocusFollows' /\ Frame!TitleFollows' /\ Frame!YesIsMeant'
            /\ Frame!CloseNeedsConsent'
      BY <1>1, <1>3, <2>1 DEF Frame!TypeOK, Frame!WelcomeFirst, Frame!FocusFollows, Frame!TitleFollows,
                         Frame!YesIsMeant, Frame!CloseNeedsConsent
    <2> QED BY <2>2, <2>3
  <1> QED BY <1>2, <1>3

\* A request that is settled without an answer of the page.
LEMMA FrameSettles ==
  ASSUME Frame!IInv, NEW r \in Requests, NEW stage \in {"unasked", "rejected"},
         NEW kind \in Frame!Kinds, NEW result \in {"none", "yes", "no"},
         s2' = [s2 EXCEPT ![r] = [stage |-> stage, kind |-> kind, result |-> result]],
         UNCHANGED <<s1, s3, s4, s5, s6, s7>>
  PROVE  Frame!IInv'
  <1> USE DEF Frame!IInv
  <1>1. Frame!TypeOK'
    BY DEF Frame!TypeOK
  <1>2. Frame!CloseNeedsConsent'
    <2>1. \A q \in Requests : s2'[q] = s2[q] \/ s2'[q].stage # "answered"
      BY DEF Frame!TypeOK
    <2> QED BY <2>1 DEF Frame!CloseNeedsConsent
  <1> QED BY <1>1, <1>2 DEF Frame!WelcomeFirst, Frame!FocusFollows, Frame!TitleFollows, Frame!YesIsMeant

\* What the shell asks, and what it asks in vain.
LEMMA FrameAsks ==
  ASSUME Frame!IInv, NEW r \in Requests, Frame!TimesOut(r) \/ \E kind \in Frame!Kinds : Frame!Asks(r, kind)
  PROVE  Frame!IInv'
  <1>1. CASE Frame!TimesOut(r)
    <2>1. s2[r].kind \in Frame!Kinds /\ s2[r].result \in {"none", "yes", "no"}
      BY DEF Frame!IInv, Frame!TypeOK
    <2>2. [s2[r] EXCEPT !.stage = "rejected"]
            = [stage |-> "rejected", kind |-> s2[r].kind, result |-> s2[r].result]
      BY DEF Frame!IInv, Frame!TypeOK
    <2>3. s2' = [s2 EXCEPT ![r] = [stage |-> "rejected", kind |-> s2[r].kind, result |-> s2[r].result]]
      BY <1>1, <2>2 DEF Frame!TimesOut
    <2> QED BY <1>1, <2>1, <2>3, FrameSettles DEF Frame!TimesOut
  <1>2. ASSUME NEW kind \in Frame!Kinds, Frame!Asks(r, kind) PROVE Frame!IInv'
    <2> DEFINE m == [type |-> "request", id |-> r, kind |-> kind]
    <2>1. /\ UNCHANGED <<s1, s3, s4, s5, s6>> /\ s1.stage # "none"
          /\ \/ /\ s7' = s7
                /\ \E stage \in {"unasked", "rejected"}, result \in {"none", "yes", "no"} :
                     s2' = [s2 EXCEPT ![r] = [stage |-> stage, kind |-> kind, result |-> result]]
             \/ /\ s1.ready /\ s7' = Append(s7, m)
                /\ s2' = [s2 EXCEPT ![r] = [stage |-> "pending", kind |-> kind, result |-> "none"]]
      BY <1>2 DEF Frame!Asks, Frame!Settled
    <2>2. m \in Frame!ToApp
      BY DEF Frame!ToApp
    <2>3. CASE s1.ready /\ s7' = Append(s7, m)
                /\ s2' = [s2 EXCEPT ![r] = [stage |-> "pending", kind |-> kind, result |-> "none"]]
      <3>1. s1.stage = "listening"
        BY <2>1, <2>3 DEF Frame!IInv, Frame!WelcomeFirst, Frame!TypeOK
      <3> QED BY <2>1, <2>2, <2>3, <3>1, FramePostsToApp
    <2> QED BY <2>1, <2>3, FrameSettles
  <1> QED BY <1>1, <1>2

\* What the page says of itself.
LEMMA FrameSays ==
  ASSUME Frame!IInv, Frame!SaysHello \/ \E title \in Titles : Frame!SetTitle(title)
  PROVE  Frame!IInv'
  <1>1. CASE Frame!SaysHello
    <2>1. Frame!Hello(s3.able) \in Frame!ToHost /\ s3.hellos - 1 \in Int
      BY DEF Frame!ToHost, Frame!IInv, Frame!TypeOK
    <2>2. s4 \in [Requests -> Frame!Kinds \cup {"none"}] /\ s5 \subseteq Requests
      BY DEF Frame!IInv, Frame!TypeOK
    <2> QED BY <1>1, <2>1, <2>2, FramePostsToHost DEF Frame!SaysHello, Frame!Hello
  <1>2. ASSUME NEW title \in Titles, Frame!SetTitle(title) PROVE Frame!IInv'
    <2>1. CASE s3.init /\ title # s3.title
      <3>1. [type |-> "title", title |-> title] \in Frame!ToHost
        BY DEF Frame!ToHost
      <3>2. s4 \in [Requests -> Frame!Kinds \cup {"none"}] /\ s5 \subseteq Requests
        BY DEF Frame!IInv, Frame!TypeOK
      <3> QED BY <1>2, <2>1, <3>1, <3>2, FramePostsToHost DEF Frame!SetTitle
    <2>2. CASE ~(s3.init /\ title # s3.title)
      <3>1. UNCHANGED <<s1, s2, s3, s4, s5, s6, s7>>
        BY <1>2, <2>2 DEF Frame!SetTitle, Frame!RememberedBeforeInit, Frame!IInv, Frame!TypeOK
      <3> QED BY <3>1 DEF Frame!IInv, Frame!TypeOK, Frame!WelcomeFirst, Frame!FocusFollows,
              Frame!TitleFollows, Frame!YesIsMeant, Frame!CloseNeedsConsent
    <2> QED BY <2>1, <2>2
  <1> QED BY <1>1, <1>2

\* A handler that says yes has consented.
LEMMA FrameHandlerEnds ==
  ASSUME Frame!IInv, NEW r \in Requests, Frame!HandlerEnds(r) PROVE Frame!IInv'
  <1>1. PICK outcome \in {"yes", "no", "throws"} :
          LET answer == IF outcome = "throws" THEN Frame!AnswerOnError(s4[r]) ELSE outcome IN
            /\ s5' = IF outcome = "yes" THEN s5 \cup {r} ELSE s5
            /\ s6' = IF answer = "none" THEN s6
                     ELSE Append(s6, [type |-> "reply", to |-> r, result |-> answer])
    BY DEF Frame!HandlerEnds
  <1> DEFINE answer == IF outcome = "throws" THEN Frame!AnswerOnError(s4[r]) ELSE outcome
             m == [type |-> "reply", to |-> r, result |-> answer]
  <1>2. /\ s4' \in [Requests -> Frame!Kinds \cup {"none"}] /\ UNCHANGED <<s1, s2, s3, s7>>
        /\ s5 \subseteq s5' /\ s5' \subseteq Requests /\ (outcome = "yes" => r \in s5')
    BY <1>1 DEF Frame!HandlerEnds, Frame!IInv, Frame!TypeOK
  <1>3. answer \in {"none", "yes", "no"} /\ (answer = "yes" => outcome = "yes")
    BY DEF Frame!AnswerOnError
  <1>4. CASE answer = "none"
    <2>1. s6' = s6
      BY <1>1, <1>4
    <2> QED BY <1>2, <2>1 DEF Frame!IInv, Frame!TypeOK, Frame!WelcomeFirst, Frame!FocusFollows,
              Frame!TitleFollows, Frame!YesIsMeant, Frame!CloseNeedsConsent
  <1>5. CASE answer # "none"
    <2>1. s6' = Append(s6, m)
      BY <1>1, <1>5
    <2>2. m \in Frame!ToHost
      BY <1>3, <1>5 DEF Frame!ToHost
    <2> HIDE DEF answer
    <2>3. m.type = "reply" /\ (m.result = "yes" => m.to \in s5') /\ s3' = s3
      BY <1>2, <1>3
    <2> QED BY <1>2, <2>1, <2>2, <2>3, FramePostsToHost
  <1> QED BY <1>4, <1>5

\* A page that is loaded again knows nothing, and nothing is said to it.
LEMMA FrameReload ==
  ASSUME Frame!IInv, Frame!Reload PROVE Frame!IInv'
  <1>1. PICK able \in BOOLEAN : s3' = Frame!NewPage(able) /\ s6' = Append(s6, Frame!Hello(able))
    BY DEF Frame!Reload
  <1> USE DEF Frame!IInv
  <1>2. s6 \in Seq(Frame!ToHost) /\ Frame!Hello(able) \in Frame!ToHost
    BY DEF Frame!TypeOK, Frame!ToHost
  <1>3. /\ s6' \in Seq(Frame!ToHost)
        /\ DOMAIN s6' = 1 .. Len(s6) + 1 /\ DOMAIN s6 = 1 .. Len(s6) /\ Len(s6) \in Nat
        /\ \A i \in DOMAIN s6 : s6'[i] = s6[i]
        /\ s6'[Len(s6) + 1] = Frame!Hello(able)
    BY <1>1, <1>2, Posting
  <1>4. /\ s7' = <<>> /\ UNCHANGED <<s1, s2, s5>> /\ s4' = [r \in Requests |-> "none"]
        /\ ~s3'.init /\ s3'.title = Unset
    BY <1>1 DEF Frame!Reload, Frame!NewPage
  <1>5. Frame!TypeOK'
    <2>1. s3' \in [able : BOOLEAN, init : BOOLEAN, focused : Frame!Focus, title : Titles \cup {Unset},
                   hellos : Int]
      BY <1>1, MaxHellosAssumption DEF Frame!NewPage, Frame!Focus
    <2> QED BY <1>3, <1>4, <2>1 DEF Frame!TypeOK
  <1>6. Frame!WelcomeFirst' /\ Frame!FocusFollows' /\ Frame!TitleFollows' /\ Frame!CloseNeedsConsent'
    BY <1>4 DEF Frame!WelcomeFirst, Frame!FocusFollows, Frame!TitleFollows, Frame!CloseNeedsConsent
  <1>7. Frame!YesIsMeant'
    BY <1>3, <1>4 DEF Frame!YesIsMeant, Frame!Hello
  <1> QED BY <1>5, <1>6, <1>7

\* The page receives the welcome, the focus or a request.
LEMMA FrameAppReceives ==
  ASSUME Frame!IInv, Frame!AppReceives PROVE Frame!IInv'
  <1> DEFINE m == Head(s7)
  <1> USE DEF Frame!IInv
  <1>1. /\ s7 # <<>> /\ s7' = Tail(s7) /\ s7 \in Seq(Frame!ToApp)
        /\ m \in Frame!ToApp /\ UNCHANGED <<s1, s2, s5, s6>>
    BY Receiving DEF Frame!AppReceives, Frame!TypeOK
  <1>2. /\ s7' \in Seq(Frame!ToApp)
        /\ \A i \in DOMAIN s7' : i + 1 \in DOMAIN s7 /\ s7'[i] = s7[i + 1]
        /\ m = s7[1] /\ 1 \in DOMAIN s7
    BY <1>1, Receiving
  <1>3. /\ \A i \in DOMAIN s7' :
             Frame!IsLast(s7', i, {"init", "focus"}) => Frame!IsLast(s7, i + 1, {"init", "focus"})
        /\ Frame!NoneOf(s7', {"init", "focus"}) =>
             IF m.type \in {"init", "focus"} THEN Frame!IsLast(s7, 1, {"init", "focus"})
             ELSE Frame!NoneOf(s7, {"init", "focus"})
    BY <1>1, LastReceived, ZenonT(40) DEF IsLast, NoneOf, Frame!IsLast, Frame!NoneOf
  <1>4. s1.stage # "none" /\ (s1.ready \/ s1.stage = "disposed")
    BY <1>1 DEF Frame!WelcomeFirst, Frame!TypeOK
  <1>5. Frame!InitReceived(m) \/ Frame!FocusReceived(m) \/ Frame!RequestReceived(m)
    BY DEF Frame!AppReceives
  <1> HIDE DEF m
  <1>6. Frame!YesIsMeant' /\ Frame!CloseNeedsConsent'
    BY <1>1 DEF Frame!YesIsMeant, Frame!CloseNeedsConsent
  \* The messages that remain say the same.
  <1>7. ASSUME s1.stage = "listening", NEW i \in DOMAIN s7', Frame!IsLast(s7', i, {"init", "focus"})
        PROVE  s1.focused = IF s7'[i].type = "init" THEN Unset ELSE s7'[i].focused
    BY <1>2, <1>3, <1>7 DEF Frame!FocusFollows
  <1>8. CASE Frame!InitReceived(m)
    <2>1. /\ s3' = [s3 EXCEPT !.init = TRUE, !.hellos = 0, !.focused = Unset, !.title = Unset]
          /\ m.type = "init" /\ s4' = s4
      BY <1>8 DEF Frame!InitReceived
    <2>2. Frame!TypeOK'
      <3>1. s3 \in [able : BOOLEAN, init : BOOLEAN, focused : Frame!Focus, title : Titles \cup {Unset},
                     hellos : Int]
        BY DEF Frame!TypeOK
      <3>2. Unset \in Frame!Focus /\ Unset \in Titles \cup {Unset} /\ 0 \in Int
        BY DEF Frame!Focus
      <3>3. s3' \in [able : BOOLEAN, init : BOOLEAN, focused : Frame!Focus, title : Titles \cup {Unset},
                     hellos : Int]
        BY <2>1, <3>1, <3>2
      <3> QED BY <1>1, <1>2, <2>1, <3>3 DEF Frame!TypeOK
    <2>3. s3'.focused = Unset /\ s3'.title = Unset
      BY <2>1 DEF Frame!TypeOK
    <2>4. s1.stage = "listening" /\ Frame!NoneOf(s7', {"init", "focus"}) => s1.focused = Unset
      BY <1>2, <1>3, <2>1 DEF Frame!FocusFollows
    <2>5. Frame!FocusFollows'
      BY <1>1, <1>7, <2>3, <2>4 DEF Frame!FocusFollows
    <2> QED BY <1>1, <1>4, <1>6, <2>2, <2>3, <2>5 DEF Frame!WelcomeFirst, Frame!TitleFollows
  <1>9. CASE Frame!FocusReceived(m)
    <2>1. s3' = [s3 EXCEPT !.focused = IF s3.init THEN m.focused ELSE @] /\ m.type = "focus" /\ s4' = s4
      BY <1>9 DEF Frame!FocusReceived
    <2>2. m.focused \in BOOLEAN
      BY <1>1, <2>1 DEF Frame!ToApp
    <2>3. Frame!TypeOK'
      BY <1>1, <1>2, <2>1, <2>2 DEF Frame!TypeOK, Frame!Focus
    <2>4. s3'.title = s3.title /\ s3'.init = s3.init /\ (s3.init => s3'.focused = m.focused)
      BY <2>1 DEF Frame!TypeOK
    <2>5. s1.stage = "listening" /\ Frame!NoneOf(s7', {"init", "focus"}) => s1.focused = m.focused
      BY <1>2, <1>3, <2>1 DEF Frame!FocusFollows
    <2>6. Frame!FocusFollows'
      BY <1>1, <1>7, <2>4, <2>5 DEF Frame!FocusFollows
    <2> QED BY <1>1, <1>4, <1>6, <2>3, <2>4, <2>6 DEF Frame!WelcomeFirst, Frame!TitleFollows
  <1>10. CASE Frame!RequestReceived(m)
    <2>1. /\ s4' = (IF s3.init THEN [s4 EXCEPT ![m.id] = m.kind] ELSE s4)
          /\ m.type = "request" /\ s3' = s3
      BY <1>10 DEF Frame!RequestReceived
    <2>2. m.id \in Requests /\ m.kind \in Frame!Kinds
      BY <1>1, <2>1 DEF Frame!ToApp
    <2>3. Frame!TypeOK'
      BY <1>1, <1>2, <2>1, <2>2 DEF Frame!TypeOK
    <2>4. Frame!FocusFollows'
      BY <1>1, <1>3, <1>7, <2>1 DEF Frame!FocusFollows
    <2> QED BY <1>1, <1>4, <1>6, <2>1, <2>3, <2>4 DEF Frame!WelcomeFirst, Frame!TitleFollows
  <1> QED BY <1>5, <1>8, <1>9, <1>10

\* Every step keeps the invariant of the frame protocol.
LEMMA FrameNext == Frame!IInv /\ Frame!Next => Frame!IInv'
  <1> SUFFICES ASSUME Frame!IInv, Frame!Next PROVE Frame!IInv'
    OBVIOUS
  <1>1. CASE Frame!HostCreated \/ Frame!Dispose
    BY <1>1, FrameStage
  <1>2. CASE Frame!SaysHello \/ \E title \in Titles : Frame!SetTitle(title)
    BY <1>2, FrameSays
  <1>3. CASE \E focused \in BOOLEAN : Frame!SetFocused(focused)
    BY <1>3, FrameSetFocused
  <1>4. CASE Frame!Reload
    BY <1>4, FrameReload
  <1>5. CASE Frame!Deliver
    BY <1>5, FrameHostReceives, FrameAppReceives DEF Frame!Deliver
  <1>6. ASSUME NEW r \in Requests,
               Frame!TimesOut(r) \/ Frame!HandlerEnds(r) \/ \E kind \in Frame!Kinds : Frame!Asks(r, kind)
        PROVE  Frame!IInv'
    BY <1>6, FrameAsks, FrameHandlerEnds
  <1> QED BY <1>1, <1>2, <1>3, <1>4, <1>5, <1>6 DEF Frame!Next

\* What the run checks of the frame follows from the invariant: with no message
\* under way, the last word is what the page knows.
LEMMA FrameMeans == Frame!IInv => Frame!FocusAgrees /\ Frame!TitleAgrees /\ Frame!CloseNeedsConsent
  <1> SUFFICES ASSUME Frame!IInv PROVE Frame!FocusAgrees /\ Frame!TitleAgrees /\ Frame!CloseNeedsConsent
    OBVIOUS
  <1>1. Frame!Quiet => Frame!NoneOf(s7, {"init", "focus"}) /\ Frame!NoneOf(s6, {"title"})
    BY DEF Frame!Quiet, Frame!NoneOf
  <1> QED BY <1>1 DEF Frame!IInv, Frame!FocusAgrees, Frame!TitleAgrees, Frame!FocusFollows, Frame!TitleFollows

\* And of the preview embed.
LEMMA EmbedMeans == Embed!IInv => Embed!EmbedAgrees
  BY DEF Embed!IInv, Embed!EmbedAgrees, Embed!LookFollows, Embed!StateFollows, Embed!NoneOf,
         Embed!TypeOK

-----------------------------------------------------------------------------
(* The frames agree.                                                       *)

FrameInv ==
  /\ part = "frame" => Frame!IInv
  /\ part = "embed" => Embed!IInv

\* Shell and page agree on the focus and the title, App and preview on the look
\* and the state, once no message is under way, and only the App's own handler
\* lets its window be closed: whatever reloads and however often the focus
\* changes (AppFrame and PreviewEmbed in app-frame.ts).
THEOREM FramesAgree == Spec => []FrameAgrees
  <1>1. Init => FrameInv
    BY FrameInit, EmbedInit DEF Init, FrameInv
  <1>2. FrameInv /\ [Next]_all => FrameInv'
    <2> SUFFICES ASSUME FrameInv, [Next]_all PROVE FrameInv'
      OBVIOUS
    <2>1. part' = part
      BY PartSteps
    <2>2. CASE part = "frame"
      <3>1. Frame!Next \/ UNCHANGED Frame!vars
        BY <2>2, PartSteps
      <3>2. CASE UNCHANGED Frame!vars
        BY <2>1, <2>2, <3>2 DEF FrameInv, Frame!vars, Frame!IInv, Frame!TypeOK, Frame!WelcomeFirst,
           Frame!FocusFollows, Frame!TitleFollows, Frame!YesIsMeant, Frame!CloseNeedsConsent
      <3> QED BY <2>1, <2>2, <3>1, <3>2, FrameNext DEF FrameInv
    <2>3. CASE part = "embed"
      <3>1. Embed!Next \/ UNCHANGED Embed!vars
        BY <2>3, PartSteps
      <3>2. CASE UNCHANGED Embed!vars
        BY <2>1, <2>3, <3>2 DEF FrameInv, Embed!vars, Embed!IInv, Embed!TypeOK, Embed!LookFollows,
           Embed!StateFollows
      <3> QED BY <2>1, <2>3, <3>1, <3>2, EmbedNext DEF FrameInv
    <2> QED BY <2>1, <2>2, <2>3 DEF FrameInv
  <1>3. FrameInv => FrameAgrees
    BY FrameMeans, EmbedMeans DEF FrameInv, FrameAgrees
  <1> QED BY <1>1, <1>2, <1>3, PTL DEF Spec

-----------------------------------------------------------------------------
(* WatchControl.                                                           *)

\* The first check waits, and nothing was built.
LEMMA WatchInit == Watch!Init => Watch!IInv
  <1> SUFFICES ASSUME Watch!Init PROVE Watch!IInv
    OBVIOUS
  <1>1. ~s4 /\ ~s5 /\ ~s12
    BY Zenon DEF Watch!Init
  <1>2. s3 \in BOOLEAN /\ s4 \in BOOLEAN /\ s5 \in BOOLEAN /\ s11 \in BOOLEAN /\ s12 \in BOOLEAN
    BY Zenon DEF Watch!Init
  <1>3. /\ s1 = 1 /\ s9 = 0 /\ s10 = 0 /\ s8 = 0 /\ s6 = 1 /\ s7 = "none" /\ s13 = 0 /\ s14 = 0
        /\ s2 \in {"finish", "list"}
    BY DEF Watch!Init, Watch!Head
  <1> QED BY <1>1, <1>2, <1>3 DEF Watch!IInv, Watch!TypeOK, Watch!Stopped, Watch!BuildsFollow,
         Watch!ChangesAreFound, Watch!ChecksOver

\* Every step keeps the invariant of the watched folder.
LEMMA WatchNext == Watch!IInv /\ Watch!Next => Watch!IInv'
  <1> SUFFICES ASSUME Watch!IInv, Watch!Next PROVE Watch!IInv'
    OBVIOUS
  <1> USE DEF Watch!IInv, Watch!TypeOK, Watch!Stopped, Watch!BuildsFollow, Watch!ChangesAreFound,
              Watch!ChecksOver
  <1>1. CASE Watch!ListReturns \/ Watch!ListThrows \/ Watch!OpenReturns
    BY <1>1 DEF Watch!ListReturns, Watch!ListThrows, Watch!OpenReturns, Watch!Goes, Watch!checkVars
  <1>2. CASE Watch!Event \/ Watch!SleepOver \/ Watch!Returns
    BY <1>2 DEF Watch!Event, Watch!SleepOver, Watch!Returns, Watch!Goes, Watch!Head, Watch!checkVars
  <1>3. CASE Watch!StreamEnds \/ Watch!StreamBreaks
    <2>1. /\ s2 \in {"open", "stream"} /\ s2' \in {"list", "sleep", "finish"} /\ s13' = s13 + 1
          /\ UNCHANGED <<s1, s6, s7, s8, s9, s10, s14>>
      BY <1>3 DEF Watch!StreamEnds, Watch!StreamBreaks, Watch!StreamOver, Watch!Goes, Watch!Head, Watch!checkVars
    <2>2. /\ s4' \in BOOLEAN /\ s12' \in BOOLEAN /\ s5' \in BOOLEAN /\ s3' = s3 /\ s11' = s11
          /\ (s12' <=> s12 \/ s4) /\ (s5' <=> s5 /\ s2' # "finish")
      BY <1>3, Zenon DEF Watch!StreamEnds, Watch!StreamBreaks, Watch!StreamOver, Watch!Goes
    <2> QED BY <2>1, <2>2
  <1>4. CASE Watch!TimerFires
    <2>1. s5' \in BOOLEAN /\ ~s5' /\ UNCHANGED <<s3, s4, s11, s12>>
      BY <1>4, Zenon DEF Watch!TimerFires, Watch!otherVars
    <2>2. s5 /\ s6' = s6 + 1 /\ UNCHANGED <<s1, s2, s7, s8, s9, s10, s13, s14>>
      BY <1>4 DEF Watch!TimerFires, Watch!otherVars
    <2> QED BY <2>1, <2>2
  <1>5. CASE Watch!StartCheck
    BY <1>5 DEF Watch!StartCheck, Watch!NothingRuns, Watch!otherVars
  <1>6. CASE Watch!SourcesRead
    <2>1. s12' \in BOOLEAN /\ ~s12' /\ UNCHANGED <<s3, s4, s5, s11>>
      BY <1>6, Zenon DEF Watch!SourcesRead, Watch!otherVars
    <2>2. /\ s8' = s1 /\ s9' = s1 /\ s7' = (IF s1 = s9 THEN "none" ELSE "building")
          /\ UNCHANGED <<s1, s2, s6, s10, s13, s14>> /\ s7 = "reading"
      BY <1>6 DEF Watch!SourcesRead, Watch!otherVars
    <2> QED BY <2>1, <2>2
  <1>7. CASE Watch!ReadFails
    BY <1>7 DEF Watch!ReadFails, Watch!otherVars
  <1>8. CASE Watch!BuildReturns
    BY <1>8 DEF Watch!BuildReturns, Watch!otherVars
  <1>9. CASE Watch!BuildFails
    BY <1>9 DEF Watch!BuildFails, Watch!otherVars
  <1>10. CASE Watch!Change
    <2>1. /\ s4' \in BOOLEAN /\ (s4' <=> s4 \/ s2 = "stream") /\ s12' \in BOOLEAN
          /\ (s12' <=> s12 \/ s2 # "stream") /\ UNCHANGED <<s3, s5, s11>>
      BY <1>10, Zenon DEF Watch!Change
    <2>2. s1' = s1 + 1 /\ UNCHANGED <<s2, s6, s7, s8, s9, s10, s13, s14>>
      BY <1>10 DEF Watch!Change, Watch!checkVars
    <2> QED BY <2>1, <2>2
  <1>11. CASE Watch!Abort
    BY <1>11 DEF Watch!Abort, Watch!Goes, Watch!checkVars
  <1> QED BY <1>1, <1>2, <1>3, <1>4, <1>5, <1>6, <1>7, <1>8, <1>9, <1>10, <1>11
      DEF Watch!Next, Watch!LoopStep, Watch!CheckStep, Watch!Faults

\* A loop that streams and has nothing left to do has built the folder, unless
\* something failed or was missed.
LEMMA WatchMeans == Watch!IInv => Watch!QuietMeansBuilt /\ Watch!ReturnedMeansQuiet
  BY DEF Watch!IInv, Watch!TypeOK, Watch!Stopped, Watch!BuildsFollow, Watch!ChangesAreFound,
         Watch!ChecksOver, Watch!QuietMeansBuilt, Watch!ReturnedMeansQuiet

\* No step builds older sources, or a second time at once.
LEMMA WatchBuilds == Watch!IInv /\ Watch!Next => Watch!BuildInOrder
  <1> SUFFICES ASSUME Watch!IInv, Watch!Next PROVE Watch!BuildInOrder
    OBVIOUS
  <1> USE DEF Watch!IInv, Watch!TypeOK, Watch!BuildsFollow, Watch!BuildInOrder
  <1>1. CASE Watch!LoopStep
    BY <1>1 DEF Watch!LoopStep, Watch!ListReturns, Watch!OpenReturns, Watch!Event, Watch!SleepOver,
                Watch!Returns, Watch!checkVars
  <1>2. CASE Watch!CheckStep
    BY <1>2 DEF Watch!CheckStep, Watch!TimerFires, Watch!StartCheck, Watch!SourcesRead,
                Watch!BuildReturns, Watch!otherVars
  <1>3. CASE Watch!Faults
    BY <1>3 DEF Watch!Faults, Watch!ListThrows, Watch!StreamEnds, Watch!StreamBreaks, Watch!StreamOver,
                Watch!ReadFails, Watch!BuildFails, Watch!otherVars, Watch!checkVars
  <1>4. CASE Watch!Change \/ Watch!Abort
    BY <1>4 DEF Watch!Change, Watch!Abort, Watch!checkVars
  <1> QED BY <1>1, <1>2, <1>3, <1>4 DEF Watch!Next

WatchInv == part = "watch" => Watch!IInv

\* The watched folder starts in its invariant.
LEMMA WatchStarts == Init => WatchInv
  BY WatchInit DEF Init, WatchInv

\* Every step of the watched folder keeps its invariant.
LEMMA WatchGoesOn == WatchInv /\ [Next]_all => WatchInv'
  <1> SUFFICES ASSUME WatchInv, [Next]_all, part = "watch" PROVE Watch!IInv'
    BY PartSteps DEF WatchInv
  <1>1. Watch!Next \/ UNCHANGED Watch!vars
    BY PartSteps
  <1> QED BY <1>1, WatchNext DEF WatchInv, Watch!vars, Watch!IInv, Watch!TypeOK, Watch!Stopped,
        Watch!BuildsFollow, Watch!ChangesAreFound, Watch!ChecksOver

\* No build runs when watchControl has returned, and a quiet loop has built the
\* sources as they are, unless a change came while no stream was open or a listing
\* or a build failed: however changes, broken streams and the signal fall between
\* the steps of a check (watchControl in aiws_ext.ts).
THEOREM FolderGetsBuilt == Spec => []FolderIsBuilt
  <1>1. WatchInv => FolderIsBuilt
    BY WatchMeans DEF WatchInv, FolderIsBuilt
  <1> QED BY <1>1, WatchStarts, WatchGoesOn, PTL DEF Spec

-----------------------------------------------------------------------------
(* TaskWait.                                                               *)

\* No command runs.
LEMMA TaskInit == Task!Init => Task!IInv
  <1> SUFFICES ASSUME Task!Init PROVE Task!IInv
    OBVIOUS
  <1>1. /\ s1 \in [Task!Ids -> Task!TaskStates] /\ s1["old"] = Task!Task /\ s1["new"] = Task!Absent
        /\ Task!Absent \in Task!TaskStates
    BY DEF Task!Init, Task!Task, Task!Absent, Task!TaskStates, Task!Ids
  <1>2. s2 = Task!NoCommand /\ s3 = "none" /\ s4 = {} /\ s5 = 0
    BY DEF Task!Init
  <1>3. Task!TypeOK
    <2>1. s2 \in Task!Commands
      BY <1>1, <1>2 DEF Task!NoCommand, Task!Commands, Task!Ids, Task!Results
    <2> QED BY <1>1, <1>2, <2>1 DEF Task!TypeOK
  <1>4. Task!ReaderIsItsOwn /\ Task!ShownIsReported /\ Task!EndIsFinal /\ Task!RetriedFailed /\ Task!WaitIsTrue
    BY <1>1, <1>2 DEF Task!NoCommand, Task!Task, Task!Absent, Task!Ids, Task!ReaderIsItsOwn,
       Task!ShownIsReported, Task!EndIsFinal, Task!RetriedFailed, Task!WaitIsTrue
  <1> QED BY <1>3, <1>4 DEF Task!IInv

\* A command that has seen no task.
Begun(verb, at, fails, result) ==
  [verb |-> verb, at |-> at, id |-> "old", fails |-> fails, seen |-> Task!Absent, last |-> 0, until |-> 0,
   result |-> result]

\* What the invariant says of a task that a command has not seen.
LEMMA TaskBegins ==
  ASSUME Task!IInv, s2.at = "idle", UNCHANGED <<s1, s3, s4, s5>>,
         NEW verb \in {"wait", "list", "get", "cancel", "retry"}, NEW at \in {"open", "done", "retry"},
         NEW fails \in BOOLEAN, NEW result \in Task!Results,
         result \notin {"task", "task_failed", "TIMEOUT"},
         at = "retry" => verb = "retry" /\ s1["old"].phase = "Terminal" /\ s1["old"].outcome = "Failed",
         s2' = Begun(verb, at, fails, result)
  PROVE  Task!IInv'
  <1> USE DEF Task!IInv, Task!Absent, Begun
  <1>1. Task!Absent \in Task!TaskStates /\ "old" \in Task!Ids
    BY DEF Task!TaskStates, Task!Ids
  <1>2. Task!TypeOK'
    <2>1. s2' \in Task!Commands
      BY <1>1 DEF Task!Commands
    <2> QED BY <2>1 DEF Task!TypeOK
  <1>3. s1["new"] = Task!Absent
    BY DEF Task!RetriedFailed
  <1>4. Task!ReaderIsItsOwn' /\ Task!ShownIsReported' /\ Task!EndIsFinal' /\ Task!RetriedFailed'
    BY <1>3 DEF Task!ReaderIsItsOwn, Task!ShownIsReported, Task!EndIsFinal, Task!RetriedFailed
  <1>5. Task!WaitIsTrue'
    BY <1>3 DEF Task!WaitIsTrue, Task!ReaderIsItsOwn
  <1> QED BY <1>2, <1>4, <1>5

\* A retry begins, or the task did not fail.
LEMMA TaskRetry ==
  ASSUME Task!IInv, Task!Retry PROVE Task!IInv'
  <1>1. ASSUME s1["old"].phase = "Terminal", s1["old"].outcome = "Failed"
        PROVE  s2' = Begun("retry", "retry", TRUE, "none")
    BY <1>1 DEF Task!Retry, Task!Runs, Task!NoCommand, Begun
  <1>2. ASSUME ~(s1["old"].phase = "Terminal" /\ s1["old"].outcome = "Failed")
        PROVE  s2' = Begun("retry", "done", TRUE, "TASK_NOT_RETRYABLE")
    BY <1>2 DEF Task!Retry, Task!Runs, Task!NoCommand, Begun
  <1>3. s2.at = "idle" /\ UNCHANGED <<s1, s3, s4, s5>>
    BY DEF Task!Retry
  <1>4. {"none", "TASK_NOT_RETRYABLE"} \subseteq Task!Results
    BY DEF Task!Results
  <1> QED BY <1>1, <1>2, <1>3, <1>4, TaskBegins

\* The commands that are over at once, and those that begin a wait or a retry.
LEMMA TaskCommands ==
  ASSUME Task!IInv,
         \/ Task!Wait \/ Task!Retry
         \/ \E limit \in {0, 500} : Task!List("paused", limit) \/ Task!List("done", limit)
         \/ \E limit \in {500, 501}, page \in BOOLEAN : Task!Get(limit, page)
  PROVE  Task!IInv'
  <1>1. CASE Task!Wait
    <2>1. s2' = Begun("wait", "open", FALSE, "none")
      BY <1>1 DEF Task!Wait, Task!Runs, Task!NoCommand, Begun
    <2> QED BY <1>1, <2>1, TaskBegins DEF Task!Wait, Task!Results
  <1>2. CASE Task!Retry
    BY <1>2, TaskRetry
  <1>3. ASSUME NEW phase \in {"paused", "done"}, NEW limit \in Int, Task!List(phase, limit) PROVE Task!IInv'
    <2>1. PICK result \in {"INVALID_ARGUMENT", "listed"} : s2' = Begun("list", "done", FALSE, result)
      BY <1>3 DEF Task!List, Task!Runs, Task!NoCommand, Begun
    <2>2. s2.at = "idle" /\ UNCHANGED <<s1, s3, s4, s5>>
      BY <1>3 DEF Task!List
    <2>3. result \in Task!Results /\ result \notin {"task", "task_failed", "TIMEOUT"}
      BY DEF Task!Results
    <2> QED BY <2>1, <2>2, <2>3, TaskBegins, ZenonT(40)
  <1>4. ASSUME NEW limit \in Int, NEW page \in BOOLEAN, Task!Get(limit, page) PROVE Task!IInv'
    <2>1. PICK result \in {"INVALID_ARGUMENT", "shown", "INVALID_SERVICE_RESPONSE"} :
            s2' = Begun("get", "done", FALSE, result)
      BY <1>4 DEF Task!Get, Task!Runs, Task!NoCommand, Begun
    <2>2. s2.at = "idle" /\ UNCHANGED <<s1, s3, s4, s5>>
      BY <1>4 DEF Task!Get
    <2>3. result \in Task!Results /\ result \notin {"task", "task_failed", "TIMEOUT"}
      BY DEF Task!Results
    <2> QED BY <2>1, <2>2, <2>3, TaskBegins
  <1> QED BY <1>1, <1>2, <1>3, <1>4

\* Only a task that has not ended changes, or is canceled.
LEMMA TaskMoves ==
  ASSUME Task!IInv,
         \/ \E id \in Task!Ids, outcome \in {"none", "Succeeded", "Failed", "Canceled"} : Task!TaskChanges(id, outcome)
         \/ \E expected \in 0..MaxRevision : Task!Cancel(expected)
  PROVE  Task!IInv'
  <1> USE DEF Task!IInv
  <1>1. ASSUME NEW id \in Task!Ids, NEW outcome \in {"none", "Succeeded", "Failed", "Canceled"},
               Task!TaskChanges(id, outcome)
        PROVE  Task!IInv'
    <2> DEFINE t == [phase |-> IF outcome = "none" THEN "Running" ELSE "Terminal", outcome |-> outcome,
                     revision |-> s1[id].revision + 1]
    <2>1. /\ s1' = [s1 EXCEPT ![id] = t] /\ UNCHANGED <<s2, s3, s4, s5>>
          /\ s1[id].phase \notin {"Terminal", "absent"}
      BY <1>1 DEF Task!TaskChanges
    <2>2. t \in Task!TaskStates /\ t.revision # 0
      BY DEF Task!TypeOK, Task!TaskStates
    <2>3. s1'[id] = t /\ \A other \in Task!Ids : other # id => s1'[other] = s1[other]
      BY <2>1 DEF Task!TypeOK
    <2>4. Task!TypeOK'
      BY <2>1, <2>2 DEF Task!TypeOK
    <2>5. Task!ReaderIsItsOwn' /\ Task!ShownIsReported'
      BY <2>1, <2>2, <2>3 DEF Task!ReaderIsItsOwn, Task!ShownIsReported
    <2>6. s2.seen.phase = "Terminal" => s2.id # id
      BY <2>1 DEF Task!EndIsFinal
    <2>7. Task!EndIsFinal'
      BY <2>1, <2>3, <2>6 DEF Task!EndIsFinal, Task!TypeOK
    <2>8. id = "new" => s1["new"] # Task!Absent
      BY <2>1 DEF Task!Absent
    <2>9. Task!RetriedFailed'
      BY <2>1, <2>3, <2>8 DEF Task!RetriedFailed, Task!Ids
    <2>10. Task!WaitIsTrue'
      BY <2>1, <2>3, <2>6, <2>8 DEF Task!WaitIsTrue, Task!RetriedFailed, Task!EndIsFinal, Task!Ids, Task!TypeOK
    <2> QED BY <2>4, <2>5, <2>7, <2>9, <2>10
  <1>2. ASSUME NEW expected \in 0..MaxRevision, Task!Cancel(expected) PROVE Task!IInv'
    <2>1. CASE s1' = s1
      <3>1. PICK result \in {"requested", "refused"} : s2' = Begun("cancel", "done", FALSE, result)
        BY <1>2 DEF Task!Cancel, Task!Runs, Task!NoCommand, Begun
      <3> QED BY <1>2, <2>1, <3>1, TaskBegins DEF Task!Cancel, Task!Results
    <2>2. CASE s1' # s1
      <3> DEFINE t == [phase |-> "Terminal", outcome |-> "Canceled", revision |-> s1["old"].revision + 1]
      <3>1. /\ s2.at = "idle" /\ UNCHANGED <<s3, s4, s5>> /\ s1["old"].phase # "Terminal"
            /\ s1' = [s1 EXCEPT !["old"] = t]
            /\ s2' = [Task!NoCommand EXCEPT !.verb = "cancel", !.at = "done", !.result = "requested"]
        BY <1>2, <2>2 DEF Task!Cancel, Task!Runs
      <3>2. /\ s2'.verb = "cancel" /\ s2'.at = "done" /\ s2'.seen = Task!Absent /\ s2'.last = 0
            /\ s2'.result = "requested"
        BY <3>1 DEF Task!NoCommand
      <3>3. t \in Task!TaskStates /\ "old" \in Task!Ids /\ "new" \in Task!Ids
        BY DEF Task!TypeOK, Task!TaskStates, Task!Ids
      <3>4. s1["new"] = Task!Absent
        BY <3>1 DEF Task!RetriedFailed
      <3>5. s1'["new"] = Task!Absent /\ s1'["old"] = t /\ t.revision # 0
        BY <3>1, <3>3, <3>4 DEF Task!TypeOK, Task!TaskStates
      <3>6. Task!TypeOK'
        <4>1. s2' \in Task!Commands
          <5>1. Task!Absent \in Task!TaskStates
            BY DEF Task!Absent, Task!TaskStates
          <5> QED BY <3>1, <3>3, <5>1 DEF Task!NoCommand, Task!Commands, Task!Results
        <4> QED BY <3>1, <3>3, <4>1 DEF Task!TypeOK
      <3>7. Task!ShownIsReported'
        BY <3>2, <3>5 DEF Task!ShownIsReported, Task!Ids, Task!Absent
      <3>8. Task!ReaderIsItsOwn' /\ Task!EndIsFinal' /\ Task!RetriedFailed'
        BY <3>1, <3>2, <3>5 DEF Task!ReaderIsItsOwn, Task!EndIsFinal, Task!RetriedFailed, Task!Absent
      <3>9. Task!WaitIsTrue'
        BY <3>1, <3>2, <3>5 DEF Task!WaitIsTrue, Task!ReaderIsItsOwn
      <3> QED BY <3>6, <3>7, <3>8, <3>9
    <2> QED BY <2>1, <2>2
  <1> QED BY <1>1, <1>2

\* task.retry was answered.
LEMMA TaskRetryMade ==
  ASSUME Task!IInv, NEW answer \in {"new", "same", "another", "refused"}, NEW noWait \in BOOLEAN,
         Task!RetryMade(answer, noWait)
  PROVE  Task!IInv'
  <1> USE DEF Task!IInv
  <1>1. /\ s2.at = "retry" /\ UNCHANGED <<s3, s4, s5>>
        /\ s1' = IF answer = "refused" THEN s1 ELSE [s1 EXCEPT !["new"] = Task!Task]
    BY DEF Task!RetryMade
  <1>2. \/ \E result \in {"created", "INVALID_SERVICE_RESPONSE", "failed"} :
             s2' = [s2 EXCEPT !.at = "done", !.result = result]
        \/ s2' = [s2 EXCEPT !.at = "open", !.id = "new"]
    BY DEF Task!RetryMade, Task!Ends, Task!Runs
  <1>3. /\ s2' \in Task!Commands
        /\ s2'.verb = s2.verb /\ s2'.seen = s2.seen /\ s2'.last = s2.last /\ s2'.at \in {"open", "done"}
        /\ s2'.at = "done" => s2'.result \notin {"task", "task_failed", "TIMEOUT"}
    <2>1. s2 \in Task!Commands
      BY DEF Task!TypeOK
    <2> QED BY <1>2, <2>1 DEF Task!Commands, Task!Ids, Task!Results
  <1>4. /\ s2.seen = Task!Absent /\ s2.verb = "retry" /\ s3 = "none"
        /\ s1["old"].phase = "Terminal" /\ s1["old"].outcome = "Failed"
    BY <1>1 DEF Task!RetriedFailed, Task!ReaderIsItsOwn
  <1>5. /\ s1' \in [Task!Ids -> Task!TaskStates] /\ s1'["old"] = s1["old"]
        /\ s1'["new"] \in {s1["new"], Task!Task}
    BY <1>1 DEF Task!TypeOK, Task!Task, Task!TaskStates, Task!Ids
  <1>6. Task!TypeOK'
    BY <1>1, <1>3, <1>5 DEF Task!TypeOK
  <1>7. Task!ShownIsReported'
    <2>1. \A id \in Task!Ids : s1'[id] = s1[id] \/ s1'[id] = Task!Task
      BY <1>5 DEF Task!Ids
    <2>2. Task!Task.revision # 0
      BY DEF Task!Task
    <2> QED BY <1>1, <1>3, <2>1, <2>2 DEF Task!ShownIsReported
  <1>8. Task!ReaderIsItsOwn' /\ Task!EndIsFinal' /\ Task!RetriedFailed'
    <2>1. Task!ReaderIsItsOwn'
      BY <1>1, <1>3, <1>4 DEF Task!ReaderIsItsOwn
    <2>2. Task!EndIsFinal'
      BY <1>3, <1>4 DEF Task!EndIsFinal, Task!Absent
    <2>3. Task!RetriedFailed'
      BY <1>3, <1>4, <1>5 DEF Task!RetriedFailed
    <2> QED BY <2>1, <2>2, <2>3
  <1>9. Task!WaitIsTrue'
    BY <1>1, <1>3, <1>4, <1>5 DEF Task!WaitIsTrue
  <1> QED BY <1>6, <1>7, <1>8, <1>9

\* A command that waits goes on, and closes its reader when it is over; what it
\* says at the end is what it observed last.
LEMMA TaskWaits ==
  ASSUME Task!IInv, s2.at \in {"open", "observe", "decide", "pull"},
         UNCHANGED <<s1, s5>>, s4 \subseteq s4', s4' \subseteq Nat,
         s2' \in Task!Commands, s2'.at \in {"observe", "decide", "pull", "done"},
         s2'.verb = s2.verb, s2'.id = s2.id,
         \/ s2'.seen = s2.seen /\ s2'.last = s2.last
         \/ s2'.seen = s1[s2.id] /\ s2'.last = s2'.seen.revision /\ (s2'.last # s2.last => s2'.last \in s4'),
         s3' \in {"none", "live", "ended", "broken", "closed"},
         s2'.at = "done" =>
           /\ s3' \in {"none", "closed"}
           /\ s2'.result \in {"task", "task_failed"} => s2'.seen.phase = "Terminal"
           /\ s2'.result = "task_failed" => s2'.seen.outcome # "Succeeded"
           /\ s2'.result = "TIMEOUT" => s5 >= TaskDeadline /\ s2'.seen.phase # "Terminal"
  PROVE  Task!IInv'
  <1> USE DEF Task!IInv
  <1>1. Task!TypeOK'
    BY DEF Task!TypeOK
  <1>2. Task!ReaderIsItsOwn'
    BY DEF Task!ReaderIsItsOwn
  <1>3. Task!ShownIsReported'
    <2>1. s2.id \in Task!Ids /\ s1[s2.id] \in Task!TaskStates /\ s2.last \in Nat
      BY DEF Task!TypeOK, Task!Commands
    <2>2. CASE s2'.seen = s2.seen /\ s2'.last = s2.last
      BY <2>2 DEF Task!ShownIsReported
    <2>3. CASE s2'.seen = s1[s2.id] /\ s2'.last = s2'.seen.revision /\ (s2'.last # s2.last => s2'.last \in s4')
      BY <2>1, <2>3 DEF Task!ShownIsReported
    <2> QED BY <2>2, <2>3
  <1>4. Task!EndIsFinal'
    BY DEF Task!EndIsFinal
  <1>5. Task!RetriedFailed'
    BY DEF Task!RetriedFailed
  <1>6. Task!WaitIsTrue'
    BY <1>3, <1>4, <1>5 DEF Task!WaitIsTrue, Task!ShownIsReported, Task!EndIsFinal, Task!RetriedFailed
  <1> QED BY <1>1, <1>2, <1>3, <1>4, <1>5, <1>6

\* The steps of the wait, and what becomes of its reader.
LEMMA TaskSteps ==
  ASSUME Task!IInv,
         \/ Task!Steps \/ Task!Pull(TRUE)
         \/ \E code \in {"SERVICE_UNAVAILABLE", "CANCELED"} : Task!ObserveFails(code)
  PROVE  Task!IInv'
  <1>1. /\ s2 \in Task!Commands
        /\ s3 \in {"none", "live", "ended", "broken", "closed"} /\ s4 \subseteq Nat /\ s5 \in Nat
        /\ s1[s2.id] \in Task!TaskStates
    BY DEF Task!IInv, Task!TypeOK, Task!Commands
  <1>2. ASSUME NEW r \in {"none", "live"}, Task!OpenReader(r) PROVE Task!IInv'
    <2>1. s2.at = "open" /\ UNCHANGED <<s1, s4, s5>> /\ s3' = r /\ s2' = [s2 EXCEPT !.at = "observe"]
      BY <1>2 DEF Task!OpenReader, Task!Runs
    <2>2. /\ s2' \in Task!Commands /\ s2'.verb = s2.verb /\ s2'.id = s2.id /\ s2'.seen = s2.seen
          /\ s2'.last = s2.last /\ s2'.at = "observe"
      BY <1>1, <2>1 DEF Task!Commands
    <2> QED BY <1>1, <2>1, <2>2, TaskWaits
  <1>3. CASE Task!Observe
    <2>1. s2.at = "observe" /\ s2' = [s2 EXCEPT !.at = "decide", !.seen = s1[s2.id], !.last = s1[s2.id].revision]
      BY <1>3 DEF Task!Observe, Task!Runs
    <2>2. s1[s2.id].revision \in Nat
      BY <1>1 DEF Task!TaskStates
    <2>3. /\ s4' = IF s2.last # s1[s2.id].revision THEN s4 \cup {s1[s2.id].revision} ELSE s4
          /\ UNCHANGED <<s1, s3, s5>>
      BY <1>3 DEF Task!Observe, Task!Changed
    <2>4. /\ s2' \in Task!Commands /\ s2'.verb = s2.verb /\ s2'.id = s2.id /\ s2'.seen = s1[s2.id]
          /\ s2'.last = s2'.seen.revision /\ s2'.at = "decide"
      BY <1>1, <2>1, <2>2 DEF Task!Commands
    <2>5. s4 \subseteq s4' /\ s4' \subseteq Nat /\ (s2'.last # s2.last => s2'.last \in s4')
      BY <1>1, <2>2, <2>3, <2>4
    <2> QED BY <1>1, <2>1, <2>3, <2>4, <2>5, TaskWaits
  <1>4. CASE Task!Decide
    <2>1. /\ s2.at = "decide" /\ UNCHANGED <<s1, s4, s5>>
          /\ \/ /\ s2' = [s2 EXCEPT !.at = "done", !.result = "TIMEOUT"]
                /\ s5 >= TaskDeadline /\ s2.seen.phase # "Terminal" /\ s3' \in {"none", "closed"}
             \/ /\ s2' = [s2 EXCEPT !.at = "done", !.result = "task"]
                /\ s2.seen.phase = "Terminal" /\ s3' \in {"none", "closed"}
             \/ /\ s2' = [s2 EXCEPT !.at = "done", !.result = "task_failed"]
                /\ s2.seen.phase = "Terminal" /\ s2.seen.outcome # "Succeeded" /\ s3' \in {"none", "closed"}
             \/ s2' = [s2 EXCEPT !.at = "pull", !.until = s5 + 1] /\ s3' = s3
      BY <1>4 DEF Task!Decide, Task!TimedOut, Task!Ends, Task!Runs, Task!CloseReader
    <2>2. /\ s2' \in Task!Commands /\ s2'.verb = s2.verb /\ s2'.id = s2.id /\ s2'.seen = s2.seen
          /\ s2'.last = s2.last /\ s2'.at \in {"pull", "done"}
      <3>1. CASE s2' = [s2 EXCEPT !.at = "pull", !.until = s5 + 1]
        <4>1. PICK until \in Nat : s2' = [s2 EXCEPT !.at = "pull", !.until = until]
          <5>1. s5 + 1 \in Nat
            BY <1>1
          <5> QED BY <3>1, <5>1, Zenon
        <4> QED BY <1>1, <4>1 DEF Task!Commands
      <3>2. ASSUME NEW result \in Task!Results, s2' = [s2 EXCEPT !.at = "done", !.result = result]
            PROVE  /\ s2' \in Task!Commands /\ s2'.verb = s2.verb /\ s2'.id = s2.id /\ s2'.seen = s2.seen
                   /\ s2'.last = s2.last /\ s2'.at = "done"
        BY <1>1, <3>2 DEF Task!Commands
      <3>3. {"TIMEOUT", "task", "task_failed"} \subseteq Task!Results
        BY DEF Task!Results
      <3> QED BY <2>1, <3>1, <3>2, <3>3
    <2>3. s2'.at = "done" =>
           /\ s3' \in {"none", "closed"}
           /\ s2'.result \in {"task", "task_failed"} => s2'.seen.phase = "Terminal"
           /\ s2'.result = "task_failed" => s2'.seen.outcome # "Succeeded"
           /\ s2'.result = "TIMEOUT" => s5 >= TaskDeadline /\ s2'.seen.phase # "Terminal"
      BY <1>1, <2>1, <2>2 DEF Task!Commands
    <2> QED BY <1>1, <2>1, <2>2, <2>3, TaskWaits
  <1>5. ASSUME NEW event \in BOOLEAN, Task!Pull(event) PROVE Task!IInv'
    <2>1. s2.at = "pull" /\ UNCHANGED <<s1, s3, s4, s5>> /\ s2' = [s2 EXCEPT !.at = "observe"]
      BY <1>5 DEF Task!Pull, Task!Runs
    <2>2. /\ s2' \in Task!Commands /\ s2'.verb = s2.verb /\ s2'.id = s2.id /\ s2'.seen = s2.seen
          /\ s2'.last = s2.last /\ s2'.at = "observe"
      BY <1>1, <2>1 DEF Task!Commands
    <2> QED BY <1>1, <2>1, <2>2, TaskWaits
  <1>6. ASSUME NEW code \in {"SERVICE_UNAVAILABLE", "CANCELED"}, Task!ObserveFails(code) PROVE Task!IInv'
    <2>1. /\ s2.at \in {"observe", "pull"} /\ UNCHANGED <<s1, s4, s5>> /\ s3' \in {"none", "closed"}
          /\ s2' = [s2 EXCEPT !.at = "done", !.result = code]
      BY <1>6 DEF Task!ObserveFails, Task!Ends, Task!CloseReader
    <2>2. /\ s2' \in Task!Commands /\ s2'.verb = s2.verb /\ s2'.id = s2.id /\ s2'.seen = s2.seen
          /\ s2'.last = s2.last /\ s2'.at = "done" /\ s2'.result = code
      BY <1>1, <2>1 DEF Task!Commands, Task!Results
    <2> QED BY <1>1, <2>1, <2>2, TaskWaits
  <1> QED BY <1>2, <1>3, <1>4, <1>5, <1>6 DEF Task!Steps

\* Every step keeps the invariant of the wait for a task.
LEMMA TaskNext == Task!IInv /\ Task!Next => Task!IInv'
  <1> SUFFICES ASSUME Task!IInv, Task!Next PROVE Task!IInv'
    OBVIOUS
  <1>1. ASSUME NEW to \in {"ended", "broken"}, Task!ReaderGoes(to) PROVE Task!IInv'
    BY <1>1 DEF Task!ReaderGoes, Task!IInv, Task!TypeOK, Task!ReaderIsItsOwn, Task!ShownIsReported,
       Task!EndIsFinal, Task!RetriedFailed, Task!WaitIsTrue
  <1>2. CASE Task!Tick
    <2>1. s5' = s5 + 1 /\ UNCHANGED <<s1, s2, s3, s4>> /\ s5 \in Nat
      BY <1>2 DEF Task!Tick, Task!IInv, Task!TypeOK
    <2>2. Task!WaitIsTrue'
      <3>1. s5 >= TaskDeadline => s5' >= TaskDeadline
        BY <2>1, DeadlineAssumption
      <3> QED BY <2>1, <3>1 DEF Task!IInv, Task!WaitIsTrue
    <2> QED BY <2>1, <2>2 DEF Task!IInv, Task!TypeOK, Task!ReaderIsItsOwn, Task!ShownIsReported,
       Task!EndIsFinal, Task!RetriedFailed
  <1>3. CASE \E answer \in {"new", "same", "another", "refused"}, noWait \in BOOLEAN : Task!RetryMade(answer, noWait)
    BY <1>3, TaskRetryMade
  <1>4. CASE \/ Task!Wait \/ Task!Retry
             \/ \E limit \in {0, 500} : Task!List("paused", limit) \/ Task!List("done", limit)
             \/ \E limit \in {500, 501}, page \in BOOLEAN : Task!Get(limit, page)
    BY <1>4, TaskCommands
  <1> QED BY <1>1, <1>2, <1>3, <1>4, TaskMoves, TaskSteps, ZenonT(40) DEF Task!Next

-----------------------------------------------------------------------------
(* NotifyAnswer.                                                           *)

\* Nobody waits.
LEMMA NoticeInit == Notice!Init => Notice!WaitInv
  BY WaitAssumption DEF Notice!Init, Notice!NoWaiter, Notice!WaitInv, Notice!WaitTypeOK, Notice!ClosedIsFinal, Notice!WaitIsHonest,
         Notice!IsNotifyClosed, Notice!Open, Notice!Closed

\* Every step keeps the invariant of waitNotify.
LEMMA NoticeNext == Notice!WaitInv /\ Notice!Next => Notice!WaitInv'
  <1> SUFFICES ASSUME Notice!WaitInv, Notice!Next PROVE Notice!WaitInv'
    OBVIOUS
  <1> USE WaitAssumption DEF Notice!WaitInv, Notice!WaitTypeOK, Notice!ClosedIsFinal, Notice!WaitIsHonest,
         Notice!IsNotifyClosed, Notice!Open, Notice!Closed, Notice!WaiterGoes, Notice!CloseReader
  <1>1. CASE Notice!Asks
    BY <1>1 DEF Notice!Asks, Notice!Ask
  <1>2. CASE Notice!Tick
    BY <1>2 DEF Notice!Tick
  <1>3. CASE Notice!TaskChanges
    BY <1>3 DEF Notice!TaskChanges
  <1>4. ASSUME NEW status \in {"expired", "canceled"}, Notice!TaskEnds(status) PROVE Notice!WaitInv'
    BY <1>4 DEF Notice!TaskEnds
  <1>5. ASSUME NEW kevent \in BOOLEAN, Notice!StartWait(kevent) PROVE Notice!WaitInv'
    BY <1>5 DEF Notice!StartWait
  <1>6. CASE Notice!Check
    <2>1. CASE s4'.at = "done"
      BY <1>6, <2>1 DEF Notice!Check
    <2>2. CASE s4'.at # "done"
      <3>1. PICK watching \in BOOLEAN :
              s4' = [s4 EXCEPT !.at = "pause", !.wake = s5 + Notice!Pause(s4.interval), !.watching = watching]
        BY <1>6, <2>2, Zenon DEF Notice!Check
      <3>2. s5 + Notice!Pause(s4.interval) \in Nat /\ s5 + Notice!Pause(s4.interval) <= WaitDeadline
        BY DEF Notice!Pause, Notice!Least
      <3>3. UNCHANGED <<s2, s5>>
        BY <1>6 DEF Notice!Check
      <3>4. PICK wake \in Nat : wake <= WaitDeadline /\ s4' = [s4 EXCEPT !.at = "pause", !.wake = wake, !.watching = watching]
        BY <3>1, <3>2, Zenon
      <3>5. /\ s4' \in [at : {"idle", "check", "pause", "poll", "done", "failed"},
                        status : Notice!Open \cup Notice!Closed, interval : Nat, wake : Nat, watching : BOOLEAN,
                        reader : {"none", "opening", "open", "closed"}]
            /\ s4'.wake <= WaitDeadline /\ s4'.at = "pause" /\ s4'.status = s4.status
        BY <3>4
      <3> QED BY <3>3, <3>5
    <2> QED BY <2>1, <2>2
  <1>7. ASSUME NEW event \in BOOLEAN, Notice!PauseEnds(event) PROVE Notice!WaitInv'
    <2>1. s4' = [s4 EXCEPT !.at = "poll", !.interval = Notice!Least(2 * s4.interval, MaxInterval)]
      BY <1>7 DEF Notice!PauseEnds
    <2>2. Notice!Least(2 * s4.interval, MaxInterval) \in Nat
      BY DEF Notice!Least
    <2> QED BY <1>7, <2>1, <2>2 DEF Notice!PauseEnds
  <1>8. ASSUME NEW answered \in BOOLEAN, Notice!Poll(answered) PROVE Notice!WaitInv'
    BY <1>8 DEF Notice!Poll
  <1>9. ASSUME NEW opens \in BOOLEAN, Notice!ReaderOpens(opens) PROVE Notice!WaitInv'
    BY <1>9 DEF Notice!ReaderOpens, Notice!OpenedAs
  <1> QED BY <1>1, <1>2, <1>3, <1>4, <1>5, <1>6, <1>7, <1>8, <1>9 DEF Notice!Next, Notice!Waits

-----------------------------------------------------------------------------
(* The waits are true.                                                     *)

\* waitForTask returns a task as it ended, and says that time is up only when the
\* deadline passed and no end was seen; waitNotify never sleeps past its deadline
\* and returns a view that is closed or the last one; neither leaves a reader,
\* however events, polls and deadlines fall (task.ts, msg_center_client.ts).
THEOREM WaitsAreHonest == Spec => []WaitsAreTrue
  <1> DEFINE Inv == /\ part = "task" => Task!IInv
                    /\ part = "notice" => Notice!WaitInv
  <1>1. Init => Inv
    BY TaskInit, NoticeInit DEF Init
  <1>2. Inv /\ [Next]_all => Inv'
    <2> SUFFICES ASSUME Inv, [Next]_all PROVE Inv'
      OBVIOUS
    <2>1. part' = part
      BY PartSteps
    <2>2. CASE part = "task"
      <3>1. Task!Next \/ UNCHANGED Task!vars
        BY <2>2, PartSteps
      <3>2. CASE UNCHANGED Task!vars
        BY <2>1, <2>2, <3>2 DEF Task!vars, Task!IInv, Task!TypeOK, Task!ReaderIsItsOwn, Task!ShownIsReported,
           Task!EndIsFinal, Task!RetriedFailed, Task!WaitIsTrue
      <3> QED BY <2>1, <2>2, <3>1, <3>2, TaskNext
    <2>3. CASE part = "notice"
      <3>1. Notice!Next \/ UNCHANGED Notice!vars
        BY <2>3, PartSteps
      <3>2. CASE UNCHANGED Notice!vars
        BY <2>1, <2>3, <3>2 DEF Notice!vars, Notice!WaitInv, Notice!WaitTypeOK, Notice!ClosedIsFinal,
           Notice!WaitIsHonest, Notice!IsNotifyClosed
      <3> QED BY <2>1, <2>3, <3>1, <3>2, NoticeNext
    <2> QED BY <2>1, <2>2, <2>3
  <1>3. Inv => WaitsAreTrue
    BY DEF WaitsAreTrue, Task!IInv, Notice!WaitInv
  <1> QED BY <1>1, <1>2, <1>3, PTL DEF Spec

-----------------------------------------------------------------------------
(* KEventNative.                                                           *)

\* No element comes twice in s; x is one of its elements.
Distinct(s) == \A i, j \in DOMAIN s : i # j => s[i] # s[j]
Holds(s, x) == \E i \in DOMAIN s : s[i] = x

\* Something new is put behind the others.
LEMMA ChainLonger ==
  ASSUME NEW T, NEW s \in Seq(T), NEW e \in T, Distinct(s), ~Holds(s, e)
  PROVE  /\ Append(s, e) \in Seq(T) /\ Distinct(Append(s, e))
         /\ \A x \in T : Holds(Append(s, e), x) <=> (x = e \/ Holds(s, x))
         /\ s # <<>> => Head(Append(s, e)) = Head(s)
         /\ s = <<>> => Head(Append(s, e)) = e
         /\ Append(s, e) # <<>> /\ Append(s, e)[Len(Append(s, e))] = e
  <1> DEFINE t == Append(s, e)
  <1>1. /\ t \in Seq(T) /\ Len(t) = Len(s) + 1 /\ Len(s) \in Nat /\ t # <<>>
        /\ DOMAIN s = 1 .. Len(s) /\ DOMAIN t = 1 .. Len(s) + 1
        /\ \A i \in 1 .. Len(s) : t[i] = s[i]
        /\ t[Len(s) + 1] = e
    OBVIOUS
  <1>2. s # <<>> => Head(t) = Head(s)
    OBVIOUS
  <1>3. s = <<>> => Head(t) = e
    OBVIOUS
  <1> HIDE DEF t
  <1>4. Distinct(t)
    BY <1>1 DEF Distinct, Holds
  <1>5. \A x \in T : Holds(t, x) <=> (x = e \/ Holds(s, x))
    BY <1>1 DEF Holds
  <1> QED BY <1>1, <1>2, <1>3, <1>4, <1>5 DEF t

\* The first one leaves.
LEMMA ChainShorter ==
  ASSUME NEW T, NEW s \in Seq(T), s # <<>>, Distinct(s)
  PROVE  /\ Tail(s) \in Seq(T) /\ Distinct(Tail(s)) /\ Head(s) \in T /\ Holds(s, Head(s))
         /\ \A x \in T : Holds(Tail(s), x) <=> (x # Head(s) /\ Holds(s, x))
         /\ Tail(s) # <<>> => Tail(s)[Len(Tail(s))] = s[Len(s)] /\ s[Len(s)] # Head(s)
         /\ Tail(s) = <<>> => s[Len(s)] = Head(s)
  <1> DEFINE t == Tail(s)
  <1>1. /\ t \in Seq(T) /\ Len(t) = Len(s) - 1 /\ Len(s) \in Nat \ {0}
        /\ DOMAIN s = 1 .. Len(s) /\ DOMAIN t = 1 .. Len(s) - 1
        /\ \A i \in 1 .. Len(s) - 1 : t[i] = s[i + 1]
        /\ Head(s) = s[1] /\ Head(s) \in T
    OBVIOUS
  <1>2. t # <<>> => Len(t) # 0
    BY <1>1, EmptySeq
  <1> HIDE DEF t
  <1>3. t = <<>> => Len(t) = 0
    BY EmptySeq
  <1>4. Distinct(t) /\ Holds(s, Head(s))
    <2>1. ASSUME NEW i \in DOMAIN t, NEW j \in DOMAIN t, i # j PROVE t[i] # t[j]
      <3>1. i + 1 \in DOMAIN s /\ j + 1 \in DOMAIN s /\ i + 1 # j + 1
        BY <1>1, <2>1
      <3> QED BY <1>1, <2>1, <3>1 DEF Distinct
    <2> QED BY <1>1, <2>1 DEF Distinct, Holds
  <1>5. ASSUME NEW x \in T PROVE Holds(t, x) <=> (x # Head(s) /\ Holds(s, x))
    <2>1. ASSUME Holds(t, x) PROVE x # Head(s) /\ Holds(s, x)
      BY <1>1, <2>1 DEF Distinct, Holds
    <2>2. ASSUME x # Head(s), Holds(s, x) PROVE Holds(t, x)
      <3>1. PICK i \in DOMAIN s : s[i] = x
        BY <2>2 DEF Holds
      <3>2. i - 1 \in DOMAIN t /\ t[i - 1] = x
        BY <1>1, <2>2, <3>1
      <3> QED BY <3>2 DEF Holds
    <2> QED BY <2>1, <2>2
  <1>6. /\ t # <<>> => t[Len(t)] = s[Len(s)] /\ s[Len(s)] # Head(s)
        /\ t = <<>> => s[Len(s)] = Head(s)
    BY <1>1, <1>2, <1>3 DEF Distinct
  <1> QED BY <1>1, <1>4, <1>5, <1>6 DEF t

\* The chain in these terms.
LEMMA ChainedMeans ==
  Subscription!Chained <=>
    /\ Distinct(s2)
    /\ \A id \in Subscription!Ids : Subscription!Outstanding(id) <=> Holds(s2, id)
    /\ \A id \in Subscription!Ids : s1[id] \in {"connecting", "sent"} => Subscription!Running(id)
  BY DEF Subscription!Chained, Distinct, Holds

\* What `Chained` says of the next state, call by call.
LEMMA ChainedMeansNext ==
  Subscription!Chained' <=>
    /\ Distinct(s2')
    /\ \A id \in Subscription!Ids : s1'[id] \in {"queued", "connecting", "sent"} <=> Holds(s2', id)
    /\ \A id \in Subscription!Ids : s1'[id] \in {"connecting", "sent"} => s2' # <<>> /\ Head(s2') = id
  BY DEF Subscription!Chained, Distinct, Holds, Subscription!Outstanding, Subscription!Running

\* No reader yet.
LEMMA NativeInit == Subscription!NativeInit => Subscription!NativeInv
  <1> SUFFICES ASSUME Subscription!NativeInit PROVE Subscription!NativeInv
    OBVIOUS
  <1>1. /\ s1 = [id \in Subscription!Ids |-> "idle"]
        /\ s2 = <<>> /\ s3 = <<>> /\ s8 = <<>> /\ s9 = <<>> /\ s4 = FALSE
        /\ s5 = "empty" /\ s6 = TRUE /\ s7 = "none" /\ s10 = <<>> /\ s13 = <<>>
        /\ s11 = 0 /\ s12 = 0 /\ "register" \in Subscription!Ids /\ "unregister" \in Subscription!Ids
    BY DEF Subscription!NativeInit, Subscription!Ids
  <1>2. Subscription!NativeTypeOK
    <2>1. s1 \in [Subscription!Ids -> {"idle", "queued", "connecting", "sent", "answered", "event", "failed"}]
      BY <1>1
    <2>2. s2 \in Seq(Subscription!Ids) /\ s10 \in Seq(Nat)
      BY <1>1
    <2>3. s13 \in Seq([event : Nat, by : Subscription!Ids, for : Subscription!Ids])
      BY <1>1
    <2>4. s4 \in BOOLEAN /\ s6 \in BOOLEAN
      BY <1>1
    <2> QED BY <1>1, <2>1, <2>2, <2>3, <2>4 DEF Subscription!NativeTypeOK
  <1>3. Subscription!Chained /\ Subscription!OnTheWire
    BY <1>1 DEF Subscription!Chained, Subscription!Outstanding, Subscription!Running,
      Subscription!OnTheWire, Subscription!NothingSent
  <1>4. Subscription!Ordered /\ Subscription!Registers
    BY <1>1 DEF Subscription!Ordered, Subscription!ResponsesMatch, Subscription!EventsInOrder,
      Subscription!Registers, Subscription!Outstanding
  <1> QED BY <1>2, <1>3, <1>4 DEF Subscription!NativeInv

\* A new reader begins with its register_reader.
LEMMA NativeCreates ==
  Subscription!NativeInv /\ Subscription!CreateReader => Subscription!NativeInv'
  <1> SUFFICES ASSUME Subscription!NativeInv, Subscription!CreateReader PROVE Subscription!NativeInv'
    OBVIOUS
  <1>1. /\ s1' = [id \in Subscription!Ids |-> IF id = "register" THEN "queued" ELSE "idle"]
        /\ s2' = <<"register">> /\ s3' = <<>> /\ s8' = <<>> /\ s9' = <<>> /\ s4' = FALSE
        /\ s5' = "empty" /\ s6' = FALSE /\ s7' = "opening" /\ s10' = <<>> /\ s13' = <<>>
        /\ s11' = s11 /\ s12' = s12 /\ s11 \in Nat /\ s12 \in Nat
        /\ "register" \in Subscription!Ids /\ "unregister" \in Subscription!Ids
    BY DEF Subscription!CreateReader, Subscription!NativeInv, Subscription!NativeTypeOK, Subscription!Ids
  <1>2. Len(s2') = 1 /\ DOMAIN s2' = {1} /\ s2'[1] = "register" /\ Head(s2') = "register" /\ s2' # <<>>
    BY <1>1
  <1>3. Subscription!NativeTypeOK'
    <2>1. s1' \in [Subscription!Ids -> {"idle", "queued", "connecting", "sent", "answered", "event", "failed"}]
      BY <1>1
    <2>2. s2' \in Seq(Subscription!Ids) /\ s10' \in Seq(Nat)
      BY <1>1
    <2>3. s13' \in Seq([event : Nat, by : Subscription!Ids, for : Subscription!Ids])
      BY <1>1
    <2>4. s4' \in BOOLEAN /\ s6' \in BOOLEAN
      BY <1>1
    <2> QED BY <1>1, <2>1, <2>2, <2>3, <2>4 DEF Subscription!NativeTypeOK
  <1>4. Subscription!Chained'
    BY <1>1, <1>2 DEF Subscription!Chained, Subscription!Outstanding, Subscription!Running
  <1>5. Subscription!OnTheWire'
    BY <1>1 DEF Subscription!OnTheWire, Subscription!NothingSent
  <1>6. Subscription!Ordered'
    BY <1>1 DEF Subscription!Ordered, Subscription!ResponsesMatch, Subscription!EventsInOrder
  <1>7. Subscription!Registers'
    BY <1>1 DEF Subscription!Registers, Subscription!Outstanding
  <1> QED BY <1>3, <1>4, <1>5, <1>6, <1>7 DEF Subscription!NativeInv

\* A call is put behind the others.
LEMMA NativeEnqueues ==
  ASSUME Subscription!NativeInv, NEW id \in Subscription!Ids, ~Subscription!Outstanding(id),
         Subscription!Enqueues(id)
  PROVE  /\ s1' \in [Subscription!Ids -> {"idle", "queued", "connecting", "sent", "answered", "event", "failed"}]
         /\ s2' \in Seq(Subscription!Ids) /\ s2' # <<>> /\ s2'[Len(s2')] = id
         /\ s1'[id] = "queued" /\ \A x \in Subscription!Ids : x # id => s1'[x] = s1[x]
         /\ Subscription!Chained'
  <1>1. /\ s1 \in [Subscription!Ids -> {"idle", "queued", "connecting", "sent", "answered", "event", "failed"}]
        /\ s2 \in Seq(Subscription!Ids)
        /\ s1' = [s1 EXCEPT ![id] = "queued"] /\ s2' = Append(s2, id)
    BY DEF Subscription!NativeInv, Subscription!NativeTypeOK, Subscription!Enqueues
  <1>2. /\ Distinct(s2) /\ ~Holds(s2, id)
        /\ \A x \in Subscription!Ids : Subscription!Outstanding(x) <=> Holds(s2, x)
        /\ \A x \in Subscription!Ids : s1[x] \in {"connecting", "sent"} => Subscription!Running(x)
    BY ChainedMeans DEF Subscription!NativeInv
  <1>3. /\ s2' \in Seq(Subscription!Ids) /\ Distinct(s2') /\ s2' # <<>> /\ s2'[Len(s2')] = id
        /\ \A x \in Subscription!Ids : Holds(s2', x) <=> (x = id \/ Holds(s2, x))
        /\ s2 # <<>> => Head(s2') = Head(s2)
    BY <1>1, <1>2, ChainLonger
  <1>4. /\ s1' \in [Subscription!Ids -> {"idle", "queued", "connecting", "sent", "answered", "event", "failed"}]
        /\ s1'[id] = "queued" /\ \A x \in Subscription!Ids : x # id => s1'[x] = s1[x]
    BY <1>1
  <1>5. \A x \in Subscription!Ids : s1'[x] \in {"queued", "connecting", "sent"} <=> Holds(s2', x)
    BY <1>2, <1>3, <1>4 DEF Subscription!Outstanding
  <1>6. \A x \in Subscription!Ids : s1'[x] \in {"connecting", "sent"} => s2' # <<>> /\ Head(s2') = x
    BY <1>2, <1>3, <1>4 DEF Subscription!Running
  <1>7. Subscription!Chained'
    BY <1>3, <1>5, <1>6, ChainedMeansNext
  <1> QED BY <1>3, <1>4, <1>7

\* Nothing on the wire or among the events moves.
NativeStill == UNCHANGED <<s3, s4, s8, s9, s10, s11, s13>>

\* A call that was not sent takes another state, and no other call does.
LEMMA NativeWireStays ==
  ASSUME Subscription!NativeInv, NativeStill, NEW id \in Subscription!Ids,
         s1[id] # "sent", s1'[id] # "sent", \A x \in Subscription!Ids : x # id => s1'[x] = s1[x]
  PROVE  Subscription!OnTheWire'
  <1>1. CASE Subscription!NothingSent
    BY <1>1 DEF NativeStill, Subscription!OnTheWire, Subscription!NothingSent
  <1>2. CASE \E x \in Subscription!Ids : Subscription!OneSent(x)
    <2>1. PICK x \in Subscription!Ids : Subscription!OneSent(x)
      BY <1>2
    <2>2. x # id /\ s1'[x] = "sent"
      BY <2>1 DEF Subscription!OneSent
    <2>3. Subscription!OneSent(x)'
      BY <2>1, <2>2 DEF NativeStill, Subscription!OneSent, Subscription!Between
    <2> QED BY <2>3 DEF Subscription!OnTheWire
  <1> QED BY <1>1, <1>2 DEF Subscription!NativeInv, Subscription!OnTheWire

\* Order is kept by what touches neither the events nor who got them.
LEMMA NativeOrderStays ==
  ASSUME Subscription!NativeInv, UNCHANGED <<s10, s11, s13>>
  PROVE  Subscription!Ordered'
  BY DEF Subscription!NativeInv, Subscription!Ordered, Subscription!ResponsesMatch, Subscription!EventsInOrder

\* A pull.
LEMMA NativePulls ==
  ASSUME Subscription!NativeInv, NEW c \in Pullers, Subscription!PullEvent(c)
  PROVE  Subscription!NativeInv'
  <1>1. /\ c \in Subscription!Ids /\ c # "register" /\ c # "unregister"
        /\ "register" \in Subscription!Ids /\ "unregister" \in Subscription!Ids
    BY PullersAssumption DEF Subscription!Ids
  <1>2. /\ s7 = "open" /\ ~Subscription!Outstanding(c) /\ Subscription!Enqueues(c)
        /\ UNCHANGED <<s3, s4, s5, s6, s7, s8, s9, s10, s11, s12, s13>>
    BY DEF Subscription!PullEvent
  <1>3. /\ s1' \in [Subscription!Ids -> {"idle", "queued", "connecting", "sent", "answered", "event", "failed"}]
        /\ s2' \in Seq(Subscription!Ids) /\ s2' # <<>> /\ s2'[Len(s2')] = c
        /\ s1'[c] = "queued" /\ \A x \in Subscription!Ids : x # c => s1'[x] = s1[x]
        /\ Subscription!Chained'
    BY <1>1, <1>2, NativeEnqueues
  <1>4. Subscription!NativeTypeOK'
    BY <1>2, <1>3 DEF Subscription!NativeInv, Subscription!NativeTypeOK
  <1>5. Subscription!OnTheWire'
    BY <1>1, <1>2, <1>3, NativeWireStays DEF NativeStill, Subscription!Outstanding
  <1>6. Subscription!Registers'
    BY <1>1, <1>2, <1>3 DEF Subscription!NativeInv, Subscription!Registers, Subscription!Outstanding
  <1> QED BY <1>2, <1>3, <1>4, <1>5, <1>6, NativeOrderStays DEF Subscription!NativeInv

\* close() of the reader.
LEMMA NativeCloses ==
  ASSUME Subscription!NativeInv, Subscription!CloseReader
  PROVE  Subscription!NativeInv' /\ s7 = "open" /\ s7' = "closing"
  <1>1. "register" \in Subscription!Ids /\ "unregister" \in Subscription!Ids
    BY DEF Subscription!Ids
  <1>2. /\ s7 = "open" /\ Subscription!Enqueues("unregister") /\ s7' = "closing"
        /\ UNCHANGED <<s3, s4, s5, s6, s8, s9, s10, s11, s12, s13>>
    BY DEF Subscription!CloseReader
  <1>3. ~Subscription!Outstanding("unregister") /\ ~Subscription!Outstanding("register")
    BY <1>2 DEF Subscription!NativeInv, Subscription!Registers
  <1>4. /\ s1' \in [Subscription!Ids -> {"idle", "queued", "connecting", "sent", "answered", "event", "failed"}]
        /\ s2' \in Seq(Subscription!Ids) /\ s2' # <<>> /\ s2'[Len(s2')] = "unregister"
        /\ s1'["unregister"] = "queued" /\ \A x \in Subscription!Ids : x # "unregister" => s1'[x] = s1[x]
        /\ Subscription!Chained'
    BY <1>1, <1>2, <1>3, NativeEnqueues
  <1>5. Subscription!NativeTypeOK'
    BY <1>2, <1>4 DEF Subscription!NativeInv, Subscription!NativeTypeOK
  <1>6. Subscription!OnTheWire'
    BY <1>1, <1>2, <1>3, <1>4, NativeWireStays DEF NativeStill, Subscription!Outstanding
  <1>7. Subscription!Registers'
    BY <1>1, <1>2, <1>3, <1>4 DEF Subscription!NativeInv, Subscription!Registers, Subscription!Outstanding
  <1> QED BY <1>2, <1>4, <1>5, <1>6, <1>7, NativeOrderStays DEF Subscription!NativeInv

\* The running call settles, and the next one runs.
LEMMA NativeSettles ==
  ASSUME Subscription!NativeInv, NEW id \in Subscription!Ids, Subscription!Running(id),
         NEW how \in {"answered", "event", "failed"},
         Subscription!Ends(id, how), UNCHANGED <<s6, s7>>
  PROVE  /\ s1' \in [Subscription!Ids -> {"idle", "queued", "connecting", "sent", "answered", "event", "failed"}]
         /\ s2' \in Seq(Subscription!Ids)
         /\ s1'[id] = how /\ \A x \in Subscription!Ids : x # id => s1'[x] = s1[x]
         /\ \A x \in Subscription!Ids : s1'[x] \notin {"connecting", "sent"}
         /\ Subscription!Chained' /\ Subscription!Registers'
  <1> USE DEF Subscription!NativeInv
  <1>1. /\ s1 \in [Subscription!Ids -> {"idle", "queued", "connecting", "sent", "answered", "event", "failed"}]
        /\ s2 \in Seq(Subscription!Ids) /\ s2 # <<>> /\ Head(s2) = id
        /\ s1' = [s1 EXCEPT ![id] = how] /\ s2' = Tail(s2)
        /\ "register" \in Subscription!Ids /\ "unregister" \in Subscription!Ids
    BY DEF Subscription!NativeTypeOK, Subscription!Ends, Subscription!Running, Subscription!Ids
  <1>2. /\ Distinct(s2)
        /\ \A x \in Subscription!Ids : Subscription!Outstanding(x) <=> Holds(s2, x)
        /\ \A x \in Subscription!Ids : s1[x] \in {"connecting", "sent"} => Subscription!Running(x)
    BY ChainedMeans
  <1>3. /\ s2' \in Seq(Subscription!Ids) /\ Distinct(s2')
        /\ \A x \in Subscription!Ids : Holds(s2', x) <=> (x # id /\ Holds(s2, x))
        /\ s2' # <<>> => s2'[Len(s2')] = s2[Len(s2)] /\ s2[Len(s2)] # id
        /\ s2' = <<>> => s2[Len(s2)] = id
    BY <1>1, <1>2, ChainShorter
  <1>4. /\ s1' \in [Subscription!Ids -> {"idle", "queued", "connecting", "sent", "answered", "event", "failed"}]
        /\ s1'[id] = how /\ \A x \in Subscription!Ids : x # id => s1'[x] = s1[x]
    BY <1>1
  <1>5. \A x \in Subscription!Ids : s1'[x] \in {"queued", "connecting", "sent"} <=> Holds(s2', x)
    BY <1>2, <1>3, <1>4 DEF Subscription!Outstanding
  <1>6. \A x \in Subscription!Ids : s1'[x] \notin {"connecting", "sent"}
    BY <1>1, <1>2, <1>3, <1>4 DEF Subscription!Running
  <1>7. Subscription!Chained'
    BY <1>3, <1>5, <1>6, ChainedMeansNext
  <1>8. Subscription!Registers'
    <2>1. s7' = s7 /\ s7 \notin {"none", "closed", "failed"}
      BY <1>1 DEF Subscription!Registers
    <2>2. s2' = <<>> => ~Holds(s2', "unregister")
      BY DEF Holds
    <2>3. /\ Subscription!Outstanding("unregister")' <=>
               ("unregister" # id /\ Subscription!Outstanding("unregister"))
          /\ Subscription!Outstanding("register")' => Subscription!Outstanding("register")
          /\ \A x \in Subscription!Ids : Subscription!Outstanding(x)' => Subscription!Outstanding(x)
          /\ Subscription!Outstanding("unregister")' => s2' # <<>>
      BY <1>1, <1>2, <1>3, <1>4, <1>5, <2>2 DEF Subscription!Outstanding
    <2>4. Subscription!Outstanding("unregister")' => s7 = "closing" /\ s2'[Len(s2')] = "unregister"
      BY <1>3, <2>3 DEF Subscription!Registers
    <2>5. s7 = "closing" /\ ~Subscription!Outstanding("unregister")' => s2' = <<>>
      BY <1>1, <1>3, <2>3 DEF Subscription!Registers
    <2> QED BY <2>1, <2>3, <2>4, <2>5 DEF Subscription!Registers
  <1> QED BY <1>3, <1>4, <1>6, <1>7, <1>8

\* The running call connects, or is sent; the chain stays as it is.
LEMMA NativeRuns ==
  ASSUME Subscription!NativeInv, NEW id \in Subscription!Ids, Subscription!Running(id),
         s1[id] \in {"queued", "connecting"}, NEW how \in {"connecting", "sent"},
         s1' = [s1 EXCEPT ![id] = how], UNCHANGED <<s2, s6, s7>>
  PROVE  /\ s1' \in [Subscription!Ids -> {"idle", "queued", "connecting", "sent", "answered", "event", "failed"}]
         /\ s1'[id] = how /\ \A x \in Subscription!Ids : x # id => s1'[x] = s1[x] /\ s1[x] # "sent"
         /\ Subscription!Chained' /\ Subscription!Registers'
  <1> USE DEF Subscription!NativeInv
  <1>1. /\ s1 \in [Subscription!Ids -> {"idle", "queued", "connecting", "sent", "answered", "event", "failed"}]
        /\ s2 # <<>> /\ Head(s2) = id
        /\ "register" \in Subscription!Ids /\ "unregister" \in Subscription!Ids
    BY DEF Subscription!NativeTypeOK, Subscription!Running, Subscription!Ids
  <1>2. /\ Distinct(s2)
        /\ \A x \in Subscription!Ids : Subscription!Outstanding(x) <=> Holds(s2, x)
        /\ \A x \in Subscription!Ids : s1[x] \in {"connecting", "sent"} => Subscription!Running(x)
    BY ChainedMeans
  <1>3. /\ s1' \in [Subscription!Ids -> {"idle", "queued", "connecting", "sent", "answered", "event", "failed"}]
        /\ s1'[id] = how /\ \A x \in Subscription!Ids : x # id => s1'[x] = s1[x] /\ s1[x] # "sent"
    BY <1>1, <1>2 DEF Subscription!Running
  <1>4. \A x \in Subscription!Ids : s1'[x] \in {"queued", "connecting", "sent"} <=> Subscription!Outstanding(x)
    BY <1>3 DEF Subscription!Outstanding
  <1>5. \A x \in Subscription!Ids : s1'[x] \in {"connecting", "sent"} => s2' # <<>> /\ Head(s2') = x
    BY <1>1, <1>2, <1>3 DEF Subscription!Running
  <1>6. Subscription!Chained'
    <2> HIDE DEF Subscription!NativeInv
    <2>1. Distinct(s2') /\ \A x \in Subscription!Ids : s1'[x] \in {"queued", "connecting", "sent"} <=> Holds(s2', x)
      BY <1>2, <1>4
    <2> QED BY <1>5, <2>1, ChainedMeansNext
  <1>7. Subscription!Registers'
    <2>1. s7 \notin {"none", "closed", "failed"}
      BY <1>1 DEF Subscription!Registers
    <2> QED BY <1>1, <1>4, <2>1 DEF Subscription!Registers, Subscription!Outstanding
  <1> QED BY <1>3, <1>6, <1>7

\* A step of a call.
LEMMA NativeCall ==
  ASSUME Subscription!NativeInv, NEW id \in Subscription!Ids, Subscription!CallStep(id)
  PROVE  Subscription!NativeInv' /\ s7' = s7
  <1> USE DEF Subscription!NativeInv
  <1>1. /\ "register" \in Subscription!Ids /\ "unregister" \in Subscription!Ids
        /\ s1[id] = "connecting" => Subscription!Running(id)
    BY DEF Subscription!Ids, Subscription!Chained
  <1>2. CASE Subscription!CallSends(id) \/ Subscription!Connected(id)
    <2>1. /\ s1[id] \in {"queued", "connecting"} /\ Subscription!Running(id)
          /\ s1' = [s1 EXCEPT ![id] = "sent"] /\ s3' = Append(s3, id) /\ s8' = Append(s8, id)
          /\ s4' = TRUE /\ UNCHANGED <<s2, s5, s6, s7, s9, s10, s11, s12, s13>>
      <3>1. CASE Subscription!CallSends(id)
        BY <3>1, <1>1 DEF Subscription!CallSends, Subscription!Sends, Subscription!NativeTypeOK
      <3>2. CASE Subscription!Connected(id)
        BY <3>2, <1>1 DEF Subscription!Connected, Subscription!Sends
      <3> QED BY <1>2, <3>1, <3>2
    <2>2. /\ s1' \in [Subscription!Ids -> {"idle", "queued", "connecting", "sent", "answered", "event", "failed"}]
          /\ s1'[id] = "sent" /\ \A x \in Subscription!Ids : x # id => s1'[x] = s1[x] /\ s1[x] # "sent"
          /\ Subscription!Chained' /\ Subscription!Registers'
      BY <2>1, NativeRuns
    <2>3. s3 = <<>> /\ s8 = <<>> /\ s9 = <<>>
      BY <2>1, <2>2 DEF Subscription!OnTheWire, Subscription!NothingSent, Subscription!OneSent
    <2>4. Subscription!OneSent(id)'
      BY <2>1, <2>2, <2>3 DEF Subscription!OneSent
    <2>5. Subscription!NativeTypeOK'
      BY <2>1, <2>2 DEF Subscription!NativeTypeOK
    <2> QED BY <2>1, <2>2, <2>4, <2>5, NativeOrderStays DEF Subscription!OnTheWire
  <1>3. CASE Subscription!CallConnects(id)
    <2>1. /\ s1[id] = "queued" /\ Subscription!Running(id) /\ s1' = [s1 EXCEPT ![id] = "connecting"]
          /\ UNCHANGED <<s2, s3, s4, s5, s6, s7, s8, s9, s10, s11, s12, s13>>
      BY <1>3 DEF Subscription!CallConnects
    <2>2. /\ s1' \in [Subscription!Ids -> {"idle", "queued", "connecting", "sent", "answered", "event", "failed"}]
          /\ s1'[id] = "connecting" /\ \A x \in Subscription!Ids : x # id => s1'[x] = s1[x]
          /\ Subscription!Chained' /\ Subscription!Registers'
      BY <2>1, NativeRuns
    <2>3. Subscription!OnTheWire'
      BY <2>1, <2>2, NativeWireStays DEF NativeStill
    <2>4. Subscription!NativeTypeOK'
      BY <2>1, <2>2 DEF Subscription!NativeTypeOK
    <2> QED BY <2>1, <2>2, <2>3, <2>4, NativeOrderStays
  <1>4. CASE Subscription!ConnectFails(id)
    <2>1. /\ s1[id] = "connecting" /\ Subscription!Running(id) /\ Subscription!Ends(id, "failed")
          /\ s12' = s12 + 1 /\ UNCHANGED <<s3, s4, s5, s6, s7, s8, s9, s10, s11, s13>>
      BY <1>1, <1>4 DEF Subscription!ConnectFails
    <2>2. /\ s1' \in [Subscription!Ids -> {"idle", "queued", "connecting", "sent", "answered", "event", "failed"}]
          /\ s2' \in Seq(Subscription!Ids)
          /\ s1'[id] = "failed" /\ \A x \in Subscription!Ids : x # id => s1'[x] = s1[x]
          /\ Subscription!Chained' /\ Subscription!Registers'
      BY <2>1, NativeSettles
    <2>3. Subscription!OnTheWire'
      BY <2>1, <2>2, NativeWireStays DEF NativeStill
    <2>4. Subscription!NativeTypeOK'
      BY <2>1, <2>2 DEF Subscription!NativeTypeOK
    <2> QED BY <2>1, <2>2, <2>3, <2>4, NativeOrderStays
  <1> QED BY <1>2, <1>3, <1>4 DEF Subscription!CallStep

\* The members of a sequence over T are in T.
LEMMA Elements ==
  ASSUME NEW T, NEW s \in Seq(T)
  PROVE  \A i \in DOMAIN s : s[i] \in T
  OBVIOUS

\* An event is put behind those of s.
LEMMA EventAppended ==
  ASSUME NEW T, NEW s \in Seq(T), NEW e \in T
  PROVE  /\ Append(s, e) \in Seq(T) /\ DOMAIN s = 1 .. Len(s) /\ Len(s) \in Nat
         /\ DOMAIN Append(s, e) = 1 .. Len(s) + 1
         /\ \A i \in DOMAIN s : i \in Nat /\ i <= Len(s) /\ Append(s, e)[i] = s[i]
         /\ Append(s, e)[Len(s) + 1] = e
         /\ \A i \in DOMAIN Append(s, e) : i \in DOMAIN s \/ i = Len(s) + 1
  OBVIOUS

\* A whole frame answers the call that was sent.
LEMMA NativeFrame ==
  ASSUME Subscription!NativeInv, Subscription!FrameArrives
  PROVE  Subscription!NativeInv' /\ s7' = s7
  <1> USE DEF Subscription!NativeInv
  <1>1. /\ s4 /\ s9 # <<>> /\ s9' = Tail(s9) /\ s5' = "empty" /\ Subscription!Resolves(Head(s9))
        /\ UNCHANGED <<s4, s6, s7, s8, s10, s11, s12>>
    BY DEF Subscription!FrameArrives, Subscription!Rest
  <1>2. PICK id \in Subscription!Ids : Subscription!OneSent(id)
    BY <1>1 DEF Subscription!OnTheWire, Subscription!NothingSent
  <1>3. PICK n \in 0 .. s11 : s9 = <<[to |-> id, event |-> n]>> /\ (n = 0 \/ Subscription!Between(n))
    BY <1>1, <1>2 DEF Subscription!OneSent
  <1>4. s3 = <<id>> /\ s1[id] = "sent" /\ s8 = <<>> /\ Subscription!Running(id)
    BY <1>1, <1>2 DEF Subscription!OneSent, Subscription!Chained
  <1>5. Head(s9) = [to |-> id, event |-> n] /\ s9' = <<>> /\ s3 # <<>> /\ Head(s3) = id /\ Tail(s3) = <<>>
    BY <1>1, <1>3, <1>4
  <1> DEFINE r == Head(s9)
  <1>6. PICK how \in {"answered", "event", "failed"} :
          /\ Subscription!Ends(id, how) /\ s3' = <<>>
          /\ s13' = IF Subscription!HasEvent(r, id)
                    THEN Append(s13, [event |-> r.event, by |-> id, for |-> r.to]) ELSE s13
    BY <1>1, <1>5 DEF Subscription!Resolves
  <1>7. /\ s1' \in [Subscription!Ids -> {"idle", "queued", "connecting", "sent", "answered", "event", "failed"}]
        /\ s2' \in Seq(Subscription!Ids)
        /\ \A x \in Subscription!Ids : s1'[x] \notin {"connecting", "sent"}
        /\ Subscription!Chained' /\ Subscription!Registers'
    BY <1>1, <1>4, <1>6, NativeSettles
  <1>8. Subscription!OnTheWire'
    BY <1>1, <1>4, <1>5, <1>6, <1>7 DEF Subscription!OnTheWire, Subscription!NothingSent
  <1>9. s13' \in Seq([event : Nat, by : Subscription!Ids, for : Subscription!Ids]) /\ Subscription!Ordered'
    <2>1. CASE Subscription!HasEvent(r, id)
      <3>1. s13' = Append(s13, [event |-> n, by |-> id, for |-> id]) /\ Subscription!Between(n) /\ n <= s11
        BY <1>3, <1>5, <1>6, <2>1 DEF Subscription!HasEvent
      <3> DEFINE e == [event |-> n, by |-> id, for |-> id]
      <3>2. /\ e \in [event : Nat, by : Subscription!Ids, for : Subscription!Ids]
            /\ e.event = n /\ e.by = id /\ e.for = id
            /\ s13 \in Seq([event : Nat, by : Subscription!Ids, for : Subscription!Ids])
        BY DEF Subscription!NativeTypeOK
      <3> HIDE DEF e, r
      <3>3. /\ s13' \in Seq([event : Nat, by : Subscription!Ids, for : Subscription!Ids])
            /\ DOMAIN s13 = 1 .. Len(s13) /\ Len(s13) \in Nat
            /\ DOMAIN s13' = 1 .. Len(s13) + 1
            /\ \A i \in DOMAIN s13 : i \in Nat /\ i <= Len(s13) /\ s13'[i] = s13[i]
            /\ s13'[Len(s13) + 1] = e
            /\ \A i \in DOMAIN s13' : i \in DOMAIN s13 \/ i = Len(s13) + 1
        BY <3>1, <3>2, EventAppended DEF e
      <3>4. Subscription!ResponsesMatch' /\ \A i \in DOMAIN s13' : s13'[i].event <= s11'
        BY <1>1, <3>1, <3>2, <3>3 DEF Subscription!Ordered, Subscription!ResponsesMatch
      <3>5. Subscription!EventsInOrder'
        BY <3>1, <3>2, <3>3 DEF Subscription!Ordered, Subscription!EventsInOrder, Subscription!Between
      <3>6. \A i \in DOMAIN s13', j \in DOMAIN s10' : s13'[i].event < s10'[j]
        BY <1>1, <3>1, <3>2, <3>3 DEF Subscription!Ordered, Subscription!Between
      <3> QED BY <1>1, <3>3, <3>4, <3>5, <3>6 DEF Subscription!Ordered
    <2>2. CASE ~Subscription!HasEvent(r, id)
      BY <1>1, <1>6, <2>2, NativeOrderStays DEF Subscription!NativeTypeOK
    <2> QED BY <2>1, <2>2
  <1>10. Subscription!NativeTypeOK'
    BY <1>1, <1>7, <1>9 DEF Subscription!NativeTypeOK
  <1> QED BY <1>1, <1>7, <1>8, <1>9, <1>10

\* The wire is given up: the call that was sent rejects, if there is one.
GivesUp ==
  /\ s1' = [x \in Subscription!Ids |-> IF Subscription!Rejected(x) THEN "failed" ELSE s1[x]]
  /\ s2' = Subscription!ChainGoesOn
  /\ s3' = <<>> /\ s4' = FALSE /\ s8' = <<>> /\ s9' = <<>>

\* Calls that are given up keep the chain, the registrations and the wire as they must be.
LEMMA NativeGivesUp ==
  ASSUME Subscription!NativeInv, GivesUp, s7' = s7 /\ s6' = s6
  PROVE  /\ s1' \in [Subscription!Ids -> {"idle", "queued", "connecting", "sent", "answered", "event", "failed"}]
         /\ s2' \in Seq(Subscription!Ids)
         /\ Subscription!Chained' /\ Subscription!Registers' /\ Subscription!OnTheWire'
         /\ \A x \in Subscription!Ids : s1'[x] # "sent"
  <1> USE DEF Subscription!NativeInv
  <1>1. /\ s1 \in [Subscription!Ids -> {"idle", "queued", "connecting", "sent", "answered", "event", "failed"}]
        /\ s2 \in Seq(Subscription!Ids)
    BY DEF Subscription!NativeTypeOK
  <1>2. CASE \A x \in Subscription!Ids : s1[x] # "sent"
    <2>1. s1' = s1
      BY <1>1, <1>2 DEF GivesUp, Subscription!Rejected
    <2>2. s2' = s2
      <3>1. CASE s2 = <<>>
        BY <3>1 DEF GivesUp, Subscription!ChainGoesOn
      <3>2. CASE s2 # <<>>
        <4>1. Head(s2) \in Subscription!Ids
          BY <1>1, <3>2
        <4> QED BY <1>2, <4>1 DEF GivesUp, Subscription!ChainGoesOn, Subscription!Rejected
      <3> QED BY <3>1, <3>2
    <2>3. Subscription!OnTheWire'
      BY <1>2, <2>1 DEF GivesUp, Subscription!OnTheWire, Subscription!NothingSent
    <2> QED BY <1>1, <1>2, <2>1, <2>2, <2>3 DEF GivesUp, Subscription!Chained, Subscription!Registers,
          Subscription!Outstanding, Subscription!Running
  <1>3. ASSUME NEW id \in Subscription!Ids, s1[id] = "sent"
        PROVE  /\ Subscription!Running(id) /\ Subscription!Ends(id, "failed")
    <2>1. Subscription!Running(id) /\ \A x \in Subscription!Ids : s1[x] = "sent" => x = id
      BY <1>3 DEF Subscription!Chained, Subscription!Running
    <2>2. s1' = [s1 EXCEPT ![id] = "failed"]
      BY <1>1, <1>3, <2>1 DEF GivesUp, Subscription!Rejected
    <2>3. s2' = Tail(s2)
      BY <1>3, <2>1 DEF GivesUp, Subscription!ChainGoesOn, Subscription!Rejected, Subscription!Running
    <2> QED BY <2>1, <2>2, <2>3 DEF Subscription!Ends
  <1>4. CASE \E x \in Subscription!Ids : s1[x] = "sent"
    <2>1. PICK id \in Subscription!Ids : s1[id] = "sent"
      BY <1>4
    <2>2. Subscription!Running(id) /\ Subscription!Ends(id, "failed")
      BY <1>3, <2>1
    <2>3. /\ s1' \in [Subscription!Ids -> {"idle", "queued", "connecting", "sent", "answered", "event", "failed"}]
          /\ s2' \in Seq(Subscription!Ids)
          /\ \A x \in Subscription!Ids : s1'[x] \notin {"connecting", "sent"}
          /\ Subscription!Chained' /\ Subscription!Registers'
      BY <2>2, NativeSettles
    <2>4. Subscription!OnTheWire'
      BY <2>3 DEF GivesUp, Subscription!OnTheWire, Subscription!NothingSent
    <2> QED BY <2>3, <2>4
  <1> QED BY <1>2, <1>4

\* A step of the socket.
LEMMA NativeSocket ==
  ASSUME Subscription!NativeInv, Subscription!SocketStep
  PROVE  Subscription!NativeInv' /\ s7' = s7
  <1> USE DEF Subscription!NativeInv
  <1>1. CASE Subscription!FrameArrives
    BY <1>1, NativeFrame
  <1>2. CASE Subscription!PartArrives
    <2>1. s5' = "part" /\ UNCHANGED <<s1, s2, s3, s4, s6, s7, s8, s9, s10, s11, s12, s13>>
      BY <1>2 DEF Subscription!PartArrives
    <2>2. Subscription!OnTheWire'
      BY <2>1 DEF Subscription!OnTheWire, Subscription!NothingSent, Subscription!OneSent, Subscription!Between
    <2> QED BY <2>1, <2>2, NativeOrderStays DEF Subscription!NativeTypeOK, Subscription!Chained,
          Subscription!Registers, Subscription!Outstanding, Subscription!Running
  <1>3. CASE Subscription!FrameSwallowed
    <2>1. s9 # <<>> /\ s9' = Tail(s9) /\ UNCHANGED <<s1, s2, s3, s4, s5, s6, s7, s8, s10, s11, s12, s13>>
      BY <1>3 DEF Subscription!FrameSwallowed
    <2>2. PICK id \in Subscription!Ids : Subscription!OneSent(id)
      BY <2>1 DEF Subscription!OnTheWire, Subscription!NothingSent
    <2>3. s8 = <<>> /\ s9' = <<>>
      BY <2>1, <2>2, SMTT(20) DEF Subscription!OneSent
    <2>4. Subscription!OneSent(id)'
      BY <2>1, <2>2, <2>3 DEF Subscription!OneSent
    <2> QED BY <2>1, <2>4, NativeOrderStays DEF Subscription!NativeTypeOK, Subscription!Chained,
          Subscription!Registers, Subscription!Outstanding, Subscription!Running, Subscription!OnTheWire
  <1>4. CASE Subscription!FrameMisread \/ Subscription!SocketFails
    <2>1. /\ GivesUp /\ s5' \in {"empty", "part", "stale"} /\ s12' \in Nat
          /\ UNCHANGED <<s6, s7, s10, s11, s13>>
      BY <1>4 DEF Subscription!FrameMisread, Subscription!SocketFails, Subscription!Fails, GivesUp,
        Subscription!StillWaiting, Subscription!LeftOver, Subscription!NativeTypeOK
    <2>2. /\ s1' \in [Subscription!Ids -> {"idle", "queued", "connecting", "sent", "answered", "event", "failed"}]
          /\ s2' \in Seq(Subscription!Ids)
          /\ Subscription!Chained' /\ Subscription!Registers' /\ Subscription!OnTheWire'
      BY <2>1, NativeGivesUp
    <2>3. Subscription!NativeTypeOK'
      BY <2>1, <2>2 DEF Subscription!NativeTypeOK, GivesUp
    <2> QED BY <2>1, <2>2, <2>3, NativeOrderStays
  <1> QED BY <1>1, <1>2, <1>3, <1>4 DEF Subscription!SocketStep

\* A step of the reader: it opens, or its client closes.
LEMMA NativeReader ==
  ASSUME Subscription!NativeInv, Subscription!ReaderStep
  PROVE  /\ Subscription!NativeInv'
         /\ \/ s7 = "opening" /\ s7' \in {"open", "failed"}
            \/ s7 = "closing" /\ s7' = "closed"
  <1> USE DEF Subscription!NativeInv
  <1>1. /\ "register" \in Subscription!Ids /\ "unregister" \in Subscription!Ids
        /\ s1 \in [Subscription!Ids -> {"idle", "queued", "connecting", "sent", "answered", "event", "failed"}]
        /\ s2 \in Seq(Subscription!Ids)
    BY DEF Subscription!Ids, Subscription!NativeTypeOK
  <1>2. ASSUME \/ s7 = "opening" /\ s1["register"] \in {"answered", "failed"}
               \/ s7 = "closing" /\ s1["unregister"] \in {"answered", "failed"}
        PROVE  s2 = <<>> /\ \A x \in Subscription!Ids : ~Subscription!Outstanding(x)
    <2>1. \A x \in Subscription!Ids : Subscription!Outstanding(x) <=> Holds(s2, x)
      BY ChainedMeans
    <2>2. CASE s7 = "opening" /\ s1["register"] \in {"answered", "failed"}
      <3>1. \A x \in Subscription!Ids : ~Subscription!Outstanding(x)
        BY <2>2 DEF Subscription!Registers, Subscription!Outstanding
      <3>2. s2 # <<>> => Holds(s2, Head(s2)) /\ Head(s2) \in Subscription!Ids
        BY <1>1, Receiving DEF Holds
      <3> QED BY <2>1, <3>1, <3>2
    <2>3. CASE s7 = "closing" /\ s1["unregister"] \in {"answered", "failed"}
      <3>1. s2 = <<>>
        BY <2>3 DEF Subscription!Registers, Subscription!Outstanding
      <3> QED BY <2>1, <3>1 DEF Holds
    <2> QED BY <1>2, <2>2, <2>3
  <1>3. CASE Subscription!Registered
    <2>1. /\ s7 = "opening" /\ s1["register"] = "answered" /\ s7' = "open"
          /\ UNCHANGED <<s1, s2, s3, s4, s5, s6, s8, s9, s10, s11, s12, s13>>
      BY <1>3 DEF Subscription!Registered
    <2>2. s2 = <<>> /\ \A x \in Subscription!Ids : ~Subscription!Outstanding(x)
      BY <1>2, <2>1
    <2>3. Subscription!OnTheWire'
      BY <2>1, <2>2 DEF Subscription!OnTheWire, Subscription!NothingSent, Subscription!OneSent, Subscription!Between
    <2>4. Subscription!Registers'
      BY <1>1, <2>1, <2>2 DEF Subscription!Registers, Subscription!Outstanding
    <2> QED BY <2>1, <2>3, <2>4, NativeOrderStays DEF Subscription!NativeTypeOK, Subscription!Chained,
          Subscription!Outstanding, Subscription!Running
  <1>4. CASE Subscription!RegisterFailed \/ Subscription!ReaderClosed
    <2>1. /\ \/ s7 = "opening" /\ s1["register"] \in {"answered", "failed"} /\ s7' = "failed"
             \/ s7 = "closing" /\ s1["unregister"] \in {"answered", "failed"} /\ s7' = "closed"
          /\ GivesUp /\ s6' = TRUE /\ UNCHANGED <<s5, s10, s11, s12, s13>>
      BY <1>4 DEF Subscription!RegisterFailed, Subscription!ReaderClosed, Subscription!UnregisterOver,
        Subscription!ClientCloses, GivesUp, Subscription!StillWaiting
    <2>2. s2 = <<>> /\ \A x \in Subscription!Ids : ~Subscription!Outstanding(x)
      BY <1>2, <2>1
    <2>3. s1' = s1 /\ s2' = s2
      BY <1>1, <2>1, <2>2 DEF GivesUp, Subscription!ChainGoesOn, Subscription!Rejected, Subscription!Outstanding
    <2>4. Subscription!OnTheWire'
      BY <2>1, <2>2, <2>3 DEF GivesUp, Subscription!OnTheWire, Subscription!NothingSent, Subscription!Outstanding
    <2>5. Subscription!Registers'
      BY <1>1, <2>1, <2>2, <2>3 DEF GivesUp, Subscription!Registers, Subscription!Outstanding
    <2>6. Subscription!NativeTypeOK'
      BY <1>1, <2>1, <2>3 DEF GivesUp, Subscription!NativeTypeOK
    <2> QED BY <2>1, <2>3, <2>4, <2>5, <2>6, NativeOrderStays DEF Subscription!Chained,
          Subscription!Outstanding, Subscription!Running
  <1> QED BY <1>3, <1>4 DEF Subscription!ReaderStep

\* An event is made.
LEMMA NativeEvent ==
  ASSUME Subscription!NativeInv, Subscription!Event
  PROVE  Subscription!NativeInv' /\ s7' = s7
  <1> USE DEF Subscription!NativeInv
  <1>1. /\ s11' = s11 + 1 /\ s10' = Append(s10, s11 + 1) /\ s11 \in Nat /\ s10 \in Seq(Nat)
        /\ UNCHANGED <<s1, s2, s3, s4, s5, s6, s7, s8, s9, s12, s13>>
    BY DEF Subscription!Event, Subscription!NativeTypeOK
  <1>2. /\ s10' \in Seq(Nat) /\ DOMAIN s10 = 1 .. Len(s10) /\ Len(s10) \in Nat
        /\ DOMAIN s10' = 1 .. Len(s10) + 1
        /\ \A i \in DOMAIN s10 : i \in Nat /\ i <= Len(s10) /\ s10'[i] = s10[i]
        /\ s10'[Len(s10) + 1] = s11 + 1
        /\ \A i \in DOMAIN s10' : i \in DOMAIN s10 \/ i = Len(s10) + 1
    BY <1>1, EventAppended
  <1>3. \A i \in DOMAIN s10 : s10[i] \in Nat /\ s10[i] <= s11
    BY <1>1 DEF Subscription!Ordered
  <1>4. /\ \A i \in DOMAIN s13 : s13[i].event \in Nat /\ s13[i].event <= s11
        /\ Subscription!ResponsesMatch' /\ Subscription!EventsInOrder'
        /\ \A i \in DOMAIN s13' : s13'[i].event <= s11'
    <2>1. \A i \in DOMAIN s13 : s13[i].event \in Nat
      <3>1. s13 \in Seq([event : Nat, by : Subscription!Ids, for : Subscription!Ids])
        BY DEF Subscription!NativeTypeOK
      <3>2. \A i \in DOMAIN s13 : s13[i] \in [event : Nat, by : Subscription!Ids, for : Subscription!Ids]
        BY <3>1, Elements
      <3> QED BY <3>2
    <2> QED BY <1>1, <2>1 DEF Subscription!Ordered, Subscription!ResponsesMatch, Subscription!EventsInOrder
  <1>5. /\ \A i, j \in DOMAIN s10' : i < j => s10'[i] < s10'[j]
        /\ \A i \in DOMAIN s10' : s10'[i] \in 1 .. s11'
    BY <1>1, <1>2, <1>3 DEF Subscription!Ordered
  <1>6. \A i \in DOMAIN s13', j \in DOMAIN s10' : s13'[i].event < s10'[j]
    BY <1>1, <1>2, <1>4 DEF Subscription!Ordered
  <1>7. Subscription!OnTheWire'
    <2>1. CASE Subscription!NothingSent
      BY <1>1, <2>1 DEF Subscription!OnTheWire, Subscription!NothingSent
    <2>2. CASE \E x \in Subscription!Ids : Subscription!OneSent(x)
      <3>1. PICK x \in Subscription!Ids : Subscription!OneSent(x)
        BY <2>2
      <3>2. ASSUME NEW n \in 0 .. s11, Subscription!Between(n) PROVE Subscription!Between(n)'
        BY <1>1, <1>2, <3>2 DEF Subscription!Between
      <3>3. \A n \in 0 .. s11 : n \in 0 .. s11'
        BY <1>1
      <3>4. Subscription!OneSent(x)'
        <4>1. CASE s9 = <<>>
          BY <1>1, <3>1, <4>1 DEF Subscription!OneSent
        <4>2. CASE s9 # <<>>
          <5>1. /\ s1[x] = "sent" /\ s3 = <<x>> /\ s4 /\ s8 = <<>>
                /\ \E n \in 0 .. s11 : s9 = <<[to |-> x, event |-> n]>> /\ (n = 0 \/ Subscription!Between(n))
            BY <3>1, <4>2 DEF Subscription!OneSent
          <5>2. PICK n \in 0 .. s11 : s9 = <<[to |-> x, event |-> n]>> /\ (n = 0 \/ Subscription!Between(n))
            BY <5>1
          <5>3. /\ s1'[x] = "sent" /\ s3' = <<x>> /\ s4' /\ s8' = <<>>
                /\ n \in 0 .. s11' /\ s9' = <<[to |-> x, event |-> n]>> /\ (n = 0 \/ Subscription!Between(n)')
            BY <1>1, <3>2, <3>3, <5>1, <5>2
          <5> QED BY <5>3 DEF Subscription!OneSent
        <4> QED BY <4>1, <4>2
      <3> QED BY <3>4 DEF Subscription!OnTheWire
    <2> QED BY <2>1, <2>2 DEF Subscription!OnTheWire
  <1>8. Subscription!Chained' /\ Subscription!Registers'
    BY <1>1 DEF Subscription!Chained, Subscription!Registers, Subscription!Outstanding, Subscription!Running
  <1>9. Subscription!NativeTypeOK'
    BY <1>1, <1>2 DEF Subscription!NativeTypeOK
  <1> QED BY <1>1, <1>4, <1>5, <1>6, <1>7, <1>8, <1>9 DEF Subscription!Ordered

\* The daemon answers the one request there is.
LEMMA NativeAnswers ==
  ASSUME Subscription!NativeInv, Subscription!DaemonAnswers
  PROVE  Subscription!NativeInv' /\ s7' = s7
  <1> USE DEF Subscription!NativeInv
  <1>1. /\ s8 # <<>> /\ s8' = Tail(s8) /\ s10 \in Seq(Nat)
        /\ UNCHANGED <<s1, s2, s3, s4, s5, s6, s7, s11, s12, s13>>
    BY DEF Subscription!DaemonAnswers, Subscription!NativeTypeOK
  <1>2. PICK id \in Subscription!Ids : Subscription!OneSent(id)
    BY <1>1 DEF Subscription!OnTheWire, Subscription!NothingSent
  <1>3. s1[id] = "sent" /\ s3 = <<id>> /\ s4 /\ s8 = <<id>> /\ s9 = <<>>
    BY <1>1, <1>2 DEF Subscription!OneSent
  <1>4. Head(s8) = id /\ s8' = <<>>
    BY <1>1, <1>3
  <1>5. \/ /\ s10 # <<>> /\ s10' = Tail(s10) /\ s9' = Append(s9, [to |-> id, event |-> Head(s10)])
        \/ /\ s10' = s10 /\ s9' = Append(s9, [to |-> id, event |-> 0])
    BY <1>4 DEF Subscription!DaemonAnswers
  <1>6. CASE s10 # <<>> /\ s10' = Tail(s10) /\ s9' = Append(s9, [to |-> id, event |-> Head(s10)])
    <2>0. PICK n \in Nat : n = Head(s10)
      BY <1>1, <1>6, Receiving
    <2>1. s9' = <<[to |-> id, event |-> n]>>
      BY <1>3, <1>6, <2>0
    <2>2. /\ s10' \in Seq(Nat) /\ n \in Nat /\ n = s10[1] /\ 1 \in DOMAIN s10
          /\ DOMAIN s10 = 1 .. Len(s10) /\ DOMAIN s10' = 1 .. Len(s10) - 1 /\ Len(s10) \in Nat \ {0}
          /\ \A i \in DOMAIN s10' : i + 1 \in DOMAIN s10 /\ s10'[i] = s10[i + 1]
      BY <1>1, <1>6, <2>0, Receiving
    <2>3. n \in 0 .. s11' /\ \A i \in DOMAIN s13 : s13[i].event < n
      <3>1. s10[1] \in 1 .. s11 /\ s11 \in Nat
        BY <2>2 DEF Subscription!Ordered, Subscription!NativeTypeOK
      <3>2. \A i \in DOMAIN s13 : s13[i].event < s10[1]
        BY <2>2 DEF Subscription!Ordered
      <3> QED BY <1>1, <2>2, <3>1, <3>2
    <2>4. \A i \in DOMAIN s10' : n < s10'[i]
      <3>1. ASSUME NEW i \in DOMAIN s10' PROVE n < s10'[i]
        <4>1. i + 1 \in DOMAIN s10 /\ 1 < i + 1 /\ s10'[i] = s10[i + 1]
          BY <2>2
        <4> QED BY <2>2, <4>1 DEF Subscription!Ordered
      <3> QED BY <3>1
    <2>5. Subscription!Between(n)'
      BY <1>1, <2>3, <2>4 DEF Subscription!Between
    <2>6. Subscription!OneSent(id)'
      BY <1>1, <1>3, <1>4, <2>1, <2>3, <2>5 DEF Subscription!OneSent
    <2>7. \A i, j \in DOMAIN s10' : i < j => s10'[i] < s10'[j]
      <3>1. ASSUME NEW i \in DOMAIN s10', NEW j \in DOMAIN s10', i < j PROVE s10'[i] < s10'[j]
        <4>1. i + 1 \in DOMAIN s10 /\ j + 1 \in DOMAIN s10 /\ i + 1 < j + 1
          BY <2>2, <3>1
        <4> QED BY <2>2, <4>1 DEF Subscription!Ordered
      <3> QED BY <3>1
    <2>8. /\ \A i \in DOMAIN s10' : s10'[i] \in 1 .. s11'
          /\ \A i \in DOMAIN s13', j \in DOMAIN s10' : s13'[i].event < s10'[j]
      BY <1>1, <2>2 DEF Subscription!Ordered
    <2>9. Subscription!Ordered'
      BY <1>1, <2>7, <2>8 DEF Subscription!Ordered, Subscription!ResponsesMatch, Subscription!EventsInOrder
    <2> QED BY <1>1, <2>2, <2>6, <2>9 DEF Subscription!NativeTypeOK, Subscription!Chained,
          Subscription!Registers, Subscription!Outstanding, Subscription!Running, Subscription!OnTheWire
  <1>7. CASE s10' = s10 /\ s9' = Append(s9, [to |-> id, event |-> 0])
    <2>1. s9' = <<[to |-> id, event |-> 0]>>
      BY <1>3, <1>7
    <2>2. 0 \in 0 .. s11'
      BY <1>1 DEF Subscription!NativeTypeOK
    <2>3. Subscription!OneSent(id)'
      BY <1>1, <1>3, <1>4, <2>1, <2>2 DEF Subscription!OneSent
    <2> QED BY <1>1, <1>7, <2>3, NativeOrderStays DEF Subscription!NativeTypeOK, Subscription!Chained,
          Subscription!Registers, Subscription!Outstanding, Subscription!Running, Subscription!OnTheWire
  <1> QED BY <1>5, <1>6, <1>7

\* Every step of a reader by itself keeps its invariant.
LEMMA NativeNext ==
  Subscription!NativeInv /\ Subscription!NativeNext => Subscription!NativeInv'
  BY NativeCreates, NativePulls, NativeCloses, NativeCall, NativeSocket, NativeReader, NativeEvent,
    NativeAnswers DEF Subscription!NativeNext

\* What the run checks of the native reader follows from its invariant.
LEMMA NativeMeans ==
  Subscription!NativeInv =>
    /\ Subscription!ResponsesMatch /\ Subscription!EventsInOrder /\ Subscription!ClosedMeansDisconnected
  <1> SUFFICES ASSUME Subscription!NativeInv
               PROVE  /\ Subscription!ResponsesMatch /\ Subscription!EventsInOrder
                      /\ Subscription!ClosedMeansDisconnected
    OBVIOUS
  <1>1. s7 \in {"closed", "failed"} => ~s4 /\ s2 = <<>>
    BY DEF Subscription!NativeInv, Subscription!Registers
  <1>2. s2 = <<>> => \A id \in Subscription!Ids : s1[id] \notin {"connecting", "sent"}
    BY DEF Subscription!NativeInv, Subscription!Chained, Subscription!Running
  <1> QED BY <1>1, <1>2 DEF Subscription!NativeInv, Subscription!Ordered, Subscription!ClosedMeansDisconnected

\* A step that leaves the native reader alone keeps its invariant.
LEMMA NativeUnchanged ==
  ASSUME Subscription!NativeInv, UNCHANGED Subscription!nativeVars
  PROVE  Subscription!NativeInv' /\ s7' = s7
  <1>1. UNCHANGED <<s1, s2, s3, s4, s5, s6, s7, s8, s9, s10, s11, s12, s13>>
    BY DEF Subscription!nativeVars
  <1>2. Subscription!NativeTypeOK' /\ Subscription!Chained' /\ Subscription!Registers'
    BY <1>1 DEF Subscription!NativeInv, Subscription!NativeTypeOK, Subscription!Chained,
      Subscription!Registers, Subscription!Outstanding, Subscription!Running
  <1>3. Subscription!OnTheWire'
    BY <1>1 DEF Subscription!NativeInv, Subscription!OnTheWire, Subscription!NothingSent,
      Subscription!OneSent, Subscription!Between
  <1> QED BY <1>1, <1>2, <1>3, NativeOrderStays DEF Subscription!NativeInv

-----------------------------------------------------------------------------
(* KEventSubscription.                                                     *)

\* The part of its invariant that is not about the reader's connection.
SubOwns == Subscription!SubTypeOK /\ Subscription!CloserOwns /\ Subscription!LoopOwns

\* The subscription starts in its invariant.
LEMMA SubInit == Subscription!Init => Subscription!SubInv
  <1> SUFFICES ASSUME Subscription!Init PROVE Subscription!SubInv
    OBVIOUS
  <1>1. Subscription!NativeInv /\ s7 = "none"
    BY NativeInit DEF Subscription!Init, Subscription!NativeInit
  <1>2. s14 = "top" /\ s15 = FALSE /\ s17 = "none" /\ s16 \in BOOLEAN
    BY DEF Subscription!Init
  <1> QED BY <1>1, <1>2 DEF Subscription!SubInv, Subscription!SubTypeOK, Subscription!CloserOwns,
        Subscription!LoopOwns, Subscription!NoReader, Subscription!ReaderGoes

\* A step of the loop.
LEMMA SubLoop ==
  ASSUME Subscription!SubInv, Subscription!LoopStep
  PROVE  Subscription!SubInv'
  <1> USE DEF Subscription!SubInv
  <1>1. CASE Subscription!CreatesReader
    <2>1. /\ s14 = "top" /\ ~s16 /\ s14' = "creating" /\ Subscription!CreateReader
          /\ UNCHANGED <<s15, s16, s17>> /\ s7' = "opening"
      BY <1>1 DEF Subscription!CreatesReader, Subscription!CreateReader
    <2> QED BY <2>1, NativeCreates DEF Subscription!SubTypeOK, Subscription!CloserOwns,
        Subscription!LoopOwns, Subscription!NoReader, Subscription!ReaderGoes
  <1>2. CASE Subscription!Pulls
    <2>1. /\ s14 = "loop" /\ ~s16 /\ s14' = "pulling" /\ Subscription!PullEvent("run")
          /\ UNCHANGED <<s15, s16, s17>> /\ s7' = s7
      BY <1>2 DEF Subscription!Pulls, Subscription!PullEvent
    <2>2. Subscription!NativeInv'
      BY <2>1, PullersAssumption, NativePulls
    <2> QED BY <2>1, <2>2 DEF Subscription!SubTypeOK, Subscription!CloserOwns,
        Subscription!LoopOwns, Subscription!NoReader, Subscription!ReaderGoes
  <1>3. CASE Subscription!ClosesReader
    <2>1. /\ s14 = "finally" /\ s15 /\ s15' = FALSE /\ Subscription!CloseReader /\ s14' = "closing"
          /\ UNCHANGED <<s16, s17>>
      BY <1>3 DEF Subscription!ClosesReader
    <2>2. Subscription!NativeInv' /\ s7 = "open" /\ s7' = "closing"
      BY <2>1, NativeCloses
    <2> QED BY <2>1, <2>2 DEF Subscription!SubTypeOK, Subscription!CloserOwns,
        Subscription!LoopOwns, Subscription!NoReader, Subscription!ReaderGoes
  <1> USE DEF Subscription!SubTypeOK, Subscription!CloserOwns, Subscription!LoopOwns,
    Subscription!NoReader, Subscription!ReaderGoes
  <1>4. CASE Subscription!LoopEnds \/ Subscription!NoReaderToClose \/ Subscription!Retries
    <2>1. Subscription!NativeInv' /\ UNCHANGED <<s7, s15, s16, s17>>
      BY <1>4, NativeUnchanged DEF Subscription!LoopEnds, Subscription!NoReaderToClose, Subscription!Retries
    <2>2. \/ s14 = "top" /\ s16 /\ s14' = "done"
          \/ s14 = "finally" /\ ~s15 /\ s14' = "delay"
          \/ s14 = "delay" /\ s16 /\ s14' = "done"
          \/ s14 = "delay" /\ ~s16 /\ s14' = "top"
      BY <1>4 DEF Subscription!LoopEnds, Subscription!NoReaderToClose, Subscription!Retries
    <2>3. Subscription!SubTypeOK'
      BY <2>1, <2>2
    <2>4. Subscription!CloserOwns'
      BY <2>1, <2>2
    <2>5. Subscription!LoopOwns'
      BY <2>1, <2>2
    <2> QED BY <2>1, <2>3, <2>4, <2>5
  <1>5. CASE Subscription!ReaderCreated \/ Subscription!CreateFailed \/ Subscription!LoopReaderClosed
    <2>1. Subscription!NativeInv' /\ UNCHANGED <<s7, s16, s17>>
      BY <1>5, NativeUnchanged DEF Subscription!ReaderCreated, Subscription!CreateFailed,
        Subscription!LoopReaderClosed
    <2>2. \/ s14 = "creating" /\ s7 = "open" /\ s15' = TRUE /\ s14' = "loop"
          \/ s14 = "creating" /\ s7 = "failed" /\ s15' = s15 /\ s14' = "finally"
          \/ s14 = "closing" /\ s7 = "closed" /\ s15' = s15 /\ s14' = "delay"
      BY <1>5 DEF Subscription!ReaderCreated, Subscription!CreateFailed, Subscription!LoopReaderClosed,
        Subscription!ReaderGone
    <2>3. Subscription!SubTypeOK'
      BY <2>1, <2>2
    <2>4. Subscription!CloserOwns'
      BY <2>1, <2>2
    <2>5. Subscription!LoopOwns'
      BY <2>1, <2>2
    <2> QED BY <2>1, <2>3, <2>4, <2>5
  <1>6. CASE Subscription!StopsPulling \/ Subscription!CallsBack \/ Subscription!CallbackReturns \/ Subscription!PullOver
    BY <1>6, NativeUnchanged DEF Subscription!StopsPulling, Subscription!CallsBack,
      Subscription!CallbackReturns, Subscription!PullOver
  <1> QED BY <1>1, <1>2, <1>3, <1>4, <1>5, <1>6 DEF Subscription!LoopStep

\* A step of close(), and the signal.
LEMMA SubClose ==
  ASSUME Subscription!SubInv, Subscription!Aborts \/ Subscription!Close \/ Subscription!CloseStep
  PROVE  Subscription!SubInv'
  <1> USE DEF Subscription!SubInv
  <1>1. CASE Subscription!Aborts
    BY <1>1, NativeUnchanged DEF Subscription!Aborts, Subscription!SubTypeOK, Subscription!CloserOwns,
      Subscription!LoopOwns, Subscription!NoReader, Subscription!ReaderGoes
  <1>2. CASE Subscription!Close /\ s15
    <2>1. /\ s17 = "none" /\ s16' = TRUE /\ s15' = FALSE /\ Subscription!CloseReader /\ s17' = "reader"
          /\ s14' = s14
      BY <1>2 DEF Subscription!Close
    <2>2. Subscription!NativeInv' /\ s7 = "open" /\ s7' = "closing"
      BY <2>1, NativeCloses
    <2> QED BY <1>2, <2>1, <2>2 DEF Subscription!SubTypeOK, Subscription!CloserOwns,
        Subscription!LoopOwns, Subscription!NoReader, Subscription!ReaderGoes
  <1>3. CASE Subscription!Close /\ ~s15
    BY <1>3, NativeUnchanged DEF Subscription!Close, Subscription!SubTypeOK, Subscription!CloserOwns,
      Subscription!LoopOwns, Subscription!NoReader, Subscription!ReaderGoes
  <1>4. CASE Subscription!CloseStep
    BY <1>4, NativeUnchanged DEF Subscription!CloseStep, Subscription!CloseGoesOn,
      Subscription!CloseReturned, Subscription!RunOver, Subscription!SubTypeOK, Subscription!CloserOwns,
      Subscription!LoopOwns, Subscription!NoReader, Subscription!ReaderGoes
  <1> QED BY <1>1, <1>2, <1>3, <1>4

\* A step of the connection, the reader or the daemon.
LEMMA SubConnection ==
  ASSUME Subscription!SubInv, Subscription!Connection, UNCHANGED Subscription!subVars
  PROVE  Subscription!SubInv'
  <1> USE DEF Subscription!SubInv
  <1>1. /\ Subscription!NativeInv'
        /\ \/ s7' = s7
           \/ s7 = "opening" /\ s7' \in {"open", "failed"}
           \/ s7 = "closing" /\ s7' = "closed"
    BY NativeCall, NativeSocket, NativeReader, NativeEvent, NativeAnswers DEF Subscription!Connection
  <1>2. UNCHANGED <<s14, s15, s16, s17>>
    BY DEF Subscription!subVars
  <1> QED BY <1>1, <1>2 DEF Subscription!SubTypeOK, Subscription!CloserOwns,
        Subscription!LoopOwns, Subscription!NoReader, Subscription!ReaderGoes

\* Every step of the loop, of `close()` and of the reader keeps the subscription's invariant.
LEMMA SubNext == Subscription!SubInv /\ Subscription!Next => Subscription!SubInv'
  BY SubLoop, SubClose, SubConnection DEF Subscription!Next

\* What the run checks of the subscription follows from its invariant.
LEMMA SubMeans == Subscription!SubInv => Subscription!NothingLeftAfterClose
  <1> SUFFICES ASSUME Subscription!SubInv, s17 = "returned"
               PROVE  /\ s7 \in {"none", "closed", "failed"} /\ ~s4
                      /\ \A id \in Subscription!Ids : ~Subscription!Outstanding(id)
                      /\ s14 = "done"
    BY DEF Subscription!NothingLeftAfterClose
  <1>1. s14 = "done" /\ s7 \in {"none", "closed", "failed"} /\ ~s4 /\ s2 = <<>>
    BY DEF Subscription!SubInv, Subscription!CloserOwns, Subscription!NoReader,
      Subscription!NativeInv, Subscription!Registers
  <1>2. \A id \in Subscription!Ids : ~Subscription!Outstanding(id)
    BY <1>1, ChainedMeans DEF Subscription!SubInv, Subscription!NativeInv, Holds
  <1> QED BY <1>1, <1>2

\* Only the loop makes a reader, at its top, where it has none.
LEMMA SubOneReader == Subscription!SubInv /\ Subscription!Next => Subscription!OneReader
  <1> SUFFICES ASSUME Subscription!SubInv, Subscription!Next, s7 # "opening", s7' = "opening"
               PROVE  s6 /\ ~s4
    BY DEF Subscription!OneReader
  <1> USE DEF Subscription!SubInv
  <1>1. CASE Subscription!CreatesReader
    BY <1>1 DEF Subscription!CreatesReader, Subscription!LoopOwns, Subscription!NoReader,
      Subscription!NativeInv, Subscription!Registers
  <1>2. ASSUME ~Subscription!CreatesReader PROVE FALSE
    <2>1. CASE Subscription!LoopStep
      BY <1>2, <2>1, NativeUnchanged, NativeCloses DEF Subscription!LoopStep, Subscription!LoopEnds,
        Subscription!ReaderCreated, Subscription!CreateFailed, Subscription!Pulls, Subscription!PullEvent,
        Subscription!StopsPulling, Subscription!CallsBack, Subscription!CallbackReturns,
        Subscription!PullOver, Subscription!ClosesReader, Subscription!NoReaderToClose,
        Subscription!LoopReaderClosed, Subscription!Retries
    <2>2. CASE Subscription!Aborts \/ Subscription!Close \/ Subscription!CloseStep
      BY <2>2, NativeUnchanged, NativeCloses DEF Subscription!Aborts, Subscription!Close,
        Subscription!CloseStep, Subscription!CloseGoesOn, Subscription!CloseReturned
    <2>3. CASE Subscription!Connection
      BY <2>3, NativeCall, NativeSocket, NativeReader, NativeEvent, NativeAnswers DEF Subscription!Connection
    <2> QED BY <2>1, <2>2, <2>3 DEF Subscription!Next
  <1> QED BY <1>1, <1>2

-----------------------------------------------------------------------------
(* KEventBrowser.                                                          *)

\* One element leaves the middle of a sequence.
LEMMA ChainWithout ==
  ASSUME NEW T, NEW s \in Seq(T), NEW i \in DOMAIN s, Distinct(s)
  PROVE  LET t == SubSeq(s, 1, i - 1) \o SubSeq(s, i + 1, Len(s))
         IN  /\ t \in Seq(T) /\ Distinct(t)
             /\ \A x \in T : Holds(t, x) <=> (x # s[i] /\ Holds(s, x))
  <1> DEFINE a == SubSeq(s, 1, i - 1)
             b == SubSeq(s, i + 1, Len(s))
             t == a \o b
  <1>1. /\ Len(s) \in Nat /\ i \in 1 .. Len(s) /\ DOMAIN s = 1 .. Len(s)
        /\ \A j \in 1 .. Len(s) : s[j] \in T
    OBVIOUS
  <1>2. a \in Seq(T) /\ Len(a) = i - 1 /\ \A j \in 1 .. i - 1 : a[j] = s[j]
    <2>1. 1 \in Int /\ i - 1 \in Int /\ \A j \in 1 .. i - 1 : s[j] \in T
      BY <1>1
    <2>2. /\ a \in Seq(T) /\ Len(a) = IF 1 <= i - 1 THEN (i - 1) - 1 + 1 ELSE 0
          /\ \A j \in 1 .. (i - 1) - 1 + 1 : a[j] = s[1 + j - 1]
      BY <2>1, SubSeqProperties
    <2> HIDE DEF a
    <2> QED BY <1>1, <2>2
  <1>3. b \in Seq(T) /\ Len(b) = Len(s) - i /\ \A j \in 1 .. Len(s) - i : b[j] = s[i + j]
    <2>1. i + 1 \in Int /\ Len(s) \in Int /\ \A j \in i + 1 .. Len(s) : s[j] \in T
      BY <1>1
    <2>2. /\ b \in Seq(T) /\ Len(b) = IF i + 1 <= Len(s) THEN Len(s) - (i + 1) + 1 ELSE 0
          /\ \A j \in 1 .. Len(s) - (i + 1) + 1 : b[j] = s[i + 1 + j - 1]
      BY <2>1, SubSeqProperties
    <2> HIDE DEF b
    <2>3. Len(b) = Len(s) - i
      BY <1>1, <2>2
    <2>4. ASSUME NEW j \in 1 .. Len(s) - i PROVE b[j] = s[i + j]
      <3>1. j \in 1 .. Len(s) - (i + 1) + 1 /\ i + 1 + j - 1 = i + j
        BY <1>1
      <3> QED BY <2>2, <3>1
    <2> QED BY <2>2, <2>3, <2>4
  <1> HIDE DEF a, b
  <1>4. /\ t \in Seq(T) /\ Len(t) = Len(s) - 1 /\ DOMAIN t = 1 .. Len(s) - 1
        /\ \A j \in 1 .. Len(s) - 1 : t[j] = IF j <= i - 1 THEN s[j] ELSE s[j + 1]
    <2>1. /\ t \in Seq(T) /\ Len(t) = Len(a) + Len(b)
          /\ \A j \in 1 .. Len(a) + Len(b) : t[j] = IF j <= Len(a) THEN a[j] ELSE b[j - Len(a)]
      BY <1>2, <1>3, ConcatProperties
    <2> HIDE DEF t
    <2>2. Len(t) = Len(s) - 1 /\ DOMAIN t = 1 .. Len(s) - 1
      BY <1>1, <1>2, <1>3, <2>1, LenProperties
    <2>3. ASSUME NEW j \in 1 .. Len(s) - 1 PROVE t[j] = IF j <= i - 1 THEN s[j] ELSE s[j + 1]
      <3>1. CASE j <= i - 1
        BY <1>1, <1>2, <1>3, <2>1, <3>1
      <3>2. CASE j > i - 1
        <4>1. t[j] = b[j - (i - 1)] /\ j - (i - 1) \in 1 .. Len(s) - i
          BY <1>1, <1>2, <1>3, <2>1, <3>2
        <4>2. b[j - (i - 1)] = s[i + (j - (i - 1))] /\ i + (j - (i - 1)) = j + 1
          BY <1>1, <1>3, <4>1
        <4> QED BY <1>1, <3>2, <4>1, <4>2
      <3> QED BY <1>1, <3>1, <3>2
    <2> QED BY <2>1, <2>2, <2>3
  <1> HIDE DEF t
  <1>5. Distinct(t)
    <2>1. ASSUME NEW j \in DOMAIN t, NEW k \in DOMAIN t, j # k PROVE t[j] # t[k]
      <3>1. PICK m \in DOMAIN s : t[j] = s[m] /\ m = IF j <= i - 1 THEN j ELSE j + 1
        BY <1>1, <1>4
      <3>2. PICK n \in DOMAIN s : t[k] = s[n] /\ n = IF k <= i - 1 THEN k ELSE k + 1
        BY <1>1, <1>4
      <3>3. m # n
        BY <1>1, <1>4, <2>1, <3>1, <3>2
      <3> QED BY <3>1, <3>2, <3>3 DEF Distinct
    <2> QED BY <2>1 DEF Distinct
  <1>6. ASSUME NEW x \in T PROVE Holds(t, x) <=> (x # s[i] /\ Holds(s, x))
    <2>1. ASSUME NEW j \in DOMAIN t, t[j] = x PROVE x # s[i] /\ Holds(s, x)
      <3>1. PICK m \in DOMAIN s : t[j] = s[m] /\ m # i
        BY <1>1, <1>4, SMTT(20)
      <3> QED BY <2>1, <3>1 DEF Distinct, Holds
    <2>2. ASSUME NEW m \in DOMAIN s, s[m] = x, x # s[i] PROVE Holds(t, x)
      <3>1. CASE m <= i - 1
        <4>1. m \in DOMAIN t /\ t[m] = x
          BY <1>1, <1>4, <2>2, <3>1
        <4> QED BY <4>1 DEF Holds
      <3>2. CASE m > i - 1
        <4>1. m # i
          BY <2>2
        <4>2. m - 1 \in DOMAIN t /\ t[m - 1] = x
          BY <1>1, <1>4, <2>2, <3>2, <4>1
        <4> QED BY <4>2 DEF Holds
      <3> QED BY <1>1, <3>1, <3>2
    <2> QED BY <2>1, <2>2 DEF Holds
  <1> QED BY <1>4, <1>5, <1>6 DEF t, a, b

\* A prefix, element by element.
LEMMA PrefixMeans ==
  ASSUME NEW T, NEW s \in Seq(T), NEW t \in Seq(T)
  PROVE  Browser!IsPrefix(s, t) <=> (Len(s) <= Len(t) /\ \A i \in 1 .. Len(s) : s[i] = t[i])
  <1>1. SubSeq(s, 1, Len(s)) = s
    BY SubSeqFull
  <1>2. CASE Len(s) <= Len(t)
    <2> DEFINE u == SubSeq(t, 1, Len(s))
    <2>1. 1 \in Int /\ Len(s) \in Int /\ Len(s) \in Nat /\ \A i \in 1 .. Len(s) : t[i] \in T
      BY <1>2, LenProperties
    <2>2. /\ u \in Seq(T) /\ Len(u) = IF 1 <= Len(s) THEN Len(s) - 1 + 1 ELSE 0
          /\ \A i \in 1 .. Len(s) - 1 + 1 : u[i] = t[1 + i - 1]
      BY <2>1, SubSeqProperties
    <2> HIDE DEF u
    <2>3. Len(u) = Len(s) /\ \A i \in 1 .. Len(s) : u[i] = t[i]
      BY <2>1, <2>2
    <2>4. s = u <=> \A i \in 1 .. Len(s) : s[i] = t[i]
      BY <2>2, <2>3, SeqEqual
    <2> QED BY <1>1, <1>2, <2>4 DEF Browser!IsPrefix, u
  <1> QED BY <1>2 DEF Browser!IsPrefix

\* A prefix stays a prefix when more is put behind the whole.
LEMMA PrefixGrows ==
  ASSUME NEW T, NEW s \in Seq(T), NEW t \in Seq(T), NEW u \in Seq(T), Browser!IsPrefix(s, t)
  PROVE  Browser!IsPrefix(s, t \o u)
  <1> DEFINE v == t \o u
  <1>1. /\ v \in Seq(T) /\ Len(v) = Len(t) + Len(u) /\ Len(t) \in Nat /\ Len(u) \in Nat /\ Len(s) \in Nat
        /\ \A i \in 1 .. Len(t) + Len(u) : v[i] = IF i <= Len(t) THEN t[i] ELSE u[i - Len(t)]
    BY ConcatProperties, LenProperties
  <1> HIDE DEF v
  <1>2. Len(s) <= Len(t) /\ \A i \in 1 .. Len(s) : s[i] = t[i]
    BY PrefixMeans
  <1>3. Len(s) <= Len(v) /\ \A i \in 1 .. Len(s) : s[i] = v[i]
    BY <1>1, <1>2
  <1>4. Browser!IsPrefix(s, v)
    BY <1>1, <1>3, PrefixMeans
  <1> QED BY <1>4 DEF v

\* A sequence is a prefix of itself.
LEMMA PrefixOfItself ==
  ASSUME NEW T, NEW s \in Seq(T)
  PROVE  Browser!IsPrefix(s, s)
  BY PrefixMeans, LenProperties

\* Who takes an event from the queue, or adds one to it, keeps the order.
LEMMA TakesFirst ==
  ASSUME NEW T, NEW s \in Seq(T), NEW q \in Seq(T), q # <<>>
  PROVE  Append(s, Head(q)) \o Tail(q) = s \o q
  <1> DEFINE h == <<Head(q)>>
  <1>1. h \in Seq(T) /\ Tail(q) \in Seq(T) /\ Append(s, Head(q)) = s \o h
    OBVIOUS
  <1>2. h \o Tail(q) = q
    OBVIOUS
  <1> HIDE DEF h
  <1> QED BY <1>1, <1>2, ConcatAssociative

\* Appending is putting a sequence of one behind.
LEMMA AppendsOne ==
  ASSUME NEW T, NEW s \in Seq(T), NEW e \in T
  PROVE  Append(s, e) = s \o <<e>>
  OBVIOUS

\* An event put behind the queue is put behind what was taken and is queued.
LEMMA QueueGrows ==
  ASSUME NEW e \in Nat, s11 \in Seq(Nat), s6 \in Seq(Nat)
  PROVE  s11 \o Append(s6, e) = (s11 \o s6) \o <<e>>
  <1> DEFINE h == <<e>>
  <1>1. h \in Seq(Nat)
    OBVIOUS
  <1>2. Append(s6, e) = s6 \o h
    BY AppendsOne, Zenon
  <1> HIDE DEF h
  <1>3. s11 \o (s6 \o h) = (s11 \o s6) \o h
    BY <1>1, ConcatAssociative, SMTT(20)
  <1> QED BY <1>2, <1>3, Zenon DEF h

\* An event that goes to a waiter at once is put behind what was taken.
LEMMA GivesLast ==
  ASSUME NEW T, NEW s \in Seq(T), NEW e \in T
  PROVE  Append(s, e) \o <<>> = (s \o <<>>) \o <<e>>
  <1> DEFINE h == <<e>>
  <1>1. h \in Seq(T) /\ Append(s, e) = s \o h /\ Append(s, e) \in Seq(T)
    OBVIOUS
  <1> HIDE DEF h
  <1>2. Append(s, e) \o <<>> = (s \o <<>>) \o h
    BY <1>1, ConcatEmptySeq
  <1> QED BY <1>2 DEF h

\* The queue, and the stream.
QueueInv ==
  /\ s6 \in Seq(Nat) /\ s11 \in Seq(Nat) /\ s7 \in Seq(Pullers) /\ s8 \in BOOLEAN
  /\ s10 \in [Pullers -> {"idle", "waits", "event", "nothing"}]
  /\ s12 \in [count : Nat, events : Seq(Nat)]
  /\ Browser!IsPrefix(s11 \o s6, s12.events)
  /\ ~s8 => s11 \o s6 = s12.events
  /\ s7 # <<>> => s6 = <<>>
  /\ s8 => \A p \in Pullers : s10[p] # "waits"
  /\ Distinct(s7)
  /\ \A p \in Pullers : Holds(s7, p) <=> s10[p] = "waits"

StreamInv ==
  /\ s1 \in {"token", "fetch", "ack", "closing", "ready", "failed"}
  /\ s2 \in {"none", "open", "cancelling", "over"}
  /\ s3 \in BOOLEAN /\ s4 \in BOOLEAN /\ s5 \in BOOLEAN
  /\ s9 \in {"none", "waits", "returned"}
  /\ Browser!StreamFollows

\* The queue of waiters is the pulls that wait, each of them held once.
LEMMA WaitersMean ==
  ASSUME NEW P, NEW s \in Seq(P), NEW f
  PROVE  Browser!ToSet(s) = {p \in P : f[p] = "waits"} <=> \A p \in P : Holds(s, p) <=> f[p] = "waits"
  <1>1. \A x \in Browser!ToSet(s) : x \in P
    <2>1. \A i \in DOMAIN s : s[i] \in P
      OBVIOUS
    <2> QED BY <2>1 DEF Browser!ToSet
  <1>2. \A x : x \in Browser!ToSet(s) <=> Holds(s, x)
    BY Zenon DEF Browser!ToSet, Holds
  <1> QED BY <1>1, <1>2

\* The browser reader's invariant, in its two halves.
LEMMA BrowserMeans == Browser!IInv <=> QueueInv /\ StreamInv
  <1>1. s7 \in Seq(Pullers) =>
          (Browser!ToSet(s7) = {p \in Pullers : s10[p] = "waits"} <=> \A p \in Pullers : Holds(s7, p) <=> s10[p] = "waits")
    BY WaitersMean
  <1> QED BY <1>1 DEF Browser!IInv, Browser!TypeOK, Browser!PullsFollowStream, Browser!WaitsOnce,
        QueueInv, StreamInv, Distinct

\* The same of the next state.
LEMMA BrowserMeansNext == Browser!IInv' <=> QueueInv' /\ StreamInv'
  <1>1. s7' \in Seq(Pullers) =>
          (Browser!ToSet(s7') = {p \in Pullers : s10'[p] = "waits"} <=> \A p \in Pullers : Holds(s7', p) <=> s10'[p] = "waits")
    BY WaitersMean
  <1> QED BY <1>1 DEF Browser!IInv, Browser!TypeOK, Browser!PullsFollowStream, Browser!WaitsOnce,
        QueueInv, StreamInv, Distinct

\* Nothing of the queue moves.
LEMMA QueueSame ==
  ASSUME QueueInv, UNCHANGED <<s6, s7, s8, s10, s11>>, s12' \in [count : Nat, events : Seq(Nat)],
         s12'.events = s12.events
  PROVE  QueueInv'
  BY DEF QueueInv

\* Who waits is told that the queue is closed.
LEMMA QueueClosed ==
  ASSUME QueueInv, Browser!MarkClosed, UNCHANGED s12
  PROVE  QueueInv'
  <1>1. /\ s8' = TRUE /\ s7' = <<>> /\ s6' = s6 /\ s11' = s11
        /\ s10' = [p \in Pullers |-> IF s10[p] = "waits" THEN "nothing" ELSE s10[p]]
    BY DEF Browser!MarkClosed
  <1>2. /\ s10' \in [Pullers -> {"idle", "waits", "event", "nothing"}]
        /\ \A p \in Pullers : s10'[p] # "waits"
    BY <1>1 DEF QueueInv
  <1>3. Distinct(s7') /\ (\A p \in Pullers : ~Holds(s7', p)) /\ s7' \in Seq(Pullers)
    BY <1>1 DEF Distinct, Holds
  <1> QED BY <1>1, <1>2, <1>3 DEF QueueInv

\* An event comes: a waiting pull takes it, or it is queued.
LEMMA QueuePush ==
  ASSUME QueueInv, NEW e \in Nat, Browser!Push(e), UNCHANGED s8,
         s12' \in [count : Nat, events : Seq(Nat)], s12'.events = s12.events \o <<e>>
  PROVE  QueueInv'
  <1> DEFINE one == <<e>>
  <1>1. one \in Seq(Nat) /\ s12.events \in Seq(Nat) /\ s11 \o s6 \in Seq(Nat) /\ s12'.events \in Seq(Nat)
    BY ConcatProperties DEF QueueInv
  <1>2. s12'.events = s12.events \o one
    OBVIOUS
  <1> HIDE DEF one
  <1>3. CASE s8
    <2>1. UNCHANGED <<s6, s7, s10, s11>>
      BY <1>3 DEF Browser!Push, Browser!queue
    <2>2. Browser!IsPrefix(s11 \o s6, s12.events \o one)
      BY <1>1, PrefixGrows DEF QueueInv
    <2>3. Browser!IsPrefix(s11' \o s6', s12'.events)
      BY <1>2, <2>1, <2>2
    <2> QED BY <1>3, <2>1, <2>3 DEF QueueInv
  <1>4. CASE ~s8 /\ s7 # <<>>
    <2>1. /\ s10' = [s10 EXCEPT ![Head(s7)] = "event"] /\ s7' = Tail(s7) /\ s11' = Append(s11, e)
          /\ s6' = s6 /\ s6 = <<>>
      BY <1>4 DEF Browser!Push, QueueInv
    <2>2. s11' \o s6' = s12'.events /\ s11' \in Seq(Nat)
      <3>1. s11' \o <<>> = (s11 \o <<>>) \o <<e>>
        <4>1. s11 \in Seq(Nat) /\ s6 \in Seq(Nat)
          BY DEF QueueInv
        <4> QED BY <2>1, <4>1, GivesLast, Zenon
      <3>2. s11' \in Seq(Nat)
        BY <2>1 DEF QueueInv
      <3> QED BY <1>2, <1>4, <2>1, <3>1, <3>2 DEF QueueInv, one
    <2>3. Browser!IsPrefix(s11' \o s6', s12'.events)
      BY <1>1, <2>2, PrefixOfItself
    <2>4. /\ s7' \in Seq(Pullers) /\ Distinct(s7') /\ Head(s7) \in Pullers
          /\ \A x \in Pullers : Holds(s7', x) <=> (x # Head(s7) /\ Holds(s7, x))
      BY <1>4, <2>1, ChainShorter DEF QueueInv
    <2>5. /\ s10' \in [Pullers -> {"idle", "waits", "event", "nothing"}]
          /\ \A p \in Pullers : s10'[p] = "waits" <=> (p # Head(s7) /\ s10[p] = "waits")
      BY <2>1, <2>4 DEF QueueInv
    <2>6. \A p \in Pullers : Holds(s7', p) <=> s10'[p] = "waits"
      BY <2>4, <2>5 DEF QueueInv
    <2> QED BY <1>4, <2>1, <2>2, <2>3, <2>4, <2>5, <2>6 DEF QueueInv
  <1>5. CASE ~s8 /\ s7 = <<>>
    <2>1. s6' = Append(s6, e) /\ UNCHANGED <<s7, s10, s11>>
      BY <1>5 DEF Browser!Push
    <2>2. s11' \o s6' = s12'.events /\ s6' \in Seq(Nat)
      <3>1. s11 \o Append(s6, e) = (s11 \o s6) \o <<e>>
        <4>1. s11 \in Seq(Nat) /\ s6 \in Seq(Nat)
          BY DEF QueueInv
        <4> QED BY <4>1, QueueGrows, Zenon
      <3>2. s6' \in Seq(Nat)
        BY <2>1 DEF QueueInv
      <3> QED BY <1>2, <1>5, <2>1, <3>1, <3>2 DEF QueueInv, one
    <2>3. Browser!IsPrefix(s11' \o s6', s12'.events)
      BY <1>1, <2>2, PrefixOfItself
    <2> QED BY <1>5, <2>1, <2>2, <2>3 DEF QueueInv
  <1> QED BY <1>3, <1>4, <1>5 DEF QueueInv

\* A pull takes the oldest event, finds nothing, or waits.
LEMMA QueuePull ==
  ASSUME QueueInv, NEW p \in Pullers, NEW now \in BOOLEAN, Browser!PullEvent(p, now)
  PROVE  QueueInv'
  <1>1. s10[p] # "waits" /\ UNCHANGED <<s8, s12>>
    BY DEF Browser!PullEvent
  <1>2. ASSUME NEW v \in {"event", "nothing"}, s10' = [s10 EXCEPT ![p] = v]
        PROVE  /\ s10' \in [Pullers -> {"idle", "waits", "event", "nothing"}]
               /\ \A x \in Pullers : s10'[x] = "waits" <=> s10[x] = "waits"
    BY <1>1, <1>2 DEF QueueInv
  <1>3. CASE s6 # <<>>
    <2>1. /\ s11' = Append(s11, Head(s6)) /\ s6' = Tail(s6) /\ s10' = [s10 EXCEPT ![p] = "event"]
          /\ s7' = s7 /\ s7 = <<>>
      BY <1>3 DEF Browser!PullEvent, QueueInv
    <2>2. s11' \o s6' = s11 \o s6
      BY <1>3, <2>1, TakesFirst DEF QueueInv
    <2>3. s11' \in Seq(Nat) /\ s6' \in Seq(Nat)
      BY <1>3, <2>1 DEF QueueInv
    <2> QED BY <1>1, <1>2, <2>1, <2>2, <2>3 DEF QueueInv
  <1>4. CASE s6 = <<>> /\ (s8 \/ now)
    <2>1. s10' = [s10 EXCEPT ![p] = "nothing"] /\ UNCHANGED <<s6, s7, s11>>
      BY <1>4 DEF Browser!PullEvent
    <2> QED BY <1>1, <1>2, <2>1 DEF QueueInv
  <1>5. CASE s6 = <<>> /\ ~s8 /\ ~now
    <2>1. s10' = [s10 EXCEPT ![p] = "waits"] /\ s7' = Append(s7, p) /\ UNCHANGED <<s6, s11>>
      BY <1>5 DEF Browser!PullEvent
    <2>2. /\ s7' \in Seq(Pullers) /\ Distinct(s7')
          /\ \A x \in Pullers : Holds(s7', x) <=> (x = p \/ Holds(s7, x))
      BY <1>1, <2>1, ChainLonger DEF QueueInv
    <2>3. /\ s10' \in [Pullers -> {"idle", "waits", "event", "nothing"}]
          /\ \A x \in Pullers : s10'[x] = "waits" <=> (x = p \/ s10[x] = "waits")
      BY <2>1 DEF QueueInv
    <2> QED BY <1>1, <1>5, <2>1, <2>2, <2>3 DEF QueueInv
  <1> QED BY <1>3, <1>4, <1>5 DEF QueueInv

\* A waiting pull is told that its time is over.
LEMMA QueueTimesOut ==
  ASSUME QueueInv, NEW p \in Pullers, Browser!PullTimesOut(p)
  PROVE  QueueInv'
  <1>1. /\ s10[p] = "waits" /\ s10' = [s10 EXCEPT ![p] = "nothing"] /\ s7' = Browser!LeavesQueue(p)
        /\ UNCHANGED <<s6, s8, s11, s12>>
    BY DEF Browser!PullTimesOut
  <1> DEFINE i == CHOOSE i \in DOMAIN s7 : s7[i] = p
  <1>2. i \in DOMAIN s7 /\ s7[i] = p
    BY <1>1 DEF QueueInv, Holds
  <1>3. s7' = SubSeq(s7, 1, i - 1) \o SubSeq(s7, i + 1, Len(s7))
    BY <1>1 DEF Browser!LeavesQueue
  <1> HIDE DEF i
  <1>4. /\ s7' \in Seq(Pullers) /\ Distinct(s7')
        /\ \A x \in Pullers : Holds(s7', x) <=> (x # p /\ Holds(s7, x))
    <2> DEFINE t == SubSeq(s7, 1, i - 1) \o SubSeq(s7, i + 1, Len(s7))
    <2>1. s7 \in Seq(Pullers) /\ Distinct(s7) BY DEF QueueInv
    <2>2. /\ t \in Seq(Pullers) /\ Distinct(t)
          /\ \A x \in Pullers : Holds(t, x) <=> (x # s7[i] /\ Holds(s7, x))
      BY <1>2, <2>1, ChainWithout
    <2>3. s7' = t BY <1>3
    <2> HIDE DEF t
    <2> QED BY <1>2, <2>2, <2>3, Zenon
  <1>5. /\ s10' \in [Pullers -> {"idle", "waits", "event", "nothing"}]
        /\ \A x \in Pullers : s10'[x] = "waits" <=> (x # p /\ s10[x] = "waits")
    BY <1>1 DEF QueueInv
  <1>6. s7' # <<>> => s6' = <<>>
    BY <1>1 DEF QueueInv, Holds
  <1> QED BY <1>1, <1>4, <1>5, <1>6 DEF QueueInv

\* The token is read, the gateway asked.
LEMMA BrowserInit == Browser!Init => Browser!IInv
  <1> SUFFICES ASSUME Browser!Init PROVE QueueInv /\ StreamInv
    BY BrowserMeans
  <1>1. /\ s1 = "token" /\ s2 = "none" /\ s3 = FALSE /\ s4 = FALSE /\ s5 \in BOOLEAN /\ s6 = <<>>
        /\ s7 = <<>> /\ s8 = FALSE /\ s9 = "none" /\ s11 = <<>>
        /\ s10 = [p \in Pullers |-> "idle"] /\ s12 = [count |-> 0, events |-> <<>>]
    BY DEF Browser!Init
  <1>2. s11 \o s6 = <<>> /\ s6 \in Seq(Nat) /\ s11 \in Seq(Nat) /\ s7 \in Seq(Pullers)
    BY <1>1
  <1>3. s12 \in [count : Nat, events : Seq(Nat)] /\ s12.events = <<>>
    BY <1>1
  <1>4. Browser!IsPrefix(s11 \o s6, s12.events)
    BY <1>2, <1>3, PrefixOfItself
  <1>5. Distinct(s7) /\ \A p \in Pullers : Holds(s7, p) <=> s10[p] = "waits"
    BY <1>1 DEF Distinct, Holds
  <1>6. QueueInv
    BY <1>1, <1>2, <1>3, <1>4, <1>5 DEF QueueInv
  <1>7. StreamInv
    BY <1>1 DEF StreamInv, Browser!StreamFollows
  <1> QED BY <1>6, <1>7

\* A frame of the stream.
LEMMA BrowserFrame ==
  ASSUME QueueInv, StreamInv, NEW kind \in {"ack", "event", "error", "odd"}, Browser!FrameArrives(kind)
  PROVE  QueueInv' /\ StreamInv'
  <1>1. s2 = "open" /\ UNCHANGED <<s1, s5, s8, s9>>
    BY DEF Browser!FrameArrives
  <1>2. s12.count \in Nat /\ s12.events \in Seq(Nat)
    BY DEF QueueInv
  <1>3. ASSUME Browser!Counted(<<>>), UNCHANGED Browser!queue PROVE QueueInv'
    <2>1. UNCHANGED <<s6, s7, s10, s11>> /\ s12.events \o <<>> = s12.events
      BY <1>2, <1>3, ConcatEmptySeq DEF Browser!queue
    <2>2. s12' = [count |-> s12.count + 1, events |-> s12.events]
      BY <1>3, <2>1 DEF Browser!Counted
    <2> QED BY <1>1, <1>2, <2>1, <2>2, QueueSame
  <1>4. CASE kind = "event"
    <2>1. PICK e \in Nat : Browser!Push(e) /\ Browser!Counted(<<e>>)
      BY <1>2, <1>4 DEF Browser!FrameArrives
    <2>2. UNCHANGED <<s2, s3, s4>>
      BY <1>4 DEF Browser!FrameArrives
    <2> DEFINE one == <<e>>
    <2>3. s12' = [count |-> s12.count + 1, events |-> s12.events \o one] /\ one \in Seq(Nat)
      BY <2>1 DEF Browser!Counted
    <2> HIDE DEF one
    <2>4. s12.events \o one \in Seq(Nat) /\ s12.count + 1 \in Nat
      BY <1>2, <2>3, ConcatProperties
    <2>5. s12' \in [count : Nat, events : Seq(Nat)] /\ s12'.events = s12.events \o one
      BY <2>3, <2>4
    <2>6. QueueInv'
      BY <1>1, <2>1, <2>5, QueuePush DEF one
    <2> QED BY <1>1, <2>2, <2>6 DEF StreamInv, Browser!StreamFollows, Browser!StreamGone
  <1>5. CASE kind \in {"ack", "error", "odd"}
    <2>1. Browser!Counted(<<>>) /\ UNCHANGED Browser!queue
      BY <1>5 DEF Browser!FrameArrives
    <2>2. s3' \in BOOLEAN /\ s4' \in BOOLEAN
      BY <1>5, Zenon DEF Browser!FrameArrives, Browser!Ends, StreamInv
    <2>3. s2' \in {"open", "cancelling"}
      BY <1>1, <1>5 DEF Browser!FrameArrives, Browser!Ends
    <2> QED BY <1>1, <1>3, <2>1, <2>2, <2>3 DEF StreamInv, Browser!StreamFollows, Browser!StreamGone
  <1> QED BY <1>4, <1>5

\* The reader's own steps.
LEMMA BrowserReader ==
  ASSUME QueueInv, StreamInv, Browser!ReaderGoesOn \/ Browser!Fetched
  PROVE  QueueInv' /\ StreamInv'
  <1> USE DEF StreamInv, Browser!StreamFollows, Browser!StreamGone
  <1>1. CASE Browser!TokenFails \/ Browser!FetchFails \/ Browser!AckRefused
    <2>1. /\ Browser!MarkClosed /\ s1' = "closing" /\ s5' = TRUE /\ s8' = TRUE
          /\ UNCHANGED <<s2, s3, s4, s9, s12>> /\ s1 \in {"token", "fetch", "ack"}
      BY <1>1 DEF Browser!TokenFails, Browser!FetchFails, Browser!AckRefused, Browser!CreationFails,
        Browser!MarkClosed
    <2>2. QueueInv'
      BY <2>1, QueueClosed
    <2> QED BY <2>1, <2>2
  <1>2. CASE Browser!StreamOver
    <2>1. /\ Browser!MarkClosed /\ s2 = "cancelling" /\ s2' = "over" /\ s8' = TRUE
          /\ UNCHANGED <<s1, s3, s4, s5, s9, s12>>
      BY <1>2 DEF Browser!StreamOver, Browser!MarkClosed
    <2>2. QueueInv'
      BY <2>1, QueueClosed
    <2> QED BY <2>1, <2>2
  <1>3. CASE Browser!TokenRead \/ Browser!Responds \/ Browser!Acknowledged \/ Browser!CreationThrows
              \/ Browser!CloseReturns
    <2>1. UNCHANGED <<s3, s4, s5, s6, s7, s8, s10, s11, s12>>
      BY <1>3 DEF Browser!TokenRead, Browser!Responds, Browser!Acknowledged, Browser!CreationThrows,
        Browser!CloseReturns, Browser!Rest, Browser!queue
    <2>2. QueueInv'
      BY <2>1, QueueSame DEF QueueInv
    <2>3. \/ s1 = "token" /\ s1' = "fetch" /\ UNCHANGED <<s2, s9>>
          \/ s1 = "fetch" /\ s1' = "ack" /\ s2' = "open" /\ UNCHANGED s9
          \/ s1 = "ack" /\ s1' = "ready" /\ UNCHANGED <<s2, s9>>
          \/ s1 = "closing" /\ s2 \in {"none", "over"} /\ s1' = "failed" /\ UNCHANGED <<s2, s9>>
          \/ s9 = "waits" /\ s2 \in {"none", "over"} /\ s9' = "returned" /\ UNCHANGED <<s1, s2>>
      BY <1>3 DEF Browser!TokenRead, Browser!Responds, Browser!Acknowledged, Browser!CreationThrows,
        Browser!CloseReturns, Browser!Rest
    <2>4. StreamInv'
      BY <2>1, <2>3
    <2> QED BY <2>2, <2>4
  <1> QED BY <1>1, <1>2, <1>3 DEF Browser!ReaderGoesOn, Browser!Fetched

\* The application's steps, and the end of the stream.
LEMMA BrowserOther ==
  ASSUME QueueInv, StreamInv,
         \/ Browser!StreamEnds \/ Browser!Aborts \/ Browser!Close
         \/ \E p \in Pullers : (\E now \in BOOLEAN : Browser!PullEvent(p, now)) \/ Browser!PullTimesOut(p)
  PROVE  QueueInv' /\ StreamInv'
  <1> USE DEF StreamInv, Browser!StreamFollows, Browser!StreamGone
  <1>1. CASE Browser!StreamEnds
    <2>1. s2 = "open" /\ s2' = "cancelling" /\ UNCHANGED <<s1, s4, s5, s6, s7, s8, s9, s10, s11, s12>>
      BY <1>1 DEF Browser!StreamEnds, Browser!Ends, Browser!queue
    <2>2. s3' \in BOOLEAN
      BY <1>1, Zenon DEF Browser!StreamEnds, Browser!Ends
    <2>3. QueueInv'
      BY <2>1, QueueSame DEF QueueInv
    <2> QED BY <2>1, <2>2, <2>3
  <1>2. CASE Browser!Aborts
    <2>1. s5' = TRUE /\ UNCHANGED <<s1, s2, s3, s4, s6, s7, s8, s9, s10, s11, s12>>
      BY <1>2 DEF Browser!Aborts, Browser!Rest, Browser!queue
    <2>2. QueueInv'
      BY <2>1, QueueSame DEF QueueInv
    <2> QED BY <2>1, <2>2
  <1>3. CASE Browser!Close
    <2>1. /\ Browser!MarkClosed /\ s1 = "ready" /\ s9 = "none" /\ s9' = "waits" /\ s5' = TRUE /\ s8' = TRUE
          /\ UNCHANGED <<s1, s2, s3, s4, s12>>
      BY <1>3 DEF Browser!Close, Browser!MarkClosed
    <2>2. QueueInv'
      BY <2>1, QueueClosed
    <2> QED BY <2>1, <2>2
  <1>4. ASSUME NEW p \in Pullers, (\E now \in BOOLEAN : Browser!PullEvent(p, now)) \/ Browser!PullTimesOut(p)
        PROVE  QueueInv' /\ StreamInv'
    <2>1. QueueInv'
      BY <1>4, QueuePull, QueueTimesOut
    <2>2. UNCHANGED <<s1, s2, s3, s4, s5, s8, s9>>
      BY <1>4 DEF Browser!PullEvent, Browser!PullTimesOut
    <2> QED BY <2>1, <2>2
  <1> QED BY <1>1, <1>2, <1>3, <1>4

\* Every step of the browser's reader keeps its invariant.
LEMMA BrowserNext == Browser!IInv /\ Browser!Next => Browser!IInv'
  <1> SUFFICES ASSUME QueueInv, StreamInv, Browser!Next PROVE QueueInv' /\ StreamInv'
    BY BrowserMeans, BrowserMeansNext
  <1> QED BY BrowserFrame, BrowserReader, BrowserOther DEF Browser!Next, Browser!Gateway

\* What the run checks of the browser's reader follows from its invariant.
LEMMA BrowserPromises == Browser!IInv => Browser!PullsFollowStream /\ Browser!NoStreamLeft
  BY DEF Browser!IInv, Browser!StreamFollows, Browser!NoStreamLeft

-----------------------------------------------------------------------------
(* Readers and builds.                                                     *)

KEventInv ==
  /\ part = "native" => Subscription!NativeInv
  /\ part = "subscription" => Subscription!SubInv
  /\ part = "browser" => Browser!IInv

\* The component that a behaviour is of starts in its invariant.
LEMMA KEventInit == Init => KEventInv
  BY NativeInit, SubInit, BrowserInit DEF Init, KEventInv

\* Every step keeps the invariant of the component that a behaviour is of.
LEMMA KEventNext == KEventInv /\ [Next]_all => KEventInv'
  <1> SUFFICES ASSUME KEventInv, [Next]_all PROVE KEventInv'
    OBVIOUS
  <1>1. part' = part
    BY PartSteps
  <1>2. ASSUME part = "native" PROVE Subscription!NativeInv'
    BY <1>2, PartSteps, NativeNext, NativeUnchanged DEF KEventInv
  <1>3. ASSUME part = "subscription" PROVE Subscription!SubInv'
    <2>1. Subscription!Next \/ UNCHANGED Subscription!vars
      BY <1>3, PartSteps
    <2>2. CASE UNCHANGED Subscription!vars
      <3>1. UNCHANGED Subscription!nativeVars /\ UNCHANGED <<s14, s15, s16, s17>>
        BY <2>2 DEF Subscription!vars, Subscription!subVars
      <3> QED BY <1>3, <3>1, NativeUnchanged DEF KEventInv, Subscription!SubInv, Subscription!SubTypeOK,
            Subscription!CloserOwns, Subscription!LoopOwns, Subscription!NoReader, Subscription!ReaderGoes
    <2> QED BY <1>3, <2>1, <2>2, SubNext DEF KEventInv
  <1>4. ASSUME part = "browser" PROVE Browser!IInv'
    <2>1. Browser!Next \/ UNCHANGED Browser!vars
      BY <1>4, PartSteps
    <2>2. CASE UNCHANGED Browser!vars
      <3>1. UNCHANGED <<s1, s2, s3, s4, s5, s6, s7, s8, s9, s10, s11, s12>>
        BY <2>2 DEF Browser!vars
      <3> QED BY <1>4, <3>1, SMTT(20) DEF KEventInv, Browser!IInv, Browser!TypeOK, Browser!PullsFollowStream,
            Browser!WaitsOnce, Browser!StreamFollows, Browser!StreamGone
    <2> QED BY <1>4, <2>1, <2>2, BrowserNext DEF KEventInv
  <1> QED BY <1>1, <1>2, <1>3, <1>4 DEF KEventInv

\* Over a native connection the n-th response is taken by the call it answers, and
\* the events come in the order they were made, none twice; over a stream the pulls
\* return what the stream brought, in its order, and a queued event is never lost
\* while somebody waits: for any number of pullers, however connections break
\* (kevent_client.ts).
THEOREM EventsComeInOrder == Spec => []EventsInOrder
  <1>1. KEventInv => EventsInOrder
    BY NativeMeans, BrowserPromises DEF KEventInv, EventsInOrder
  <1> QED BY <1>1, KEventInit, KEventNext, PTL DEF Spec

\* A reader that was closed or could not be made has no connection, stream or call
\* left, and a subscription whose close() returned neither a reader nor a running
\* loop: wherever close(), the signal and a broken connection meet the loop
\* (KEventClient.subscribe in kevent_client.ts).
THEOREM ClosingLeavesNothing == Spec => []ClosedLeavesNothing
  <1>1. KEventInv => ClosedLeavesNothing
    BY NativeMeans, SubMeans, BrowserPromises DEF KEventInv, ClosedLeavesNothing
  <1> QED BY <1>1, KEventInit, KEventNext, PTL DEF Spec

\* The loop makes a reader only when the last one has closed its connection, and
\* watchControl starts a build only when none runs, of sources no older than those
\* it built last (kevent_client.ts, aiws_ext.ts).
THEOREM OneReaderAndOneBuild == Spec => OneAtATime
  <1> DEFINE Inv == KEventInv /\ WatchInv
             Step == (part = "subscription" => Subscription!OneReader)
                     /\ (part = "watch" => Watch!BuildInOrder)
  <1>1. Init => Inv
    BY KEventInit, WatchStarts
  <1>2. Inv /\ [Next]_all => Inv'
    BY KEventNext, WatchGoesOn
  <1>3. Inv /\ [Next]_all => [Step]_all
    <2> SUFFICES ASSUME Inv, [Next]_all, ~UNCHANGED all PROVE Step
      OBVIOUS
    <2>1. ASSUME part = "subscription" PROVE Subscription!OneReader
      <3>1. Subscription!Next \/ UNCHANGED Subscription!vars
        BY <2>1, PartSteps
      <3>2. CASE UNCHANGED Subscription!vars
        BY <3>2 DEF Subscription!vars, Subscription!nativeVars, Subscription!OneReader
      <3> QED BY <2>1, <3>1, <3>2, SubOneReader DEF KEventInv
    <2>2. ASSUME part = "watch" PROVE Watch!BuildInOrder
      <3>1. Watch!Next \/ UNCHANGED Watch!vars
        BY <2>2, PartSteps
      <3>2. CASE UNCHANGED Watch!vars
        BY <2>2, <3>2 DEF Watch!vars, Watch!BuildInOrder, WatchInv, Watch!IInv, Watch!TypeOK
      <3> QED BY <2>2, <3>1, <3>2, WatchBuilds DEF WatchInv
    <2> QED BY <2>1, <2>2
  <1>4. OneAtATime <=> [][Step]_all
    BY DEF OneAtATime
  <1> QED BY <1>1, <1>2, <1>3, <1>4, PTL DEF Spec
===============================================================================
