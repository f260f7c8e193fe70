--------------------------- MODULE BrowserSession ---------------------------
(***************************************************************************)
(* The session of a Web app (runtime types Browser and AppRuntime) of      *)
(* src/src/runtime.ts and src/src/sdk_core.ts: the in-memory access token  *)
(* of each page, its refresh through POST /sso_refresh (one promise shared *)
(* by every caller, and guarded by authStateRevision), the renewal timer,  *)
(* password login, logout, and the two localStorage records every page of  *)
(* the origin shares: the identity /sso_refresh returned and the user      *)
(* info getAccountInfo answers from.                                       *)
(*                                                                         *)
(* JavaScript runs to completion and drains its microtasks before the next *)
(* network answer or timer: Drained guards those steps.  What the          *)
(* application does (calls, logout, login) may happen between microtasks.  *)
(* The servers (the session cookie, the answers) are external.             *)
(***************************************************************************)
EXTENDS Naturals, FiniteSets, TLC

CONSTANTS
  Tabs,         \* pages of one origin
  Callers,      \* calls of one page that may wait at the same time
  Requests,     \* /sso_refresh requests one page could have outstanding
  Accounts,     \* subjects with an account in the zone
  Externals,    \* subjects that are an external DID
  Kinds,        \* the calls made: getAccountInfo, getCurrentIdentity, token
  AutoRenew,    \* config.autoRenew
  MaxRevision,  \* bound: logins and logouts of one page
  None          \* no token, no record, no answer (null, anonymous)

ASSUME NoneIsNoSubject == None \notin Accounts \cup Externals
ASSUME AccountsAreNotExternal == Accounts \cap Externals = {}
ASSUME RevisionsAreNatural == MaxRevision \in Nat
ASSUME AutoRenewIsAFlag == AutoRenew \in BOOLEAN
ASSUME KindsAreKnown == Kinds \subseteq {"account", "identity", "token"}

Subjects == Accounts \cup Externals

VARIABLES
  token,     \* this.sessionToken of each page: whose, and of which revision
  stale,     \* needsRenew of that token
  revision,  \* this.authStateRevision
  refresh,   \* this.browserRefreshPromise: None, pending, or settled
  request,   \* the /sso_refresh requests in flight
  call,      \* the getAccountInfo, getCurrentIdentity and token calls
  timer,     \* this.renewTimer is set
  tick,      \* the renewal ticks that wait, or that found no token
  login,     \* loginByPassword whose answer is awaited
  leaving,   \* POST /sso_logout sent and not yet received by the server
  identity,  \* localStorage 'buckyos.identity', shared by the pages
  userInfo,  \* localStorage 'user_info', shared by the pages
  cookie     \* the server's session of this browser

vars == <<token, stale, revision, refresh, request, call, timer, tick, login,
          leaving, identity, userInfo, cookie>>

-----------------------------------------------------------------------------
Result == [sub: Subjects \cup {None}, from: 0..MaxRevision]
NoResult == [sub |-> None, from |-> 0]
NoPromise == [stage |-> "none", result |-> NoResult]
Pending == [stage |-> "pending", result |-> NoResult]
Settled(r) == [stage |-> "settled", result |-> r]

Phases == {"idle", "waiting", "ready", "read", "done"}
NoCall == [kind |-> "token", phase |-> "idle", got |-> NoResult, said |-> None]
NoRequest == [stage |-> "unused", from |-> 0, reply |-> None]
Stages == {"unused", "sent", "answered", "failed"}

Init ==
  /\ token = [t \in Tabs |-> NoResult]
  /\ stale = [t \in Tabs |-> FALSE]
  /\ revision = [t \in Tabs |-> 0]
  /\ refresh = [t \in Tabs |-> NoPromise]
  /\ request = [t \in Tabs |-> [q \in Requests |-> NoRequest]]
  /\ call = [t \in Tabs |-> [c \in Callers |-> NoCall]]
  /\ timer = [t \in Tabs |-> FALSE]
  /\ tick = [t \in Tabs |-> {}]
  /\ login = [t \in Tabs |-> None]
  /\ leaving = [t \in Tabs |-> FALSE]
  /\ identity \in Subjects \cup {None}
  /\ userInfo \in Accounts \cup {None}
  /\ cookie \in Subjects \cup {None}

\* ensureBrowserSessionToken returns the token it has: present, not to renew.
Live(t) == token[t].sub # None /\ ~stale[t]

\* No microtask of the page is left to run.
Drained(t) ==
  /\ refresh[t].stage # "settled"
  /\ \A c \in Callers : call[t][c].phase \notin {"ready", "read"}
  /\ "failed" \notin tick[t]

\* Seeded: every caller sends a request of its own.
SharesNothing(t) == FALSE

\* The promise in this.browserRefreshPromise is shared by later callers.
HasPromise(t) == refresh[t].stage # "none"

\* refreshBrowserSessionToken: join the refresh under way or send another,
\* which remembers the revision it was sent under.
JoinOrSend(t) ==
  IF HasPromise(t) THEN UNCHANGED <<refresh, request>>
  ELSE \E q \in Requests :
         /\ request[t][q].stage = "unused"
         /\ request' = [request EXCEPT ![t][q] =
              [stage |-> "sent", from |-> revision[t], reply |-> None]]
         /\ refresh' = [refresh EXCEPT ![t] = Pending]

-----------------------------------------------------------------------------
(* Calls: ensureSessionTokenReady, then what the caller does with it.      *)

\* The call runs up to its first await: it has the token, or waits for it.
CallsSession(t, c, kind) ==
  /\ call[t][c].phase \in {"idle", "done"}
  /\ IF Live(t)
     THEN /\ call' = [call EXCEPT ![t][c] =
                        [kind |-> kind, phase |-> "ready", got |-> token[t],
                         said |-> None]]
          /\ UNCHANGED <<refresh, request>>
     ELSE /\ call' = [call EXCEPT ![t][c] =
                        [kind |-> kind, phase |-> "waiting", got |-> NoResult,
                         said |-> None]]
          /\ JoinOrSend(t)
  /\ UNCHANGED <<token, stale, revision, timer, tick, login, leaving,
                 identity, userInfo, cookie>>

\* startAutoRenewIfNeeded, with the tick it runs at once.
StartsAutoRenew(t) ==
  IF timer[t] \/ ~AutoRenew THEN UNCHANGED <<timer, tick, refresh, request>>
  ELSE /\ timer' = [timer EXCEPT ![t] = TRUE]
       /\ IF Live(t) THEN UNCHANGED <<tick, refresh, request>>
          ELSE /\ tick' = [tick EXCEPT ![t] = @ \cup {"waiting"}]
               /\ JoinOrSend(t)

\* ensureSessionTokenReady goes on with the token it waited for.
SessionTokenReady(t, c) ==
  /\ call[t][c].phase = "ready"
  /\ call' = [call EXCEPT ![t][c].phase = "read"]
  /\ IF call[t][c].got.sub # None THEN StartsAutoRenew(t)
     ELSE UNCHANGED <<timer, tick, refresh, request>>
  /\ UNCHANGED <<token, stale, revision, login, leaving,
                 identity, userInfo, cookie>>

\* getCurrentIdentity: the cached identity, if it is the token's subject.
CurrentIdentity(got) == IF identity = got.sub THEN identity ELSE None

\* getAccountInfo: the cached user info, if there is a token.
AccountInfo(got) == IF got.sub # None THEN userInfo ELSE None

Answers(t, c) ==
  /\ call[t][c].phase = "read"
  /\ LET r == call[t][c] IN
       call' = [call EXCEPT ![t][c].phase = "done",
                            ![t][c].said =
                  CASE r.kind = "identity" -> CurrentIdentity(r.got)
                    [] r.kind = "account" -> AccountInfo(r.got)
                    [] OTHER -> None]
  /\ UNCHANGED <<token, stale, revision, refresh, request, timer, tick, login,
                 leaving, identity, userInfo, cookie>>

-----------------------------------------------------------------------------
(* The answer of /sso_refresh (requestBrowserSessionToken).                *)

\* Seeded: the revision is not compared.
AnyRevision(t, q) == request[t][q].stage # "unused"

Current(t, q) == request[t][q].from = revision[t]
Granted(t, q) == request[t][q].stage = "answered" /\ request[t][q].reply # None
Denied(t, q) == request[t][q].stage = "answered" /\ request[t][q].reply = None

\* The request is over and the promise settles with r.
Settles(t, q, r) ==
  /\ Drained(t)
  /\ request' = [request EXCEPT ![t][q] = NoRequest]
  /\ refresh' = [refresh EXCEPT ![t] = Settled(r)]
  /\ UNCHANGED <<revision, call, timer, tick, login, leaving, cookie>>

\* No token, and so none to renew.
Drops(t) ==
  /\ token' = [token EXCEPT ![t] = NoResult]
  /\ stale' = [stale EXCEPT ![t] = FALSE]

\* Seeded: the user info of the account before stays when an External
\* session is stored.
LeavesUserInfo(s) ==
  /\ identity' = s
  /\ userInfo' = IF s \in Accounts THEN s ELSE userInfo

\* storeBrowserIdentity: an External session has no user info.
Stores(s) ==
  /\ identity' = s
  /\ userInfo' = IF s \in Accounts THEN s ELSE None

RefreshGranted(t, q) ==
  /\ Granted(t, q)
  /\ Current(t, q)
  /\ LET s == request[t][q].reply
         fresh == [sub |-> s, from |-> request[t][q].from] IN
       /\ token' = [token EXCEPT ![t] = fresh]
       /\ stale' = [stale EXCEPT ![t] = FALSE]
       /\ Stores(s)
       /\ Settles(t, q, fresh)

\* validateSessionToken throws (a token of another app): the identity stays.
RefreshMismatched(t, q) ==
  /\ Granted(t, q)
  /\ Current(t, q)
  /\ Drops(t)
  /\ Stores(request[t][q].reply)
  /\ Settles(t, q, NoResult)

\* 401: there is no session, and what was cached about it goes too.
RefreshDenied(t, q) ==
  /\ Denied(t, q)
  /\ Current(t, q)
  /\ Drops(t)
  /\ identity' = None
  /\ userInfo' = None
  /\ Settles(t, q, NoResult)

\* Any other failure, an unreadable answer, or one without an identity.
RefreshFails(t, q) ==
  /\ request[t][q].stage = "failed"
  /\ Current(t, q)
  /\ Drops(t)
  /\ Settles(t, q, NoResult)
  /\ UNCHANGED <<identity, userInfo>>

\* The answer of a request sent before a login or a logout is dropped.
RefreshOutdated(t, q) ==
  /\ request[t][q].stage \in {"answered", "failed"}
  /\ ~Current(t, q)
  /\ Settles(t, q, NoResult)
  /\ UNCHANGED <<token, stale, identity, userInfo>>

\* Seeded: the callers are forgotten when there is no token; a tick that was
\* given none does not stop the timer.
AwaitingAToken(t) ==
  {c \in Callers : call[t][c].phase = "waiting" /\ refresh[t].result.sub # None}
NothingMatters(t) == FALSE

\* Who awaits the promise, and whether it gave them a token.
Awaiting(t) == {c \in Callers : call[t][c].phase = "waiting"}
FoundNothing(t) == refresh[t].result.sub = None

\* refreshBrowserSessionToken's finally: the slot is free again, and every
\* caller that awaits the promise goes on with its result.
RefreshSettled(t) ==
  /\ refresh[t].stage = "settled"
  /\ refresh' = [refresh EXCEPT ![t] = NoPromise]
  /\ call' = [call EXCEPT ![t] = [c \in Callers |->
                IF c \in Awaiting(t)
                THEN [call[t][c] EXCEPT !.phase = "ready", !.got = refresh[t].result]
                ELSE call[t][c]]]
  /\ tick' = [tick EXCEPT ![t] =
                (@ \ {"waiting"}) \cup
                IF "waiting" \in @ /\ FoundNothing(t)
                THEN {"failed"} ELSE {}]
  /\ UNCHANGED <<token, stale, revision, request, timer, login, leaving,
                 identity, userInfo, cookie>>

-----------------------------------------------------------------------------
(* Renewal.                                                                *)

\* setInterval fires; ticks that wait for the same refresh count as one.
TimerFires(t) ==
  /\ timer[t]
  /\ Drained(t)
  /\ ~Live(t)
  /\ tick' = [tick EXCEPT ![t] = @ \cup {"waiting"}]
  /\ JoinOrSend(t)
  /\ UNCHANGED <<token, stale, revision, call, timer, login, leaving,
                 identity, userInfo, cookie>>

\* A tick that was given no token stops the timer, whoever started it.
TickStops(t) ==
  /\ "failed" \in tick[t]
  /\ tick' = [tick EXCEPT ![t] = @ \ {"failed"}]
  /\ timer' = [timer EXCEPT ![t] = FALSE]
  /\ UNCHANGED <<token, stale, revision, refresh, request, call, login,
                 leaving, identity, userInfo, cookie>>

\* The token comes within 30 seconds of its expiry.
TokenExpires(t) ==
  /\ Live(t)
  /\ stale' = [stale EXCEPT ![t] = TRUE]
  /\ UNCHANGED <<token, revision, refresh, request, call, timer, tick, login,
                 leaving, identity, userInfo, cookie>>

-----------------------------------------------------------------------------
(* Login and logout.                                                       *)

LoginByPassword(t, u) ==
  /\ login[t] = None
  /\ login' = [login EXCEPT ![t] = u]
  /\ UNCHANGED <<token, stale, revision, refresh, request, call, timer, tick,
                 leaving, identity, userInfo, cookie>>

\* verify-hub accepts: setSessionToken with a token no page had before.
LoginAccepted(t) ==
  /\ login[t] # None
  /\ Drained(t)
  /\ revision[t] < MaxRevision
  /\ userInfo' = login[t]
  /\ identity' = None
  /\ revision' = [revision EXCEPT ![t] = @ + 1]
  /\ token' = [token EXCEPT ![t] =
                 [sub |-> login[t], from |-> revision[t] + 1]]
  /\ stale' = [stale EXCEPT ![t] = FALSE]
  /\ login' = [login EXCEPT ![t] = None]
  /\ UNCHANGED <<refresh, request, call, timer, tick, leaving, cookie>>

LoginRejected(t) ==
  /\ login[t] # None
  /\ Drained(t)
  /\ login' = [login EXCEPT ![t] = None]
  /\ UNCHANGED <<token, stale, revision, refresh, request, call, timer, tick,
                 leaving, identity, userInfo, cookie>>

\* clearAuthState counts a new revision.
NewRevision(t) == revision' = [revision EXCEPT ![t] = @ + 1]

\* logout(clean): with clean, /sso_logout is sent and not waited for, and
\* the cached records are removed.
Logout(t, clean) ==
  /\ revision[t] < MaxRevision
  /\ IF clean
     THEN /\ leaving' = [leaving EXCEPT ![t] = TRUE]
          /\ identity' = None
          /\ userInfo' = None
     ELSE UNCHANGED <<leaving, identity, userInfo>>
  /\ NewRevision(t)
  /\ Drops(t)
  /\ timer' = [timer EXCEPT ![t] = FALSE]
  /\ UNCHANGED <<refresh, request, call, tick, login, cookie>>

-----------------------------------------------------------------------------
(* The servers.                                                            *)

\* The server answers from its session, or fails, or the network does.
ServerAnswers(t, q) ==
  /\ request[t][q].stage = "sent"
  /\ \/ request' = [request EXCEPT ![t][q].stage = "answered",
                                   ![t][q].reply = cookie]
     \/ request' = [request EXCEPT ![t][q].stage = "failed"]
  /\ UNCHANGED <<token, stale, revision, refresh, call, timer, tick, login,
                 leaving, identity, userInfo, cookie>>

\* /sso_logout arrives, or is lost.
ServerLogsOut(t) ==
  /\ leaving[t]
  /\ leaving' = [leaving EXCEPT ![t] = FALSE]
  /\ cookie' \in {None, cookie}
  /\ UNCHANGED <<token, stale, revision, refresh, request, call, timer, tick,
                 login, identity, userInfo>>

-----------------------------------------------------------------------------
Lands(t, q) ==
  \/ RefreshGranted(t, q)
  \/ RefreshMismatched(t, q)
  \/ RefreshDenied(t, q)
  \/ RefreshFails(t, q)
  \/ RefreshOutdated(t, q)

Runs(t, c) == SessionTokenReady(t, c) \/ Answers(t, c)

Application(t) ==
  \/ \E c \in Callers, k \in Kinds : CallsSession(t, c, k)
  \/ \E u \in Accounts : LoginByPassword(t, u)
  \/ \E clean \in BOOLEAN : Logout(t, clean)

Next ==
  \E t \in Tabs :
    \/ Application(t)
    \/ \E c \in Callers : Runs(t, c)
    \/ \E q \in Requests : Lands(t, q) \/ ServerAnswers(t, q)
    \/ RefreshSettled(t)
    \/ TimerFires(t)
    \/ TickStops(t)
    \/ TokenExpires(t)
    \/ LoginAccepted(t)
    \/ LoginRejected(t)
    \/ ServerLogsOut(t)

Spec == Init /\ [][Next]_vars

-----------------------------------------------------------------------------
(* Properties.                                                             *)

\* Every variable has its type.
TypeOK ==
  /\ token \in [Tabs -> Result]
  /\ stale \in [Tabs -> BOOLEAN]
  /\ revision \in [Tabs -> 0..MaxRevision]
  /\ refresh \in [Tabs -> [stage: {"none", "pending", "settled"},
                           result: Result]]
  /\ request \in [Tabs -> [Requests -> [stage: Stages, from: 0..MaxRevision,
                                        reply: Subjects \cup {None}]]]
  /\ call \in [Tabs -> [Callers -> [kind: {"account", "identity", "token"}, phase: Phases, got: Result,
                                    said: Subjects \cup {None}]]]
  /\ timer \in [Tabs -> BOOLEAN]
  /\ tick \in [Tabs -> SUBSET {"waiting", "failed"}]
  /\ login \in [Tabs -> Accounts \cup {None}]
  /\ leaving \in [Tabs -> BOOLEAN]
  /\ identity \in Subjects \cup {None}
  /\ userInfo \in Accounts \cup {None}
  /\ cookie \in Subjects \cup {None}

\* The token of a page belongs to the session the page is in: whatever order
\* the answers of /sso_refresh, logins and logouts come in, a refresh sent
\* before a login or a logout never replaces what that left behind
\* (authStateRevision, runtime.ts:1018-1060).
SessionOfThisRevision ==
  \A t \in Tabs : token[t].sub # None => token[t].from = revision[t]

\* However many callers and ticks need a token, one /sso_refresh at a time is
\* under way in a page (browserRefreshPromise, runtime.ts:992-1008).
SingleFlight ==
  \A t \in Tabs : \A p, q \in Requests :
    request[t][p].stage # "unused" /\ request[t][q].stage # "unused" => p = q

\* Of getAccountInfo the documentation says as much: the pages of a browser
\* are independent, one may be user A and another user B, and an External
\* session has no account info.  The code reads the shared user_info without
\* comparing it with the token.
AccountIsTheTokens ==
  \A t \in Tabs, c \in Callers :
    call[t][c].phase = "done" /\ call[t][c].kind = "account"
      => call[t][c].said \in {None, call[t][c].got.sub}

\* What localStorage says of the session is of subject s, or nothing.
RecordsOf(s) == identity \in {None, s} /\ userInfo \in {None, s}

\* A page that has the browser to itself never meets the records of another
\* session than the one its token is of, through any order of refreshes,
\* logins and logouts, an External session after an account's included, and
\* so getAccountInfo answers for the token it was given, also when it went on
\* some microtasks later: the token and the two records are replaced
\* together, and a late answer replaces none (runtime.ts:1046-1055,
\* sdk_core.ts:471-491).  With a second page it is false: AccountIsTheTokens.
RecordsFollowSession ==
  \A t \in Tabs : Tabs = {t} =>
    /\ token[t].sub # None => RecordsOf(token[t].sub)
    /\ AccountIsTheTokens

-----------------------------------------------------------------------------
(* Liveness: the event loop runs what is due, the servers answer.          *)

Answered(t) ==
  /\ WF_vars(RefreshSettled(t))
  /\ WF_vars(TickStops(t))
  /\ SF_vars(TimerFires(t))
  /\ \A c \in Callers : WF_vars(Runs(t, c))
  /\ \A q \in Requests :
       WF_vars(ServerAnswers(t, q)) /\ SF_vars(Lands(t, q))

AnsweredSpec == Spec /\ \A t \in Tabs : Answered(t)

\* Every call returns: none is left waiting on a promise that was dropped.
CallsReturn ==
  \A t \in Tabs, c \in Callers :
    call[t][c].phase = "waiting" ~> call[t][c].phase = "done"

\* Renewal without a session ends: the timer does not keep asking the server
\* for a session that is gone (runtime.ts:1103-1105).
RenewalEnds ==
  \A t \in Tabs :
    timer[t] /\ token[t].sub = None ~> ~timer[t] \/ token[t].sub # None

\* No call and no renewal of a page goes on for ever.
CallsAndRenewalEnd == CallsReturn /\ RenewalEnds
-----------------------------------------------------------------------------
\* Pages, calls and requests are interchangeable.
Symmetry ==
  Permutations(Tabs) \cup Permutations(Callers) \cup Permutations(Requests)
=============================================================================
