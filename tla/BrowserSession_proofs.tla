----------------------- MODULE BrowserSession_proofs -----------------------
(***************************************************************************)
(* Theorems about BrowserSession, for any number of pages, callers,        *)
(* subjects, logins and logouts.  The argument for SingleFlight: a request *)
(* is in flight only while the promise is pending (OneRequest), and only   *)
(* an empty slot sends one.  SessionOfThisRevision needs nothing else: a   *)
(* token is stored under the revision it was asked for, and every new      *)
(* revision stores another token or none.  RecordsFollowSession looks past *)
(* the token, at what is still on its way with one: the settled promise    *)
(* and the calls it woke (OnTheWay).  Both are gone before the next answer *)
(* or login can store other records.                                       *)
(***************************************************************************)
EXTENDS BrowserSession, TLAPS

\* The requests of a page, in the state its promise is in.
OneRequest ==
  \A t \in Tabs :
    refresh[t].stage # "pending" => \A q \in Requests : request[t][q].stage = "unused"

\* A token that a page's promise or a call still holds is of the records.
OnTheWay ==
  \A t \in Tabs : Tabs = {t} =>
    /\ refresh[t].stage = "settled" /\ refresh[t].result.sub # None
         => RecordsOf(refresh[t].result.sub)
    /\ \A c \in Callers :
         call[t][c].phase \in {"ready", "read"} /\ call[t][c].got.sub # None
           => RecordsOf(call[t][c].got.sub)

IInv ==
  /\ TypeOK
  /\ SessionOfThisRevision
  /\ SingleFlight
  /\ OneRequest
  /\ RecordsFollowSession
  /\ OnTheWay

\* The initial state satisfies the invariant.
THEOREM InitIInv == Init => IInv
  BY RevisionsAreNatural
  DEF Init, IInv, TypeOK, SessionOfThisRevision, SingleFlight, OneRequest, RecordsFollowSession,
      AccountIsTheTokens, OnTheWay, Result, NoResult, NoPromise, NoRequest, NoCall, Stages, Phases, Subjects

-----------------------------------------------------------------------------
(* What the operators of the module preserve.                              *)

PromiseType == refresh \in [Tabs -> [stage: {"none", "pending", "settled"}, result: Result]]
RequestType ==
  request \in [Tabs -> [Requests -> [stage: Stages, from: 0..MaxRevision,
                                     reply: Subjects \cup {None}]]]

\* The constants of the model are of their types.
LEMMA Values ==
  /\ NoResult \in Result
  /\ NoPromise \in [stage: {"none", "pending", "settled"}, result: Result]
  /\ Pending \in [stage: {"none", "pending", "settled"}, result: Result]
  /\ NoRequest \in [stage: Stages, from: 0..MaxRevision, reply: Subjects \cup {None}]
  /\ \A r \in Result : Settled(r) \in [stage: {"none", "pending", "settled"}, result: Result]
  BY RevisionsAreNatural
  DEF NoResult, Result, NoPromise, Pending, NoRequest, Settled, Stages

\* A caller that needs a token joins the promise or, when there is none and
\* so no request either, sends one.
LEMMA Joining ==
  ASSUME IInv, NEW t \in Tabs, JoinOrSend(t)
  PROVE  PromiseType' /\ RequestType' /\ SingleFlight' /\ OneRequest'
  <1>1. CASE HasPromise(t)
    BY <1>1 DEF JoinOrSend, IInv, TypeOK, PromiseType, RequestType, SingleFlight, OneRequest
  <1>2. CASE ~HasPromise(t)
    <2> PICK q \in Requests :
          /\ request' = [request EXCEPT ![t][q] =
               [stage |-> "sent", from |-> revision[t], reply |-> None]]
          /\ refresh' = [refresh EXCEPT ![t] = Pending]
      BY <1>2 DEF JoinOrSend
    <2>1. \A p \in Requests : request[t][p].stage = "unused"
      BY <1>2 DEF HasPromise, IInv, OneRequest
    <2>2. PromiseType' BY Values DEF IInv, TypeOK, PromiseType
    <2>3. RequestType' BY DEF IInv, TypeOK, RequestType, Stages
    <2>4. SingleFlight' BY <2>1 DEF IInv, TypeOK, SingleFlight
    <2>5. OneRequest' BY DEF IInv, TypeOK, OneRequest, Pending
    <2> QED BY <2>2, <2>3, <2>4, <2>5
  <1> QED BY <1>1, <1>2

\* No promise of the page gives anyone a token that it did not have.
GivesNothing ==
  \A t \in Tabs : refresh'[t].stage = "settled" /\ refresh'[t].result.sub # None
                   => refresh'[t] = refresh[t]

\* A request that is joined or sent settles nothing.
LEMMA JoiningGives ==
  ASSUME PromiseType, NEW t \in Tabs, JoinOrSend(t) \/ UNCHANGED refresh
  PROVE  GivesNothing
  BY DEF PromiseType, JoinOrSend, Pending, GivesNothing

\* The answered request is over; there was no other one.
LEMMA Settling ==
  ASSUME IInv, NEW t \in Tabs, NEW q \in Requests, NEW r \in Result, Settles(t, q, r),
         request[t][q].stage # "unused"
  PROVE  PromiseType' /\ RequestType' /\ SingleFlight' /\ OneRequest'
  <1>1. PromiseType' BY Values DEF Settles, IInv, TypeOK, PromiseType
  <1>2. RequestType' BY Values DEF Settles, IInv, TypeOK, RequestType
  <1>3. \A p \in Requests : p # q => request[t][p].stage = "unused"
    BY DEF IInv, SingleFlight
  <1>4. SingleFlight' BY <1>3 DEF Settles, IInv, TypeOK, SingleFlight, NoRequest
  <1>5. OneRequest' BY <1>3 DEF Settles, IInv, TypeOK, OneRequest, NoRequest
  <1> QED BY <1>1, <1>2, <1>4, <1>5

\* A step that changes neither the promises nor the requests.
LEMMA PromisesStay ==
  ASSUME IInv, UNCHANGED <<refresh, request>>
  PROVE  PromiseType' /\ RequestType' /\ SingleFlight' /\ OneRequest'
  BY DEF IInv, TypeOK, PromiseType, RequestType, SingleFlight, OneRequest

Promises == PromiseType /\ RequestType /\ SingleFlight /\ OneRequest

SessionType ==
  /\ token \in [Tabs -> Result]
  /\ stale \in [Tabs -> BOOLEAN]
  /\ revision \in [Tabs -> 0..MaxRevision]

Session == SessionType /\ SessionOfThisRevision

CallType ==
  call \in [Tabs -> [Callers -> [kind: {"account", "identity", "token"}, phase: Phases,
                                 got: Result, said: Subjects \cup {None}]]]

Records == RecordsFollowSession /\ OnTheWay

RestType ==
  /\ timer \in [Tabs -> BOOLEAN]
  /\ tick \in [Tabs -> SUBSET {"waiting", "failed"}]
  /\ login \in [Tabs -> Accounts \cup {None}]
  /\ leaving \in [Tabs -> BOOLEAN]
  /\ identity \in Subjects \cup {None}
  /\ userInfo \in Accounts \cup {None}
  /\ cookie \in Subjects \cup {None}

\* The invariant, by the parts of the state that actions change together.
LEMMA Parts == IInv <=> Promises /\ Session /\ CallType /\ Records /\ RestType
  BY DEF IInv, TypeOK, Promises, PromiseType, RequestType, Session, SessionType, CallType, Records,
         RestType

\* The parts make the invariant, after a step as before it.
LEMMA PartsAfter == Promises' /\ Session' /\ CallType' /\ Records' /\ RestType' => IInv'
  BY DEF IInv, TypeOK, Promises, PromiseType, RequestType, Session, SessionType, CallType, Records,
         RestType

\* Frame conditions of the parts.
LEMMA SessionStays == Session /\ UNCHANGED <<token, stale, revision>> => Session'
  BY DEF Session, SessionType, SessionOfThisRevision

\* Calls that no step touches keep their type.
LEMMA CallsStay == CallType /\ UNCHANGED call => CallType'
  BY DEF CallType

\* Timers, logins and the shared records keep their types.
LEMMA RestStays ==
  RestType /\ UNCHANGED <<timer, tick, login, leaving, identity, userInfo, cookie>> => RestType'
  BY DEF RestType

\* What localStorage says after the step is of subject s, or nothing.
StoredOf(s) == identity' \in {None, s} /\ userInfo' \in {None, s}

\* A step that gives no page another token or record, though it may take
\* them, and no call anything new.
LEMMA RecordsStay ==
  ASSUME Records, UNCHANGED call,
         identity' \in {None, identity}, userInfo' \in {None, userInfo},
         \A t \in Tabs : token'[t].sub \in {None, token[t].sub},
         GivesNothing
  PROVE  Records'
  <1>2. RecordsFollowSession'
    BY DEF Records, RecordsFollowSession, AccountIsTheTokens, RecordsOf
  <1>3. OnTheWay' BY DEF Records, OnTheWay, GivesNothing, RecordsOf
  <1> QED BY <1>2, <1>3 DEF Records

\* With one page, drained: nothing is on the way, and what it knows of the
\* session may be replaced.
LEMMA RecordsStored ==
  ASSUME CallType, Records, NEW t \in Tabs, Drained(t), UNCHANGED call,
         Tabs = {t} /\ token'[t].sub # None => StoredOf(token'[t].sub),
         refresh'[t].stage = "settled" /\ refresh'[t].result.sub # None
           => StoredOf(refresh'[t].result.sub)
  PROVE  Records'
  <1>1. \A u \in Tabs : Tabs = {u} => u = t OBVIOUS
  <1>2. RecordsFollowSession'
    BY <1>1 DEF Records, RecordsFollowSession, AccountIsTheTokens, RecordsOf, StoredOf
  <1>3. OnTheWay' BY <1>1 DEF OnTheWay, Drained, RecordsOf, StoredOf
  <1> QED BY <1>2, <1>3 DEF Records

\* A call takes the token it was given, or answers with what is of it.
LEMMA CallMoves ==
  ASSUME CallType, Records, NEW t \in Tabs, NEW c \in Callers, NEW r,
         r \in [kind: {"account", "identity", "token"}, phase: Phases, got: Result,
                said: Subjects \cup {None}],
         Tabs = {t} /\ r.phase \in {"ready", "read"} /\ r.got.sub # None
           => RecordsOf(r.got.sub),
         Tabs = {t} /\ r.phase = "done" /\ r.kind = "account" => r.said \in {None, r.got.sub},
         call' = [call EXCEPT ![t][c] = r],
         UNCHANGED <<token, identity, userInfo>>, GivesNothing
  PROVE  CallType' /\ Records'
  <1>1. CallType' BY DEF CallType
  <1>3. \A u \in Tabs, d \in Callers :
          call'[u][d] = IF u = t /\ d = c THEN r ELSE call[u][d]
    BY DEF CallType
  <1>4. AccountIsTheTokens' \/ \A u \in Tabs : Tabs # {u}
    BY <1>3 DEF Records, RecordsFollowSession, AccountIsTheTokens
  <1>5. RecordsFollowSession' BY <1>4 DEF Records, RecordsFollowSession, RecordsOf
  <1>6. OnTheWay' BY <1>3 DEF Records, OnTheWay, GivesNothing, RecordsOf
  <1> QED BY <1>1, <1>5, <1>6 DEF Records

\* Dropping the token leaves nothing that could be of another revision.
LEMMA Dropping ==
  ASSUME Session, NEW t \in Tabs, Drops(t), UNCHANGED revision
  PROVE  Session'
  <1>1. SessionType' BY Values DEF Drops, Session, SessionType
  <1>2. SessionOfThisRevision'
    BY DEF Drops, Session, SessionType, SessionOfThisRevision, NoResult
  <1> QED BY <1>1, <1>2 DEF Session

\* Storing a session writes records of its subject.
LEMMA StoringType ==
  ASSUME NEW s \in Subjects, Stores(s)
  PROVE  identity' \in Subjects \cup {None} /\ userInfo' \in Accounts \cup {None}
  BY DEF Stores

-----------------------------------------------------------------------------
(* One lemma per group of actions.                                         *)

\* A call joins the pending refresh or starts one.
LEMMA CallStep ==
  ASSUME IInv, NEW t \in Tabs, NEW c \in Callers, NEW k \in Kinds, CallsSession(t, c, k)
  PROVE  IInv'
  <1>0. Promises /\ Session /\ CallType /\ Records /\ RestType BY Parts
  <1>1. k \in {"account", "identity", "token"} BY KindsAreKnown
  <1>2. Session' BY <1>0, SessionStays DEF CallsSession
  <1>3. RestType' BY <1>0 DEF CallsSession, RestType
  <1>4. Promises'
    <2>1. CASE Live(t) BY <2>1, PromisesStay DEF CallsSession, Promises
    <2>2. CASE ~Live(t) BY <2>2, Joining DEF CallsSession, Promises
    <2> QED BY <2>1, <2>2
  <1>g. GivesNothing BY <1>0, JoiningGives DEF CallsSession, Promises
  <1>5. CallType' /\ Records'
    <2>1. CASE Live(t)
      <3> DEFINE r == [kind |-> k, phase |-> "ready", got |-> token[t], said |-> None]
      <3>1. call' = [call EXCEPT ![t][c] = r] BY <2>1 DEF CallsSession
      <3>2. token[t] \in Result BY <1>0 DEF Session, SessionType
      <3>3. r \in [kind: {"account", "identity", "token"}, phase: Phases, got: Result,
                   said: Subjects \cup {None}]
        BY <3>2, <1>1 DEF Phases
      <3>4. r.phase # "done" /\ r.got = token[t] OBVIOUS
      <3>5. Tabs = {t} /\ r.got.sub # None => RecordsOf(r.got.sub)
        BY <3>4, <1>0 DEF Records, RecordsFollowSession
      <3> HIDE DEF r
      <3> QED BY <3>1, <3>3, <3>4, <3>5, <1>0, <1>g, CallMoves DEF CallsSession
    <2>2. CASE ~Live(t)
      <3> DEFINE r == [kind |-> k, phase |-> "waiting", got |-> NoResult, said |-> None]
      <3>1. call' = [call EXCEPT ![t][c] = r] BY <2>2 DEF CallsSession
      <3>3. r \in [kind: {"account", "identity", "token"}, phase: Phases, got: Result,
                   said: Subjects \cup {None}]
        BY Values, <1>1 DEF Phases
      <3>4. r.phase \notin {"ready", "read", "done"} OBVIOUS
      <3> HIDE DEF r
      <3> QED BY <3>1, <3>3, <3>4, <1>0, <1>g, CallMoves DEF CallsSession
    <2> QED BY <2>1, <2>2
  <1> QED BY <1>2, <1>3, <1>4, <1>5, Parts, PartsAfter

\* A woken call answers with what the token and the records say.
LEMMA RunStep ==
  ASSUME IInv, NEW t \in Tabs, NEW c \in Callers, Runs(t, c)
  PROVE  IInv'
  <1>0. Promises /\ Session /\ CallType /\ Records /\ RestType BY Parts
  <1>c. call[t][c] \in [kind: {"account", "identity", "token"}, phase: Phases, got: Result,
                       said: Subjects \cup {None}]
    BY <1>0 DEF CallType
  <1>g. GivesNothing
    BY <1>0, JoiningGives DEF Runs, SessionTokenReady, StartsAutoRenew, Answers, Promises
  <1>1. CASE SessionTokenReady(t, c)
    <2>1. Session' BY <1>0, <1>1, SessionStays DEF SessionTokenReady
    <2>2. CallType' /\ Records'
      <3> DEFINE r == [call[t][c] EXCEPT !.phase = "read"]
      <3>1. call' = [call EXCEPT ![t][c] = r] BY <1>1, <1>0 DEF SessionTokenReady, CallType
      <3>2. r \in [kind: {"account", "identity", "token"}, phase: Phases, got: Result,
                   said: Subjects \cup {None}]
        BY <1>c DEF Phases
      <3>3. r.phase = "read" /\ r.got = call[t][c].got BY <1>c
      <3>4. Tabs = {t} /\ r.got.sub # None => RecordsOf(r.got.sub)
        BY <3>3, <1>0, <1>1 DEF SessionTokenReady, Records, OnTheWay
      <3>5. UNCHANGED <<token, identity, userInfo>> BY <1>1 DEF SessionTokenReady
      <3> HIDE DEF r
      <3> QED BY <3>1, <3>2, <3>3, <3>4, <3>5, <1>0, <1>g, CallMoves
    <2>3. CASE call[t][c].got.sub # None /\ ~timer[t] /\ AutoRenew /\ ~Live(t)
      <3>1. JoinOrSend(t) BY <2>3, <1>1 DEF SessionTokenReady, StartsAutoRenew
      <3>2. Promises' BY <3>1, Joining DEF Promises
      <3>3. /\ timer' = [timer EXCEPT ![t] = TRUE]
            /\ tick' = [tick EXCEPT ![t] = @ \cup {"waiting"}]
        BY <2>3, <1>1 DEF SessionTokenReady, StartsAutoRenew
      <3>4. tick' \in [Tabs -> SUBSET {"waiting", "failed"}] BY <3>3, <1>0 DEF RestType
      <3>5. timer' \in [Tabs -> BOOLEAN] BY <3>3, <1>0 DEF RestType
      <3>6. RestType' BY <3>4, <3>5, <1>1, <1>0 DEF SessionTokenReady, RestType
      <3> QED BY <3>2, <3>6, <2>1, <2>2, PartsAfter
    <2>4. CASE ~(call[t][c].got.sub # None /\ ~timer[t] /\ AutoRenew /\ ~Live(t))
      <3>1. UNCHANGED <<refresh, request, tick>>
        BY <2>4, <1>1 DEF SessionTokenReady, StartsAutoRenew
      <3>2. Promises' BY <3>1, PromisesStay DEF Promises
      <3>3. RestType' BY <2>4, <1>1, <1>0, <3>1 DEF SessionTokenReady, StartsAutoRenew, RestType
      <3> QED BY <3>2, <3>3, <2>1, <2>2, PartsAfter
    <2> QED BY <2>3, <2>4
  <1>2. CASE Answers(t, c)
    <2>1. Session' BY <1>0, <1>2, SessionStays DEF Answers
    <2>2. RestType' BY <1>0, <1>2 DEF Answers, RestType
    <2>3. Promises' BY <1>2, PromisesStay DEF Answers, Promises
    <2>4. CallType' /\ Records'
      <3> DEFINE o == call[t][c]
                 said == CASE o.kind = "identity" -> CurrentIdentity(o.got)
                           [] o.kind = "account" -> AccountInfo(o.got)
                           [] OTHER -> None
                 r == [o EXCEPT !.phase = "done", !.said = said]
      <3>1. call' = [call EXCEPT ![t][c] = r] BY <1>2, <1>0 DEF Answers, CallType
      <3>2. said \in Subjects \cup {None}
        BY <1>0 DEF CurrentIdentity, AccountInfo, RestType, Subjects
      <3>3. Tabs = {t} /\ o.kind = "account" => said \in {None, o.got.sub}
        BY <1>0, <1>2 DEF Answers, AccountInfo, Records, OnTheWay, RecordsOf
      <3>4. /\ r \in [kind: {"account", "identity", "token"}, phase: Phases, got: Result,
                      said: Subjects \cup {None}]
            /\ r.phase = "done" /\ r.kind = o.kind /\ r.got = o.got /\ r.said = said
        <4> HIDE DEF said
        <4> QED BY <1>c, <3>2 DEF Phases
      <3>5. Tabs = {t} /\ r.kind = "account" => r.said \in {None, r.got.sub} BY <3>3, <3>4
      <3>6. UNCHANGED <<token, identity, userInfo>> BY <1>2 DEF Answers
      <3>7. r \in [kind: {"account", "identity", "token"}, phase: Phases, got: Result,
                   said: Subjects \cup {None}] /\ r.phase = "done"
        BY <3>4
      <3> HIDE DEF o, said, r
      <3> QED BY <3>1, <3>5, <3>6, <3>7, <1>0, <1>g, CallMoves
    <2> QED BY <2>1, <2>2, <2>3, <2>4, PartsAfter
  <1> QED BY <1>1, <1>2 DEF Runs

\* An answer of /sso_refresh is stored only under the revision it was asked for.
LEMMA LandStep ==
  ASSUME IInv, NEW t \in Tabs, NEW q \in Requests, Lands(t, q)
  PROVE  IInv'
  <1>0. Promises /\ Session /\ CallType /\ Records /\ RestType BY Parts
  <1>q. request[t][q] \in [stage: Stages, from: 0..MaxRevision, reply: Subjects \cup {None}]
    BY <1>0 DEF Promises, RequestType
  <1>d. Drops(t) => token'[t].sub = None BY <1>0 DEF Drops, Session, SessionType, NoResult
  <1>n. NoResult.sub = None BY DEF NoResult
  <1>1. ASSUME NEW r \in Result, Settles(t, q, r), request[t][q].stage # "unused",
               identity' \in Subjects \cup {None}, userInfo' \in Accounts \cup {None}, Session',
               Tabs = {t} /\ token'[t].sub # None => StoredOf(token'[t].sub),
               r.sub # None => StoredOf(r.sub)
        PROVE  IInv'
    <2>1. Promises' BY <1>1, Settling DEF Promises
    <2>2. CallType' BY <1>1, <1>0, CallsStay DEF Settles
    <2>3. RestType' BY <1>1, <1>0 DEF Settles, RestType
    <2>4. refresh'[t] = Settled(r) BY <1>1, <1>0 DEF Settles, Promises, PromiseType
    <2>5. refresh'[t].result = r BY <2>4 DEF Settled
    <2>6. Records' BY <1>0, <1>1, <2>5, RecordsStored DEF Settles
    <2> QED BY <2>1, <2>2, <2>3, <2>6, <1>1, PartsAfter
  <1>2. CASE RefreshGranted(t, q)
    <2> DEFINE s == request[t][q].reply
               fresh == [sub |-> s, from |-> request[t][q].from]
    <2>1. request[t][q].stage # "unused" /\ s \in Subjects BY <1>2, <1>q DEF RefreshGranted, Granted
    <2>2. fresh \in Result BY <2>1, <1>q DEF Result
    <2>3. /\ token' = [token EXCEPT ![t] = fresh] /\ stale' = [stale EXCEPT ![t] = FALSE]
          /\ Stores(s) /\ Settles(t, q, fresh)
      BY <1>2 DEF RefreshGranted
    <2>4. fresh.from = revision[t] /\ revision' = revision
      BY <1>2, <2>3 DEF RefreshGranted, Current, Settles
    <2> HIDE DEF s, fresh
    <2>5. SessionType' BY <2>2, <2>3, <2>4, <1>0 DEF Session, SessionType
    <2>6. SessionOfThisRevision'
      BY <2>3, <2>4, <1>0 DEF Session, SessionType, SessionOfThisRevision
    <2>7. Session' BY <2>5, <2>6 DEF Session
    <2>8. StoredOf(s) BY <2>3, NoneIsNoSubject DEF Stores, StoredOf
    <2>9. token'[t] = fresh /\ fresh.sub = s BY <2>3, <1>0 DEF Session, SessionType, fresh
    <2> QED BY <1>1, <2>1, <2>2, <2>3, <2>7, <2>8, <2>9, StoringType
  <1>3. CASE RefreshMismatched(t, q)
    <2>1. request[t][q].stage # "unused" /\ request[t][q].reply \in Subjects
      BY <1>3, <1>q DEF RefreshMismatched, Granted
    <2>2. Stores(request[t][q].reply) /\ Settles(t, q, NoResult) /\ Drops(t)
      BY <1>3 DEF RefreshMismatched
    <2>3. Session' BY <2>2, <1>0, Dropping DEF Settles
    <2> QED BY <1>1, <1>d, <1>n, <2>1, <2>2, <2>3, StoringType, Values
  <1>4. CASE RefreshDenied(t, q)
    <2>1. request[t][q].stage # "unused" BY <1>4 DEF RefreshDenied, Denied
    <2>2. Settles(t, q, NoResult) /\ Drops(t) /\ identity' = None /\ userInfo' = None
      BY <1>4 DEF RefreshDenied
    <2>3. Session' BY <2>2, <1>0, Dropping DEF Settles
    <2> QED BY <1>1, <1>d, <1>n, <2>1, <2>2, <2>3, Values
  <1>5. CASE RefreshFails(t, q)
    <2>1. request[t][q].stage # "unused" BY <1>5 DEF RefreshFails
    <2>2. Settles(t, q, NoResult) /\ Drops(t) /\ UNCHANGED <<identity, userInfo>>
      BY <1>5 DEF RefreshFails
    <2>3. Session' BY <2>2, <1>0, Dropping DEF Settles
    <2> QED BY <1>0, <1>1, <1>d, <1>n, <2>1, <2>2, <2>3, Values DEF RestType
  <1>6. CASE RefreshOutdated(t, q)
    <2>1. request[t][q].stage # "unused" BY <1>6 DEF RefreshOutdated
    <2>2. Settles(t, q, NoResult) /\ UNCHANGED <<token, stale, identity, userInfo>>
      BY <1>6 DEF RefreshOutdated
    <2>3. Session' BY <2>2, <1>0, SessionStays DEF Settles
    <2>4. Tabs = {t} /\ token'[t].sub # None => StoredOf(token'[t].sub)
      BY <2>2, <1>0 DEF Records, RecordsFollowSession, RecordsOf, StoredOf
    <2> QED BY <1>0, <1>1, <1>n, <2>4, <2>1, <2>2, <2>3, Values DEF RestType
  <1> QED BY <1>2, <1>3, <1>4, <1>5, <1>6 DEF Lands

\* The callers of a settled promise get its result, and the slot is free.
LEMMA SettledStep ==
  ASSUME IInv, NEW t \in Tabs, RefreshSettled(t)
  PROVE  IInv'
  <1>0. Promises /\ Session /\ CallType /\ Records /\ RestType BY Parts
  <1>1. Session' BY <1>0, SessionStays DEF RefreshSettled
  <1>2. RestType'
    <2>1. tick' \in [Tabs -> SUBSET {"waiting", "failed"}] BY <1>0 DEF RefreshSettled, RestType
    <2> QED BY <2>1, <1>0 DEF RefreshSettled, RestType
  <1>3. Promises'
    <2>1. PromiseType' BY <1>0, Values DEF RefreshSettled, Promises, PromiseType
    <2>2. RequestType' /\ SingleFlight'
      BY <1>0 DEF RefreshSettled, Promises, RequestType, SingleFlight
    <2>3. \A p \in Requests : request[t][p].stage = "unused"
      BY <1>0 DEF RefreshSettled, Promises, OneRequest
    <2>4. OneRequest'
      BY <2>3, <1>0 DEF RefreshSettled, Promises, PromiseType, OneRequest
    <2> QED BY <2>1, <2>2, <2>4 DEF Promises
  <1>4. CallType' /\ Records'
    <2> DEFINE CallRec == [kind: {"account", "identity", "token"}, phase: Phases, got: Result,
                           said: Subjects \cup {None}]
    <2>1. refresh[t].result \in Result BY <1>0 DEF Promises, PromiseType
    <2>2. ASSUME NEW u \in Tabs, NEW c \in Callers
          PROVE  /\ call[u][c] \in CallRec
                 /\ \/ call'[u][c] = call[u][c]
                    \/ call'[u][c] = [call[u][c] EXCEPT !.phase = "ready",
                                                      !.got = refresh[t].result]
      BY <1>0 DEF RefreshSettled, CallType
    <2>3. ASSUME NEW u \in Tabs, NEW c \in Callers
          PROVE  /\ call'[u][c] \in CallRec
                 /\ \/ call'[u][c] = call[u][c]
                    \/ /\ call'[u][c].phase = "ready"
                       /\ call'[u][c].got = refresh[t].result
      <3>1. call[u][c] \in CallRec BY <2>2
      <3>2. [call[u][c] EXCEPT !.phase = "ready", !.got = refresh[t].result] \in CallRec
        BY <3>1, <2>1 DEF Phases
      <3>3. [call[u][c] EXCEPT !.phase = "ready", !.got = refresh[t].result].phase = "ready"
        BY <3>1
      <3>4. [call[u][c] EXCEPT !.phase = "ready", !.got = refresh[t].result].got
              = refresh[t].result
        BY <3>1
      <3> HIDE DEF CallRec
      <3> QED BY <3>1, <3>2, <3>3, <3>4, <2>2
    <2>4. /\ DOMAIN call' = Tabs
          /\ call' = [u \in Tabs |-> call'[u]]
          /\ \A u \in Tabs : call'[u] = [c \in Callers |-> call'[u][c]]
      BY <1>0 DEF RefreshSettled, CallType
    <2>5. CallType' BY <2>3, <2>4 DEF CallType
    <2>6. RecordsFollowSession'
      <3>1. UNCHANGED <<token, identity, userInfo>> BY DEF RefreshSettled
      <3>2. \A u \in Tabs, c \in Callers :
              call'[u][c].phase = "done" => call'[u][c] = call[u][c]
        BY <2>3
      <3> QED BY <3>1, <3>2, <1>0
            DEF Records, RecordsFollowSession, AccountIsTheTokens, RecordsOf
    <2>7. ASSUME NEW u \in Tabs, Tabs = {u}, NEW c \in Callers,
                 call'[u][c].phase \in {"ready", "read"}, call'[u][c].got.sub # None
          PROVE  StoredOf(call'[u][c].got.sub)
      <3>1. u = t /\ refresh[t].stage = "settled" /\ UNCHANGED <<identity, userInfo>>
        BY <2>7 DEF RefreshSettled
      <3> QED BY <3>1, <2>3, <2>7, <1>0 DEF Records, OnTheWay, RecordsOf, StoredOf
    <2>8. \A u \in Tabs : Tabs = {u} => refresh'[u].stage # "settled"
      BY <1>0 DEF RefreshSettled, Promises, PromiseType, NoPromise
    <2>9. OnTheWay' BY <2>7, <2>8 DEF OnTheWay, RecordsOf, StoredOf
    <2> QED BY <2>5, <2>6, <2>9 DEF Records
  <1> QED BY <1>1, <1>2, <1>3, <1>4, PartsAfter

\* The renewal timer shares the refresh of the calls.
LEMMA RenewalStep ==
  ASSUME IInv, NEW t \in Tabs, TimerFires(t) \/ TickStops(t) \/ TokenExpires(t)
  PROVE  IInv'
  <1>0. Promises /\ Session /\ CallType /\ Records /\ RestType BY Parts
  <1>1. CASE TimerFires(t)
    <2>1. Promises' BY <1>1, Joining DEF TimerFires, Promises
    <2>2. Session' /\ CallType' BY <1>1, <1>0, SessionStays, CallsStay DEF TimerFires
    <2>4. Records'
      BY <1>1, <1>0, JoiningGives, RecordsStay DEF TimerFires, Promises
    <2>3. RestType' BY <1>1, <1>0 DEF TimerFires, RestType
    <2> QED BY <2>1, <2>2, <2>3, <2>4, PartsAfter
  <1>2. CASE TickStops(t)
    <2>1. Promises' BY <1>2, PromisesStay DEF TickStops, Promises
    <2>2. Session' /\ CallType' BY <1>2, <1>0, SessionStays, CallsStay DEF TickStops
    <2>4. Records' BY <1>2, <1>0, RecordsStay DEF TickStops, GivesNothing
    <2>3. RestType' BY <1>2, <1>0 DEF TickStops, RestType
    <2> QED BY <2>1, <2>2, <2>3, <2>4, PartsAfter
  <1>3. CASE TokenExpires(t)
    <2>1. Promises' BY <1>3, PromisesStay DEF TokenExpires, Promises
    <2>2. CallType' /\ RestType' BY <1>3, <1>0, RestStays, CallsStay DEF TokenExpires
    <2>4. Records' BY <1>3, <1>0, RecordsStay DEF TokenExpires, GivesNothing
    <2>3. Session' BY <1>3, <1>0 DEF TokenExpires, Session, SessionType, SessionOfThisRevision
    <2> QED BY <2>1, <2>2, <2>3, <2>4, PartsAfter
  <1> QED BY <1>1, <1>2, <1>3

\* A login stores its token under a new revision.
LEMMA LoginStep ==
  ASSUME IInv, NEW t \in Tabs,
         \/ \E u \in Accounts : LoginByPassword(t, u)
         \/ LoginAccepted(t)
         \/ LoginRejected(t)
  PROVE  IInv'
  <1>0. Promises /\ Session /\ CallType /\ Records /\ RestType BY Parts
  <1>1. ASSUME NEW u \in Accounts, LoginByPassword(t, u) PROVE IInv'
    <2>1. Promises' BY <1>1, PromisesStay DEF LoginByPassword, Promises
    <2>2. Session' /\ CallType' BY <1>1, <1>0, SessionStays, CallsStay DEF LoginByPassword
    <2>4. Records' BY <1>1, <1>0, RecordsStay DEF LoginByPassword, GivesNothing
    <2>3. RestType' BY <1>1, <1>0 DEF LoginByPassword, RestType
    <2> QED BY <2>1, <2>2, <2>3, <2>4, PartsAfter
  <1>2. CASE LoginAccepted(t)
    <2>1. Promises' BY <1>2, PromisesStay DEF LoginAccepted, Promises
    <2>2. CallType' BY <1>2, <1>0, CallsStay DEF LoginAccepted
    <2>3. login[t] \in Accounts BY <1>2, <1>0 DEF LoginAccepted, RestType
    <2>4. RestType' BY <1>2, <1>0, <2>3 DEF LoginAccepted, RestType
    <2>5. revision[t] + 1 \in 0..MaxRevision
      BY <1>2, <1>0, RevisionsAreNatural DEF LoginAccepted, Session, SessionType
    <2> DEFINE new == [sub |-> login[t], from |-> revision[t] + 1]
    <2>6. new \in Result BY <2>3, <2>5 DEF Result, Subjects
    <2>7. SessionType'
      BY <1>2, <1>0, <2>5, <2>6 DEF LoginAccepted, Session, SessionType
    <2>8. SessionOfThisRevision'
      BY <1>2, <1>0 DEF LoginAccepted, Session, SessionType, SessionOfThisRevision
    <2>9. token'[t] = new BY <1>2, <1>0 DEF LoginAccepted, Session, SessionType
    <2>a. StoredOf(new.sub) BY <1>2 DEF LoginAccepted, StoredOf
    <2>b. Records'
      <3> HIDE DEF new
      <3>1. refresh'[t].stage # "settled" /\ Drained(t) /\ UNCHANGED call
        BY <1>2 DEF LoginAccepted, Drained
      <3> QED BY <3>1, <2>9, <2>a, <1>0, RecordsStored
    <2> QED BY <2>1, <2>2, <2>4, <2>7, <2>8, <2>b, PartsAfter DEF Session
  <1>3. CASE LoginRejected(t)
    <2>1. Promises' BY <1>3, PromisesStay DEF LoginRejected, Promises
    <2>2. Session' /\ CallType' BY <1>3, <1>0, SessionStays, CallsStay DEF LoginRejected
    <2>4. Records' BY <1>3, <1>0, RecordsStay DEF LoginRejected, GivesNothing
    <2>3. RestType' BY <1>3, <1>0 DEF LoginRejected, RestType
    <2> QED BY <2>1, <2>2, <2>3, <2>4, PartsAfter
  <1> QED BY <1>1, <1>2, <1>3

\* A logout leaves no token, under a new revision.
LEMMA LogoutStep ==
  ASSUME IInv, NEW t \in Tabs, NEW clean \in BOOLEAN, Logout(t, clean)
  PROVE  IInv'
  <1>0. Promises /\ Session /\ CallType /\ Records /\ RestType BY Parts
  <1>1. Promises' BY PromisesStay DEF Logout, Promises
  <1>2. CallType' BY <1>0, CallsStay DEF Logout
  <1>6. Records'
    <2>1. \A u \in Tabs : token'[u].sub \in {None, token[u].sub}
      BY <1>0 DEF Logout, Drops, NoResult, Session, SessionType
    <2> QED BY <2>1, <1>0, RecordsStay DEF Logout, GivesNothing
  <1>3. RestType' BY <1>0 DEF Logout, RestType
  <1>4. SessionType'
    BY <1>0, Values, RevisionsAreNatural DEF Logout, Drops, NewRevision, Session, SessionType
  <1>5. SessionOfThisRevision'
    BY <1>0 DEF Logout, Drops, NewRevision, Session, SessionType, SessionOfThisRevision, NoResult
  <1> QED BY <1>1, <1>2, <1>3, <1>4, <1>5, <1>6, PartsAfter DEF Session

\* What the gateway does touches no page.
LEMMA ServerStep ==
  ASSUME IInv, NEW t \in Tabs,
         \/ \E q \in Requests : ServerAnswers(t, q)
         \/ ServerLogsOut(t)
  PROVE  IInv'
  <1>0. Promises /\ Session /\ CallType /\ Records /\ RestType BY Parts
  <1>1. ASSUME NEW q \in Requests, ServerAnswers(t, q) PROVE IInv'
    <2>1. Session' /\ CallType' /\ RestType'
      BY <1>1, <1>0, SessionStays, CallsStay, RestStays DEF ServerAnswers
    <2>7. Records' BY <1>1, <1>0, RecordsStay DEF ServerAnswers, GivesNothing
    <2> DEFINE Req == [stage: Stages, from: 0..MaxRevision, reply: Subjects \cup {None}]
               o == request[t][q]
    <2>a. o \in Req /\ o.stage = "sent" BY <1>1, <1>0 DEF ServerAnswers, Promises, RequestType
    <2>b. \E r \in Req : /\ r.stage # "unused"
                         /\ request' = [request EXCEPT ![t][q] = r]
      <3>1. CASE request' = [request EXCEPT ![t][q].stage = "answered", ![t][q].reply = cookie]
        <4> DEFINE r == [o EXCEPT !.stage = "answered", !.reply = cookie]
        <4>1. r \in Req /\ r.stage = "answered" BY <2>a, <1>0 DEF RestType, Stages
        <4>2. request' = [request EXCEPT ![t][q] = r]
          BY <3>1, <1>0 DEF Promises, RequestType
        <4> QED BY <4>1, <4>2
      <3>2. CASE request' = [request EXCEPT ![t][q].stage = "failed"]
        <4> DEFINE r == [o EXCEPT !.stage = "failed"]
        <4>1. r \in Req /\ r.stage = "failed" BY <2>a DEF Stages
        <4>2. request' = [request EXCEPT ![t][q] = r]
          BY <3>2, <1>0 DEF Promises, RequestType
        <4> QED BY <4>1, <4>2
      <3> QED BY <3>1, <3>2, <1>1 DEF ServerAnswers
    <2> PICK r \in Req : /\ r.stage # "unused"
                         /\ request' = [request EXCEPT ![t][q] = r]
      BY <2>b
    <2>2. RequestType' BY <1>0 DEF Promises, RequestType
    <2>3. PromiseType' BY <1>1, <1>0 DEF ServerAnswers, Promises, PromiseType
    <2>4. \A u \in Tabs, p \in Requests :
            request'[u][p].stage # "unused" <=> request[u][p].stage # "unused"
      BY <2>a, <1>0 DEF Promises, RequestType
    <2>5. SingleFlight' BY <2>4, <1>0 DEF Promises, SingleFlight
    <2>6. OneRequest' BY <2>4, <1>1, <1>0 DEF ServerAnswers, Promises, OneRequest
    <2> QED BY <2>1, <2>2, <2>3, <2>5, <2>6, <2>7, PartsAfter DEF Promises
  <1>2. CASE ServerLogsOut(t)
    <2>1. Promises' BY <1>2, PromisesStay DEF ServerLogsOut, Promises
    <2>2. Session' /\ CallType' BY <1>2, <1>0, SessionStays, CallsStay DEF ServerLogsOut
    <2>4. Records' BY <1>2, <1>0, RecordsStay DEF ServerLogsOut, GivesNothing
    <2>3. RestType' BY <1>2, <1>0 DEF ServerLogsOut, RestType
    <2> QED BY <2>1, <2>2, <2>3, <2>4, PartsAfter
  <1> QED BY <1>1, <1>2

-----------------------------------------------------------------------------
\* Every step preserves the invariant.
LEMMA NextIInv == IInv /\ [Next]_vars => IInv'
  <1> SUFFICES ASSUME IInv, [Next]_vars PROVE IInv' OBVIOUS
  <1>1. CASE UNCHANGED vars
    <2>1. Promises /\ Session /\ CallType /\ Records /\ RestType BY Parts
    <2>2. Promises' BY <1>1, PromisesStay DEF vars, Promises
    <2>3. Session' /\ CallType' /\ RestType'
      BY <1>1, <2>1, SessionStays, CallsStay, RestStays DEF vars
    <2>4. Records' BY <1>1, <2>1, RecordsStay DEF vars, GivesNothing
    <2> QED BY <2>2, <2>3, <2>4, PartsAfter
  <1>2. ASSUME NEW t \in Tabs, Application(t) PROVE IInv'
    BY <1>2, CallStep, LoginStep, LogoutStep DEF Application
  <1>3. ASSUME NEW t \in Tabs, NEW c \in Callers, Runs(t, c) PROVE IInv' BY <1>3, RunStep
  <1>4. ASSUME NEW t \in Tabs, NEW q \in Requests, Lands(t, q) \/ ServerAnswers(t, q) PROVE IInv'
    BY <1>4, LandStep, ServerStep
  <1>5. ASSUME NEW t \in Tabs, RefreshSettled(t) PROVE IInv' BY <1>5, SettledStep
  <1>6. ASSUME NEW t \in Tabs, TimerFires(t) \/ TickStops(t) \/ TokenExpires(t) PROVE IInv'
    BY <1>6, RenewalStep
  <1>7. ASSUME NEW t \in Tabs, LoginAccepted(t) \/ LoginRejected(t) PROVE IInv' BY <1>7, LoginStep
  <1>8. ASSUME NEW t \in Tabs, ServerLogsOut(t) PROVE IInv' BY <1>8, ServerStep
  <1> QED BY <1>1, <1>2, <1>3, <1>4, <1>5, <1>6, <1>7, <1>8 DEF Next

\* The invariant of the pages, their calls and their requests.
THEOREM InductiveInvariant == Spec => []IInv
  BY InitIInv, NextIInv, PTL DEF Spec

\* Every variable keeps its type.
THEOREM TypeCorrect == Spec => []TypeOK
  <1>1. IInv => TypeOK BY DEF IInv
  <1> QED BY <1>1, InductiveInvariant, PTL

\* No order of refreshes, logins and logouts leaves a page with the token of a
\* session it has left.
THEOREM LateRefreshIsDropped == Spec => []SessionOfThisRevision
  <1>1. IInv => SessionOfThisRevision BY DEF IInv
  <1> QED BY <1>1, InductiveInvariant, PTL

\* Any number of callers and ticks of a page share one request.
THEOREM RefreshIsShared == Spec => []SingleFlight
  <1>1. IInv => SingleFlight BY DEF IInv
  <1> QED BY <1>1, InductiveInvariant, PTL

\* A page alone in its browser never meets another session's records beside
\* its token, nor answers from them, for any subjects, callers and revisions.
THEOREM RecordsAreTheTokens == Spec => []RecordsFollowSession
  <1>1. IInv => RecordsFollowSession BY DEF IInv
  <1> QED BY <1>1, InductiveInvariant, PTL

=============================================================================
