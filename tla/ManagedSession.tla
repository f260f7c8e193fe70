--------------------------- MODULE ManagedSession ---------------------------
(***************************************************************************)
(* The session of a client or service in Node: BuckyOSSDK                  *)
(* (src/src/sdk_core.ts) and the runtime it makes (src/src/runtime.ts),    *)
(* whose token pair every call, login and timer tick renews at verify-hub  *)
(* on its own; and the kRPC client (src/src/krpc_client.ts) whose requests *)
(* carry the token.  A token is where it came from: none, local (of the    *)
(* environment, or signed here), hub (the n-th pair), or one the           *)
(* application gave the kRPC client.                                       *)
(***************************************************************************)
EXTENDS Naturals, FiniteSets, Sequences

CONSTANTS
  Actors,   \* what may wait at once: a call, a login, a tick, an initBuckyOS
  Starts,   \* initBuckyOS: [target, type, service, pair, host, material]
  MaxPairs, \* bound: pairs that verify-hub gives
  MaxStarts \* bound: runtimes

VARIABLES
  runtimes, \* those made, in order
  client,   \* the application's kRPC client
  actor,    \* Actors -> what it does and waits for
  hub       \* pairs given

vars == <<runtimes, client, actor, hub>>

-----------------------------------------------------------------------------
Token(by, n) == [by |-> by, n |-> n, stale |-> FALSE]
None == Token("none", 0)
Local == Token("local", 0)
Is(t, by) == t.by = by

\* buildRuntimeConfig: Node stands for the kind the environment says.
Inferred(s) == IF s.service THEN "AppService" ELSE "AppClient"
RuntimeTypeOf(s) ==
  IF s.type = "" THEN Inferred(s) ELSE IF s.type = "NodeJS" /\ s.target # "browser" THEN Inferred(s) ELSE s.type
Managed(type) == type \in {"AppClient", "AppService"}   \* supportsManagedSessionRenewal

Current == Len(runtimes)                                \* this.currentRuntime
NoClient == [of |-> 0, token |-> None, init |-> None, override |-> <<>>]
Idle == [does |-> "nothing", of |-> 0, stage |-> "idle", want |-> None, got |-> None]

Init ==
  /\ runtimes = <<>>
  /\ client = NoClient /\ hub = 0
  /\ actor = [a \in Actors |-> Idle]

Free(a) == actor[a] = Idle
Does(a, does, r, stage) == actor' = [actor EXCEPT ![a] = [Idle EXCEPT !.does = does, !.of = r, !.stage = stage]]
Goes(a, stage) ==   \* what is over is forgotten
  actor' = [actor EXCEPT ![a] = IF stage \in {"done", "failed"} THEN Idle ELSE [@ EXCEPT !.stage = stage]]
At(a, stage) == actor[a].stage = stage
RuntimeOf(a) == runtimes[actor[a].of]

-----------------------------------------------------------------------------
(* initBuckyOS.                                                            *)

InitBuckyOS(a, s) ==
  /\ Free(a) /\ Current < MaxStarts
  /\ LET new == [type |-> RuntimeTypeOf(s), start |-> s, ready |-> FALSE, timer |-> FALSE,
                 token |-> IF s.pair THEN Token("hub", hub + 1) ELSE None,
                 refresh |-> IF s.pair THEN hub + 1 ELSE 0] IN
       /\ runtimes' = Append([r \in 1..Current |-> IF r = Current THEN [runtimes[r] EXCEPT !.timer = FALSE]
                                                   ELSE runtimes[r]], new)
       /\ hub' = IF s.pair THEN hub + 1 ELSE hub
       /\ Does(a, "init", Current + 1, "initializing")
  /\ UNCHANGED client

Initialized(a, r) ==
  /\ runtimes' = [runtimes EXCEPT ![actor[a].of] = [r EXCEPT !.ready = TRUE]]
  /\ Goes(a, IF actor[a].does = "init" THEN "done" ELSE "renew")
InitializeFails(a) == Goes(a, "failed") /\ UNCHANGED runtimes

\* The first key of the device, then of the user, under the search roots.
HasMaterial(r) == r.start.material
\* Configured, of the environment, or of the first identity under the roots.
HasZoneHost(r) == r.start.host

\* A service must have its token and an identity that agrees with it; a
\* client without one signs one.
Initialize(a) ==
  /\ At(a, "initializing")
  /\ LET r == RuntimeOf(a) IN
       \/ (~Managed(r.type) \/ r.token # None) /\ Initialized(a, r)
       \/ r.type = "AppService" /\ r.token = None
          /\ IF HasMaterial(r) THEN Initialized(a, [r EXCEPT !.token = Local]) ELSE InitializeFails(a)
       \/ r.type = "AppClient" /\ r.token = None
          /\ Goes(a, "signing") /\ UNCHANGED runtimes
  /\ UNCHANGED <<client, hub>>
\* createAppClientSessionToken: the token is set, also when there is one by now.
Signed(a) ==
  /\ At(a, "signing")
  /\ IF HasMaterial(RuntimeOf(a)) THEN Initialized(a, [RuntimeOf(a) EXCEPT !.token = Local]) ELSE InitializeFails(a)
  /\ UNCHANGED <<client, hub>>

-----------------------------------------------------------------------------
(* renewTokenFromVerifyHub: nothing is shared between those who renew.     *)

NeedsRenew(t) == Is(t, "local") \/ t.stale
SkipsHub(r) == r.type = "AppClient" /\ ~HasZoneHost(r)
HasNothingToRenew(r) == ~Managed(r.type) \/ r.token = None \/ ~NeedsRenew(r.token) \/ SkipsHub(r)

\* refresh_token when there is one for a token of the hub; else login_by_jwt.
Renews(a) ==
  /\ At(a, "renew")
  /\ Goes(a, IF HasNothingToRenew(RuntimeOf(a)) THEN "ready" ELSE "asked")
  /\ UNCHANGED <<runtimes, client, hub>>

\* Seeded: the refresh token is kept while there is one.
KeepsRefresh(r, n) == [r EXCEPT !.token = Token("hub", n), !.refresh = IF @ = 0 THEN n ELSE @]
Stored(r, n) == [r EXCEPT !.token = Token("hub", n), !.refresh = n]

\* The pair is stored, and only then the token seen to be another app's.
HubAnswers(a, fits) ==
  /\ At(a, "asked") /\ hub < MaxPairs
  /\ hub' = hub + 1
  /\ runtimes' = [runtimes EXCEPT ![actor[a].of] = Stored(@, hub + 1)]
  /\ Goes(a, IF fits THEN "ready" ELSE "failed")
  /\ UNCHANGED <<client>>
HubRefuses(a) == At(a, "asked") /\ Goes(a, "failed") /\ UNCHANGED <<runtimes, client, hub>>

TokenExpires(r) ==
  /\ Is(runtimes[r].token, "hub") /\ ~runtimes[r].token.stale
  /\ runtimes' = [runtimes EXCEPT ![r].token.stale = TRUE]
  /\ UNCHANGED <<client, actor, hub>>

\* login: the runtime of the call, whatever is current when it is done.
Login(a) ==
  /\ Free(a) /\ Current > 0
  /\ Does(a, "login", Current, IF runtimes[Current].ready THEN "renew" ELSE "initializing")
  /\ UNCHANGED <<runtimes, client, hub>>
LoginReturns(a) ==
  /\ At(a, "ready") /\ actor[a].does = "login"
  /\ runtimes' = [runtimes EXCEPT ![actor[a].of].timer = @ \/ Managed(RuntimeOf(a).type)]
  /\ Goes(a, "done") /\ UNCHANGED <<client, hub>>

TimerFires(a) ==
  /\ Free(a)
  /\ \E r \in 1..Current : runtimes[r].timer /\ Does(a, "tick", r, "renew")
  /\ UNCHANGED <<runtimes, client, hub>>
TickOver(a) ==
  /\ At(a, "ready") /\ actor[a].does = "tick"
  /\ Goes(a, "done") /\ UNCHANGED <<runtimes, client, hub>>

LoginByPassword ==
  /\ Current > 0 /\ hub < MaxPairs
  /\ hub' = hub + 1 /\ runtimes' = [runtimes EXCEPT ![Current] = Stored(@, hub + 1)]
  /\ UNCHANGED <<client, actor>>

Logout ==
  /\ Current > 0
  /\ runtimes' = [runtimes EXCEPT ![Current].token = None, ![Current].refresh = 0, ![Current].timer = FALSE]
  /\ UNCHANGED <<client, actor, hub>>

-----------------------------------------------------------------------------
(* The kRPC client of a service.                                           *)

\* (One client for each runtime: another object shares nothing with it.)
GetServiceRpcClient ==
  /\ client.of < Current
  /\ LET t == [runtimes[Current].token EXCEPT !.stale = FALSE] IN
       client' = [of |-> Current, token |-> t, init |-> t, override |-> <<>>]
  /\ UNCHANGED <<runtimes, actor, hub>>

SetSessionToken(t) ==
  /\ client.of > 0 /\ client' = [client EXCEPT !.token = t, !.override = <<t>>]
  /\ UNCHANGED <<runtimes, actor, hub>>
ResetSessionToken ==
  /\ client.of > 0 /\ client' = [client EXCEPT !.token = client.init, !.override = <<>>]
  /\ UNCHANGED <<runtimes, actor, hub>>

Overridden == client.override # <<>>

\* prepareSessionToken: the call's own, the override, or the runtime's.
Call(a, own) ==
  /\ Free(a) /\ client.of > 0
  /\ LET want == IF own # <<>> THEN own[1] ELSE IF client.override # <<>> THEN client.override[1] ELSE Local
         sent == IF own # <<>> THEN own ELSE IF Overridden THEN client.override ELSE <<>> IN
       actor' = [actor EXCEPT ![a] =
         [does |-> "call", of |-> client.of, want |-> want, got |-> IF sent = <<>> THEN None ELSE sent[1],
          stage |-> IF sent = <<>> THEN "renew" ELSE "sent"]]
  /\ UNCHANGED <<runtimes, client, hub>>
\* ensureSessionTokenReady has the runtime's token ...
TokenReady(a) ==
  /\ At(a, "ready") /\ actor[a].does = "call"
  /\ actor' = [actor EXCEPT ![a].stage = "send", ![a].got = [RuntimeOf(a).token EXCEPT !.stale = FALSE]]
  /\ UNCHANGED <<runtimes, client, hub>>
\* ... and the client keeps it and sends it.
Sends(a) ==
  /\ At(a, "send") /\ Goes(a, "sent")
  /\ client' = IF client.of = actor[a].of THEN [client EXCEPT !.token = actor[a].got] ELSE client
  /\ UNCHANGED <<runtimes, hub>>
\* The response's second member is a trace id: nothing is kept of it.
Response(a, good) ==
  /\ At(a, "sent") /\ Goes(a, IF good THEN "done" ELSE "failed")
  /\ UNCHANGED <<runtimes, client, hub>>

Given == Token("given", 0)

Next ==
  \/ \E a \in Actors :
       \/ \E s \in Starts : InitBuckyOS(a, s)
       \/ Initialize(a) \/ Signed(a) \/ Renews(a) \/ HubRefuses(a) \/ Login(a) \/ LoginReturns(a)
       \/ TimerFires(a) \/ TickOver(a) \/ TokenReady(a) \/ Sends(a)
       \/ \E good \in BOOLEAN : HubAnswers(a, good) \/ Response(a, good)
       \/ \E own \in {<<>>, <<None>>, <<Given>>} : Call(a, own)
  \/ \E r \in 1..Current : TokenExpires(r)
  \/ LoginByPassword \/ Logout \/ GetServiceRpcClient \/ ResetSessionToken
  \/ \E t \in {None, Given} : SetSessionToken(t)

Spec == Init /\ [][Next]_vars

-----------------------------------------------------------------------------
(* Renewals overlap with each other, with logins and a logout; a refresh   *)
(* token that is used is still the one its session token came with, for    *)
(* another one is refused, or renews somebody else's session.              *)
PairsStayTogether ==
  \A r \in 1..Current : Is(runtimes[r].token, "hub") => runtimes[r].refresh = runtimes[r].token.n

(* A request carries its call's own token, or the one the application set  *)
(* (none, too) when it called, whatever renewals the runtime made, or was  *)
(* told of, while the call was prepared; a call under neither carries what *)
(* the runtime had. (Nothing is looked at again before the request leaves: *)
(* a call that had its token before a logout is sent with it.)             *)
RequestsCarryTheirToken ==
  \A a \in Actors :
    actor[a].does = "call" /\ At(a, "sent") =>
      IF actor[a].want = Local THEN actor[a].got.by \in {"none", "local", "hub"}
      ELSE actor[a].got = actor[a].want
=============================================================================
