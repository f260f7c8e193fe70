---------------------------- MODULE Sessions_proofs ---------------------------
(***************************************************************************)
(* The inductive invariants of the components of Clients that read lists   *)
(* of what they are given: the managed session, the login and the lines of *)
(* the tool, and an import.  The others are in Clients_proofs.             *)
(***************************************************************************)
EXTENDS Clients, SequenceTheorems, FiniteSetTheorems, WellFoundedInduction, TLAPS

-----------------------------------------------------------------------------
(* ManagedSession.                                                         *)

\* A runtime holds the two tokens of one pair.
OnePair(r) ==
  /\ DOMAIN r = {"type", "start", "ready", "timer", "token", "refresh"}
  /\ DOMAIN r.token = {"by", "n", "stale"}
  /\ r.token.by \in {"none", "local", "hub"}
  /\ r.token.by = "hub" => r.refresh = r.token.n

\* A call under no token of its own waits for the runtime's, one that has a
\* token is sent with it.
Carries(c, last) ==
  /\ DOMAIN c = {"does", "of", "stage", "want", "got"}
  /\ c.does = "call" =>
       /\ c.of \in 1..last
       /\ c.stage \in {"renew", "asked", "ready", "send", "sent"}
       /\ c.stage # "sent" => c.want = Managed!Local
       /\ c.stage = "send" => c.got.by \in {"none", "local", "hub"}
       /\ c.stage = "sent" => c.got = c.want \/ (c.want = Managed!Local /\ c.got.by \in {"none", "local", "hub"})

RuntimesInv == IsList(s1) /\ \A r \in 1..Len(s1) : OnePair(s1[r])
CallsInv ==
  /\ DOMAIN s2 = {"of", "token", "init", "override"} /\ s2.of \in 0..Len(s1)
  /\ DOMAIN s3 = Actors /\ \A a \in Actors : Carries(s3[a], Len(s1))
ManagedInv == RuntimesInv /\ CallsInv

\* A function on 1 .. n is a sequence of length n.
LEMMA ListLength ==
  ASSUME NEW n \in Nat, NEW s, s = [i \in 1..n |-> s[i]]
  PROVE  Len(s) = n /\ s \in Seq({s[i] : i \in 1..n})
  <1> DEFINE S == {s[i] : i \in 1..n}
  <1>1. s \in [1..n -> S]
    <2>1. [i \in 1..n |-> s[i]] \in [1..n -> S]
      OBVIOUS
    <2> QED BY <2>1
  <1>2. s \in Seq(S)
    BY <1>1
  <1>3. DOMAIN s = 1..Len(s) /\ DOMAIN s = 1..n /\ Len(s) \in Nat
    BY <1>1, <1>2, LenProperties
  <1>4. Len(s) = n
    BY <1>3
  <1> QED BY <1>2, <1>4

\* A list with one more at its end is a list, and its other members stay where they were.
LEMMA ListAppend ==
  ASSUME NEW s, IsList(s), NEW x
  PROVE  /\ IsList(Append(s, x)) /\ Len(Append(s, x)) = Len(s) + 1
         /\ \A i \in 1..Len(s) : Append(s, x)[i] = s[i]
         /\ Append(s, x)[Len(s) + 1] = x
  <1> DEFINE S == {s[i] : i \in 1..Len(s)} \cup {x}  t == Append(s, x)
  <1>1. s \in Seq(S)
    <2>1. s \in Seq({s[i] : i \in 1..Len(s)})
      BY ListLength DEF IsList
    <2> QED BY <2>1, SeqMonotonic
  <1> HIDE DEF S
  <1>2. x \in S
    BY DEF S
  <1>3. /\ t \in Seq(S) /\ Len(t) = Len(s) + 1
        /\ \A i \in 1..Len(s) : t[i] = s[i]
        /\ t[Len(s) + 1] = x
    BY <1>1, <1>2, AppendProperties
  <1>4. IsList(t)
    BY <1>3, LenProperties DEF IsList
  <1> QED BY <1>3, <1>4

\* A managed session starts in its invariant.
LEMMA ManagedInit == Managed!Init => ManagedInv
  <1> SUFFICES ASSUME Managed!Init PROVE RuntimesInv /\ CallsInv
    BY DEF ManagedInv
  <1>1. s1 = <<>> /\ Len(s1) = 0
    BY DEF Managed!Init
  <1>2. IsList(s1)
    BY <1>1 DEF IsList
  <1>3. CallsInv
    BY <1>1 DEF CallsInv, Carries, Managed!Init, Managed!NoClient, Managed!Idle
  <1> QED BY <1>1, <1>2, <1>3 DEF RuntimesInv

-----------------------------------------------------------------------------
\* One runtime that changes to one pair leaves every runtime with one pair.
LEMMA RuntimeChanges ==
  ASSUME RuntimesInv, NEW k, NEW v, s1' = [s1 EXCEPT ![k] = v],
         k \in 1..Len(s1) => OnePair(v)
  PROVE  RuntimesInv' /\ Len(s1') = Len(s1)
  <1>1. Len(s1) \in Nat /\ DOMAIN s1 = 1..Len(s1)
    BY DEF RuntimesInv, IsList
  <1>2. \A i \in 1..Len(s1) : s1'[i] = IF i = k THEN v ELSE s1[i]
    BY <1>1
  <1>3. s1' = [i \in 1..Len(s1) |-> s1'[i]]
    BY <1>1
  <1>4. Len(s1') = Len(s1)
    BY <1>1, <1>3, ListLength
  <1> QED BY <1>1, <1>2, <1>3, <1>4 DEF RuntimesInv, IsList

\* A request that carries the token of a known runtime still does so when there are more of them.
LEMMA MoreCarry ==
  ASSUME NEW c, NEW m \in Nat, NEW n \in Nat, m <= n, Carries(c, m)
  PROVE  Carries(c, n)
  BY DEF Carries

\* One actor that changes to a request with its own session's token keeps the calls as they must
\* be.
LEMMA ActorChanges ==
  ASSUME CallsInv, Len(s1) \in Nat, Len(s1') \in Nat, Len(s1) <= Len(s1'),
         UNCHANGED s2 \/ (DOMAIN s2' = {"of", "token", "init", "override"} /\ s2'.of \in 0..Len(s1')),
         NEW a \in Actors, NEW c, s3' = [s3 EXCEPT ![a] = c], Carries(c, Len(s1'))
  PROVE  CallsInv'
  <1>1. DOMAIN s3' = Actors /\ \A b \in Actors : s3'[b] = IF b = a THEN c ELSE s3[b]
    BY DEF CallsInv
  <1>2. \A b \in Actors : Carries(s3'[b], Len(s1'))
    BY <1>1, MoreCarry DEF CallsInv
  <1> QED BY <1>1, <1>2 DEF CallsInv

\* Actors that stand still keep the calls as they must be.
LEMMA ActorsStay ==
  ASSUME CallsInv, Len(s1) \in Nat, Len(s1') = Len(s1), UNCHANGED s3,
         UNCHANGED s2 \/ (DOMAIN s2' = {"of", "token", "init", "override"} /\ s2'.of \in 0..Len(s1'))
  PROVE  CallsInv'
  BY DEF CallsInv

\* A call goes on or is over; the others have no request.
LEMMA ActorGoes ==
  ASSUME CallsInv, Len(s1) \in Nat, Len(s1') = Len(s1),
         UNCHANGED s2 \/ (DOMAIN s2' = {"of", "token", "init", "override"} /\ s2'.of \in 0..Len(s1')),
         NEW a \in Actors, NEW stage, Managed!Goes(a, stage),
         \/ stage \in {"done", "failed"}
         \/ s3[a].does # "call"
         \/ s3[a].stage \in {"renew", "asked"} /\ stage \in {"ready", "asked"}
         \/ s3[a].stage = "send" /\ stage = "sent"
  PROVE  CallsInv'
  <1> DEFINE c == IF stage \in {"done", "failed"} THEN Managed!Idle ELSE [s3[a] EXCEPT !.stage = stage]
  <1>1. s3' = [s3 EXCEPT ![a] = c]
    BY DEF Managed!Goes
  <1>2. Carries(s3[a], Len(s1))
    BY DEF CallsInv
  <1>3. Carries(c, Len(s1))
    <2>1. CASE stage \in {"done", "failed"}
      BY <2>1 DEF Carries, Managed!Idle
    <2>2. CASE stage \notin {"done", "failed"}
      <3>1. /\ DOMAIN c = DOMAIN s3[a] /\ c.does = s3[a].does /\ c.of = s3[a].of /\ c.stage = stage
            /\ c.want = s3[a].want /\ c.got = s3[a].got
        BY <1>2, <2>2 DEF Carries
      <3> HIDE DEF c
      <3> QED BY <1>2, <2>2, <3>1 DEF Carries
    <2> QED BY <2>1, <2>2
  <1>4. Len(s1') \in Nat /\ Len(s1) <= Len(s1') /\ Carries(c, Len(s1'))
    BY <1>3
  <1> HIDE DEF c
  <1> QED BY <1>1, <1>4, ActorChanges

\* An actor that begins anything but a call carries nothing.
LEMMA FreshActor ==
  ASSUME NEW n, NEW does, NEW r, NEW stage, does # "call"
  PROVE  Carries([Managed!Idle EXCEPT !.does = does, !.of = r, !.stage = stage], n)
  BY DEF Carries, Managed!Idle

\* What the tokens are that a runtime can start with.
LEMMA LocalStart ==
  /\ DOMAIN Managed!Local = {"by", "n", "stale"} /\ Managed!Local.by = "local"
  /\ DOMAIN Managed!None = {"by", "n", "stale"} /\ Managed!None.by = "none"
  /\ \A n : DOMAIN Managed!Token("hub", n) = {"by", "n", "stale"}
            /\ Managed!Token("hub", n).by = "hub" /\ Managed!Token("hub", n).n = n
  BY DEF Managed!Local, Managed!None, Managed!Token

\* Every way a runtime gets another pair, or none.
LEMMA RuntimeRecords ==
  ASSUME NEW r, OnePair(r)
  PROVE  /\ \A b : OnePair([r EXCEPT !.ready = b])
         /\ \A b : OnePair([r EXCEPT !.timer = b])
         /\ OnePair([r EXCEPT !.token = Managed!Local])
         /\ OnePair([[r EXCEPT !.token = Managed!Local] EXCEPT !.ready = TRUE])
         /\ \A n : OnePair([r EXCEPT !.token = Managed!Token("hub", n), !.refresh = n])
         /\ OnePair([r EXCEPT !.token = Managed!None, !.refresh = 0, !.timer = FALSE])
         /\ OnePair([r EXCEPT !.token = [r.token EXCEPT !.stale = TRUE]])
  <1> USE DEF OnePair
  <1>1. \A b : OnePair([r EXCEPT !.ready = b])
    OBVIOUS
  <1>2. \A b : OnePair([r EXCEPT !.timer = b])
    OBVIOUS
  <1>3. OnePair([r EXCEPT !.token = Managed!Local])
    BY LocalStart
  <1>4. OnePair([[r EXCEPT !.token = Managed!Local] EXCEPT !.ready = TRUE])
    BY LocalStart
  <1>5. \A n : OnePair([r EXCEPT !.token = Managed!Token("hub", n), !.refresh = n])
    BY LocalStart
  <1>6. OnePair([r EXCEPT !.token = Managed!None, !.refresh = 0, !.timer = FALSE])
    BY LocalStart
  <1>7. OnePair([r EXCEPT !.token = [r.token EXCEPT !.stale = TRUE]])
    <2> DEFINE t == [r.token EXCEPT !.stale = TRUE]
    <2>1. DOMAIN t = DOMAIN r.token /\ t.by = r.token.by /\ t.n = r.token.n
      OBVIOUS
    <2> HIDE DEF t
    <2>2. OnePair([r EXCEPT !.token = t])
      BY <2>1
    <2> QED BY <2>2 DEF t
  <1> QED BY <1>1, <1>2, <1>3, <1>4, <1>5, <1>6, <1>7

\* initBuckyOS: the runtime before stops its timer, another one is made.
LEMMA ManagedInits ==
  ASSUME ManagedInv, NEW a \in Actors, NEW i, Managed!InitBuckyOS(a, i)
  PROVE  ManagedInv'
  <1> DEFINE kept == [r \in 1..Len(s1) |-> IF r = Len(s1) THEN [s1[r] EXCEPT !.timer = FALSE] ELSE s1[r]]
             new == [type |-> Managed!RuntimeTypeOf(i), start |-> i, ready |-> FALSE, timer |-> FALSE,
                     token |-> IF i.pair THEN Managed!Token("hub", s4 + 1) ELSE Managed!None,
                     refresh |-> IF i.pair THEN s4 + 1 ELSE 0]
  <1>1. s1' = Append(kept, new) /\ UNCHANGED s2
    BY Zenon DEF Managed!InitBuckyOS, Managed!Current
  <1>2. s3' = [s3 EXCEPT ![a] = [Managed!Idle EXCEPT !.does = "init", !.of = Len(s1) + 1, !.stage = "initializing"]]
    BY Zenon DEF Managed!InitBuckyOS, Managed!Current, Managed!Does
  <1>3. Len(s1) \in Nat /\ \A r \in 1..Len(s1) : OnePair(s1[r])
    BY DEF ManagedInv, RuntimesInv, IsList
  <1>4. \A r \in 1..Len(s1) : OnePair(kept[r])
    BY <1>3, RuntimeRecords
  <1>5. OnePair(new)
    BY LocalStart DEF OnePair
  <1>6. IsList(kept) /\ Len(kept) = Len(s1)
    <2>1. kept = [r \in 1..Len(s1) |-> kept[r]]
      BY <1>3
    <2> HIDE DEF kept
    <2> QED BY <1>3, <2>1, ListLength DEF IsList
  <1> HIDE DEF kept, new
  <1>7. /\ IsList(s1') /\ Len(s1') = Len(s1) + 1
        /\ \A r \in 1..Len(s1) : s1'[r] = kept[r]
        /\ s1'[Len(s1) + 1] = new
    BY <1>1, <1>6, ListAppend
  <1>8. RuntimesInv'
    <2>1. \A r \in 1..Len(s1') : r \in 1..Len(s1) \/ r = Len(s1) + 1
      BY <1>3, <1>7
    <2> QED BY <1>4, <1>5, <1>7, <2>1 DEF RuntimesInv
  <1>9. CallsInv'
    <2>1. Carries([Managed!Idle EXCEPT !.does = "init", !.of = Len(s1) + 1, !.stage = "initializing"], Len(s1'))
      BY DEF Carries, Managed!Idle
    <2>2. Len(s1') \in Nat /\ Len(s1) <= Len(s1')
      BY <1>3, <1>7
    <2> QED BY <1>1, <1>2, <1>3, <2>1, <2>2, ActorChanges DEF ManagedInv
  <1> QED BY <1>8, <1>9 DEF ManagedInv

\* An initialisation that ends leaves one pair in the runtime that it initialised.
LEMMA InitializedStays ==
  ASSUME ManagedInv, NEW a \in Actors, NEW r, Managed!Initialized(a, r), UNCHANGED s2,
         s3[a].stage \in {"initializing", "signing"},
         s3[a].of \in 1..Len(s1) => OnePair([r EXCEPT !.ready = TRUE])
  PROVE  ManagedInv'
  <1>1. s1' = [s1 EXCEPT ![s3[a].of] = [r EXCEPT !.ready = TRUE]]
    BY DEF Managed!Initialized
  <1>2. RuntimesInv' /\ Len(s1') = Len(s1)
    BY <1>1, RuntimeChanges DEF ManagedInv
  <1>3. Managed!Goes(a, IF s3[a].does = "init" THEN "done" ELSE "renew") /\ s3[a].does # "call"
    BY DEF Managed!Initialized, ManagedInv, CallsInv, Carries
  <1>4. CallsInv'
    BY <1>2, <1>3, ActorGoes DEF ManagedInv, RuntimesInv, IsList
  <1> QED BY <1>2, <1>4 DEF ManagedInv

\* An actor that moves on leaves the runtimes alone.
LEMMA OnlyActorGoes ==
  ASSUME ManagedInv, UNCHANGED s1, UNCHANGED s2, NEW a \in Actors, NEW stage, Managed!Goes(a, stage),
         \/ stage \in {"done", "failed"}
         \/ s3[a].does # "call"
         \/ s3[a].stage \in {"renew", "asked"} /\ stage \in {"ready", "asked"}
  PROVE  ManagedInv'
  <1>1. RuntimesInv' /\ Len(s1') = Len(s1) /\ Len(s1) \in Nat
    BY DEF ManagedInv, RuntimesInv, IsList
  <1>2. CallsInv'
    BY <1>1, ActorGoes DEF ManagedInv
  <1> QED BY <1>1, <1>2 DEF ManagedInv

\* Initialising a runtime, with or without a signature, keeps the invariant.
LEMMA ManagedInitializes ==
  ASSUME ManagedInv, NEW a \in Actors, Managed!Initialize(a) \/ Managed!Signed(a)
  PROVE  ManagedInv'
  <1> DEFINE r == s1[s3[a].of]
  <1>1. UNCHANGED s2 /\ s3[a].stage \in {"initializing", "signing"} /\ s3[a].does # "call"
    BY DEF Managed!Initialize, Managed!Signed, Managed!At, ManagedInv, CallsInv, Carries
  <1>2. \/ Managed!Initialized(a, r)
        \/ Managed!Initialized(a, [r EXCEPT !.token = Managed!Local])
        \/ \E stage : Managed!Goes(a, stage) /\ UNCHANGED s1
    BY Zenon DEF Managed!Initialize, Managed!Signed, Managed!RuntimeOf, Managed!InitializeFails
  <1>3. s3[a].of \in 1..Len(s1) => /\ OnePair([r EXCEPT !.ready = TRUE])
                                   /\ OnePair([[r EXCEPT !.token = Managed!Local] EXCEPT !.ready = TRUE])
    BY RuntimeRecords DEF ManagedInv, RuntimesInv
  <1> HIDE DEF r
  <1>4. CASE Managed!Initialized(a, r)
    BY <1>1, <1>3, <1>4, InitializedStays
  <1>5. CASE Managed!Initialized(a, [r EXCEPT !.token = Managed!Local])
    BY <1>1, <1>3, <1>5, InitializedStays
  <1>6. CASE \E stage : Managed!Goes(a, stage) /\ UNCHANGED s1
    BY <1>1, <1>6, OnlyActorGoes
  <1> QED BY <1>2, <1>4, <1>5, <1>6

\* A renewal that begins or fails, a tick that is over and a response that arrives keep the
\* invariant.
LEMMA ManagedRenews ==
  ASSUME ManagedInv, NEW a \in Actors,
         \/ Managed!Renews(a) \/ Managed!HubRefuses(a) \/ Managed!TickOver(a)
         \/ \E good \in BOOLEAN : Managed!Response(a, good)
  PROVE  ManagedInv'
  <1>1. UNCHANGED s1 /\ UNCHANGED s2
    BY DEF Managed!Renews, Managed!HubRefuses, Managed!TickOver, Managed!Response
  <1>2. CASE Managed!Renews(a)
    <2>1. \E stage \in {"ready", "asked"} : Managed!Goes(a, stage) /\ s3[a].stage = "renew"
      BY <1>2 DEF Managed!Renews, Managed!At
    <2> QED BY <1>1, <2>1, OnlyActorGoes
  <1>3. CASE ~Managed!Renews(a)
    <2>1. \E stage \in {"done", "failed"} : Managed!Goes(a, stage)
      BY <1>3 DEF Managed!HubRefuses, Managed!TickOver, Managed!Response
    <2> QED BY <1>1, <2>1, OnlyActorGoes
  <1> QED BY <1>2, <1>3

\* A renewed pair that arrives at whatever runtime asked for it keeps the invariant.
LEMMA ManagedHubAnswers ==
  ASSUME ManagedInv, NEW a \in Actors, NEW fits \in BOOLEAN, Managed!HubAnswers(a, fits)
  PROVE  ManagedInv'
  <1> DEFINE k == s3[a].of  v == Managed!Stored(s1[k], s4 + 1)
  <1>1. s1' = [s1 EXCEPT ![k] = v] /\ UNCHANGED s2
    BY DEF Managed!HubAnswers
  <1>2. k \in 1..Len(s1) => OnePair(v)
    BY RuntimeRecords DEF Managed!Stored, ManagedInv, RuntimesInv
  <1>3. Managed!Goes(a, IF fits THEN "ready" ELSE "failed") /\ s3[a].stage = "asked"
    BY DEF Managed!HubAnswers, Managed!At
  <1> HIDE DEF k, v
  <1>4. RuntimesInv' /\ Len(s1') = Len(s1)
    BY <1>1, <1>2, RuntimeChanges DEF ManagedInv
  <1>5. Len(s1) \in Nat
    BY DEF ManagedInv, RuntimesInv, IsList
  <1>6. CallsInv'
    <2>1. CASE fits
      BY <1>1, <1>3, <1>4, <1>5, <2>1, ActorGoes DEF ManagedInv
    <2>2. CASE ~fits
      BY <1>1, <1>3, <1>4, <1>5, <2>2, ActorGoes DEF ManagedInv
    <2> QED BY <2>1, <2>2
  <1> QED BY <1>4, <1>6 DEF ManagedInv

\* A login, a tick: none of the kRPC client's calls.
LEMMA ManagedBegins ==
  ASSUME ManagedInv, NEW a \in Actors, Managed!Login(a) \/ Managed!TimerFires(a)
  PROVE  ManagedInv'
  <1>1. UNCHANGED s1 /\ UNCHANGED s2 /\ Len(s1) \in Nat /\ Len(s1') \in Nat /\ Len(s1) <= Len(s1')
    BY DEF Managed!Login, Managed!TimerFires, ManagedInv, RuntimesInv, IsList
  <1>2. PICK does, r, stage : does # "call" /\ Managed!Does(a, does, r, stage)
    BY DEF Managed!Login, Managed!TimerFires
  <1> DEFINE c == [Managed!Idle EXCEPT !.does = does, !.of = r, !.stage = stage]
  <1>3. s3' = [s3 EXCEPT ![a] = c]
    BY <1>2 DEF Managed!Does
  <1>4. Carries(c, Len(s1'))
    BY <1>2, FreshActor
  <1> HIDE DEF c
  <1>5. CallsInv'
    BY <1>1, <1>3, <1>4, ActorChanges DEF ManagedInv
  <1> QED BY <1>1, <1>5 DEF ManagedInv, RuntimesInv

\* A login that returns keeps the invariant.
LEMMA ManagedLoginReturns ==
  ASSUME ManagedInv, NEW a \in Actors, Managed!LoginReturns(a)
  PROVE  ManagedInv'
  <1> DEFINE k == s3[a].of  v == [s1[k] EXCEPT !.timer = @ \/ Managed!Managed(Managed!RuntimeOf(a).type)]
  <1>1. s1' = [s1 EXCEPT ![k] = v] /\ UNCHANGED s2
    BY Zenon DEF Managed!LoginReturns
  <1>2. k \in 1..Len(s1) => OnePair(v)
    BY RuntimeRecords DEF ManagedInv, RuntimesInv
  <1>3. Managed!Goes(a, "done")
    BY DEF Managed!LoginReturns
  <1> HIDE DEF k, v
  <1>4. RuntimesInv' /\ Len(s1') = Len(s1)
    BY <1>1, <1>2, RuntimeChanges DEF ManagedInv
  <1>5. CallsInv'
    BY <1>1, <1>3, <1>4, ActorGoes DEF ManagedInv, RuntimesInv, IsList
  <1> QED BY <1>4, <1>5 DEF ManagedInv

\* A token that expires keeps the invariant.
LEMMA ManagedTokenExpires ==
  ASSUME ManagedInv, NEW r \in 1..Len(s1), Managed!TokenExpires(r)
  PROVE  ManagedInv'
  <1> DEFINE v == [s1[r] EXCEPT !.token = [s1[r].token EXCEPT !.stale = TRUE]]
  <1>1. OnePair(s1[r])
    BY DEF ManagedInv, RuntimesInv
  <1>2. s1' = [s1 EXCEPT ![r] = v] /\ UNCHANGED <<s2, s3>>
    BY <1>1 DEF Managed!TokenExpires, OnePair
  <1>3. OnePair(v)
    BY <1>1, RuntimeRecords
  <1> HIDE DEF v
  <1>4. RuntimesInv' /\ Len(s1') = Len(s1)
    BY <1>2, <1>3, RuntimeChanges DEF ManagedInv
  <1>5. CallsInv'
    BY <1>2, <1>4, ActorsStay DEF ManagedInv, RuntimesInv, IsList
  <1> QED BY <1>4, <1>5 DEF ManagedInv

\* A login by password and a logout keep the invariant.
LEMMA ManagedByPassword ==
  ASSUME ManagedInv, Managed!LoginByPassword \/ Managed!Logout
  PROVE  ManagedInv'
  <1> DEFINE k == Len(s1)
             v == Managed!Stored(s1[k], s4 + 1)
             w == [s1[k] EXCEPT !.token = Managed!None, !.refresh = 0, !.timer = FALSE]
  <1>1. k \in Nat /\ k > 0 /\ OnePair(s1[k])
    BY DEF ManagedInv, RuntimesInv, IsList, Managed!LoginByPassword, Managed!Logout, Managed!Current
  <1>2. UNCHANGED <<s2, s3>>
    BY DEF Managed!LoginByPassword, Managed!Logout
  <1>3. s1' = [s1 EXCEPT ![k] = v] \/ s1' = [s1 EXCEPT ![k] = w]
    <2>1. CASE Managed!LoginByPassword
      BY <2>1, Zenon DEF Managed!LoginByPassword, Managed!Current
    <2>2. CASE Managed!Logout
      <3>1. k \in DOMAIN s1
        BY <1>1 DEF ManagedInv, RuntimesInv, IsList
      <3>2. s1' = [s1 EXCEPT ![k].token = Managed!None, ![k].refresh = 0, ![k].timer = FALSE]
        BY <2>2 DEF Managed!Logout, Managed!Current
      <3> QED BY <3>1, <3>2
    <2> QED BY <2>1, <2>2
  <1>4. OnePair(v) /\ OnePair(w)
    BY <1>1, RuntimeRecords DEF Managed!Stored
  <1> HIDE DEF v, w
  <1>5. RuntimesInv' /\ Len(s1') = Len(s1)
    BY <1>3, <1>4, RuntimeChanges DEF ManagedInv
  <1>6. CallsInv'
    BY <1>1, <1>2, <1>5, ActorsStay DEF ManagedInv
  <1> QED BY <1>5, <1>6 DEF ManagedInv

\* What the application does to its kRPC client keeps the invariant.
LEMMA ManagedClient ==
  ASSUME ManagedInv, \/ Managed!GetServiceRpcClient \/ Managed!ResetSessionToken
                     \/ \E t : Managed!SetSessionToken(t)
  PROVE  ManagedInv'
  <1>1. UNCHANGED <<s1, s3>> /\ Len(s1) \in Nat
    BY DEF Managed!GetServiceRpcClient, Managed!ResetSessionToken, Managed!SetSessionToken,
           ManagedInv, RuntimesInv, IsList
  <1>2. DOMAIN s2' = {"of", "token", "init", "override"} /\ s2'.of \in 0..Len(s1)
    <2>1. DOMAIN s2 = {"of", "token", "init", "override"} /\ s2.of \in 0..Len(s1)
      BY DEF ManagedInv, CallsInv
    <2>2. CASE Managed!GetServiceRpcClient
      <3>1. PICK t : s2' = [of |-> Len(s1), token |-> t, init |-> t, override |-> <<>>]
        BY <2>2 DEF Managed!GetServiceRpcClient, Managed!Current
      <3> QED BY <1>1, <3>1
    <2>3. CASE Managed!ResetSessionToken
      BY <2>1, <2>3 DEF Managed!ResetSessionToken
    <2>4. CASE \E t : Managed!SetSessionToken(t)
      BY <2>1, <2>4 DEF Managed!SetSessionToken
    <2> QED BY <2>2, <2>3, <2>4
  <1>3. CallsInv'
    BY <1>1, <1>2, ActorsStay DEF ManagedInv
  <1> QED BY <1>1, <1>3 DEF ManagedInv, RuntimesInv

\* A call: what it wants to carry is decided once.
LEMMA ManagedCalls ==
  ASSUME ManagedInv, NEW a \in Actors, NEW own, Managed!Call(a, own)
  PROVE  ManagedInv'
  <1> DEFINE want == IF own # <<>> THEN own[1] ELSE IF s2.override # <<>> THEN s2.override[1] ELSE Managed!Local
             sent == IF own # <<>> THEN own ELSE IF Managed!Overridden THEN s2.override ELSE <<>>
             c == [does |-> "call", of |-> s2.of, want |-> want, got |-> IF sent = <<>> THEN Managed!None ELSE sent[1],
                   stage |-> IF sent = <<>> THEN "renew" ELSE "sent"]
  <1>1. s3' = [s3 EXCEPT ![a] = c] /\ UNCHANGED s1 /\ UNCHANGED s2 /\ s2.of > 0
    BY Zenon DEF Managed!Call
  <1>2. Len(s1) \in Nat /\ Len(s1') = Len(s1) /\ s2.of \in 0..Len(s1)
    BY <1>1 DEF ManagedInv, RuntimesInv, IsList, CallsInv
  <1>3. sent = <<>> => want = Managed!Local
    BY DEF Managed!Overridden
  <1>4. sent # <<>> => want = sent[1]
    BY DEF Managed!Overridden
  <1> HIDE DEF want, sent
  <1>5. Carries(c, Len(s1))
    BY <1>1, <1>2, <1>3, <1>4 DEF Carries
  <1> HIDE DEF c
  <1>6. CallsInv'
    <2>1. Len(s1') \in Nat /\ Len(s1) <= Len(s1') /\ Carries(c, Len(s1'))
      BY <1>2, <1>5
    <2> QED BY <1>1, <1>2, <2>1, ActorChanges DEF ManagedInv
  <1> QED BY <1>1, <1>6 DEF ManagedInv, RuntimesInv

\* What the runtime had is kept for the call that waited for it.
LEMMA ManagedTokenReady ==
  ASSUME ManagedInv, NEW a \in Actors, Managed!TokenReady(a)
  PROVE  ManagedInv'
  <1> DEFINE t == [s1[s3[a].of].token EXCEPT !.stale = FALSE]
             c == [[s3[a] EXCEPT !.stage = "send"] EXCEPT !.got = t]
  <1>1. UNCHANGED s1 /\ UNCHANGED s2 /\ s3[a].does = "call" /\ s3[a].stage = "ready"
    BY DEF Managed!TokenReady, Managed!At
  <1>2. DOMAIN s3 = Actors /\ Carries(s3[a], Len(s1))
    BY DEF ManagedInv, CallsInv
  <1>3. s3' = [s3 EXCEPT ![a].stage = "send", ![a].got = t]
    BY DEF Managed!TokenReady, Managed!RuntimeOf
  <1>4. t.by \in {"none", "local", "hub"}
    BY <1>1, <1>2 DEF Carries, ManagedInv, RuntimesInv, OnePair
  <1> HIDE DEF t
  <1>5. s3' = [s3 EXCEPT ![a] = c]
    BY <1>2, <1>3 DEF Carries
  <1>6. /\ DOMAIN c = DOMAIN s3[a] /\ c.does = "call" /\ c.of = s3[a].of /\ c.stage = "send"
        /\ c.want = s3[a].want /\ c.got = t
    BY <1>1, <1>2 DEF Carries
  <1> HIDE DEF c
  <1>7. Carries(c, Len(s1))
    BY <1>1, <1>2, <1>4, <1>6 DEF Carries
  <1>8. CallsInv'
    <2>1. Len(s1) \in Nat /\ Len(s1') \in Nat /\ Len(s1) <= Len(s1') /\ Carries(c, Len(s1'))
      BY <1>1, <1>7 DEF ManagedInv, RuntimesInv, IsList
    <2> QED BY <1>1, <1>5, <2>1, ActorChanges DEF ManagedInv
  <1> QED BY <1>1, <1>8 DEF ManagedInv, RuntimesInv

\* A request that is sent carries its session's token.
LEMMA ManagedSends ==
  ASSUME ManagedInv, NEW a \in Actors, Managed!Sends(a)
  PROVE  ManagedInv'
  <1>1. UNCHANGED s1 /\ Len(s1) \in Nat /\ Managed!Goes(a, "sent") /\ s3[a].stage = "send"
    BY DEF Managed!Sends, Managed!At, ManagedInv, RuntimesInv, IsList
  <1>2. DOMAIN s2' = {"of", "token", "init", "override"} /\ s2'.of \in 0..Len(s1')
    BY <1>1 DEF Managed!Sends, ManagedInv, CallsInv
  <1>3. CallsInv'
    BY <1>1, <1>2, ActorGoes DEF ManagedInv
  <1> QED BY <1>1, <1>3 DEF ManagedInv, RuntimesInv

\* Every step of a managed session keeps its invariant.
LEMMA ManagedNext == ManagedInv /\ Managed!Next => ManagedInv'
  <1> SUFFICES ASSUME ManagedInv, Managed!Next PROVE ManagedInv'
    OBVIOUS
  <1>1. CASE \E a \in Actors : \E i \in InitCalls : Managed!InitBuckyOS(a, i)
    BY <1>1, ManagedInits
  <1>2. CASE \E a \in Actors : Managed!Initialize(a) \/ Managed!Signed(a)
    BY <1>2, ManagedInitializes
  <1>3. CASE \E a \in Actors : \/ Managed!Renews(a) \/ Managed!HubRefuses(a) \/ Managed!TickOver(a)
                               \/ \E good \in BOOLEAN : Managed!Response(a, good)
    BY <1>3, ManagedRenews
  <1>4. CASE \E a \in Actors : \E good \in BOOLEAN : Managed!HubAnswers(a, good)
    BY <1>4, ManagedHubAnswers
  <1>5. CASE \E a \in Actors : Managed!Login(a) \/ Managed!TimerFires(a)
    BY <1>5, ManagedBegins
  <1>6. CASE \E a \in Actors : Managed!LoginReturns(a)
    BY <1>6, ManagedLoginReturns
  <1>7. CASE \E r \in 1..Len(s1) : Managed!TokenExpires(r)
    BY <1>7, ManagedTokenExpires
  <1>8. CASE Managed!LoginByPassword \/ Managed!Logout
    BY <1>8, ManagedByPassword
  <1>9. CASE Managed!GetServiceRpcClient \/ Managed!ResetSessionToken \/ \E t : Managed!SetSessionToken(t)
    BY <1>9, ManagedClient
  <1>10. CASE \E a \in Actors : \E own : Managed!Call(a, own)
    BY <1>10, ManagedCalls
  <1>11. CASE \E a \in Actors : Managed!TokenReady(a)
    BY <1>11, ManagedTokenReady
  <1>12. CASE \E a \in Actors : Managed!Sends(a)
    BY <1>12, ManagedSends
  <1> QED
    BY <1>1, <1>2, <1>3, <1>4, <1>5, <1>6, <1>7, <1>8, <1>9, <1>10, <1>11, <1>12, Zenon
       DEF Managed!Next, Managed!Current

\* What the run checks of a managed session follows from its invariant.
LEMMA ManagedStates == ManagedInv => Managed!PairsStayTogether /\ Managed!RequestsCarryTheirToken
  BY LocalStart DEF ManagedInv, RuntimesInv, CallsInv, OnePair, Carries, Managed!PairsStayTogether,
         Managed!RequestsCarryTheirToken, Managed!Current, Managed!Is, Managed!At

\* A step that changes no variable keeps the managed session's invariant.
LEMMA ManagedStays == ManagedInv /\ UNCHANGED all => ManagedInv'
  BY DEF ManagedInv, RuntimesInv, CallsInv, IsList, all, from2

-----------------------------------------------------------------------------
(* CliSession: sets of places, in their turn.                              *)

\* A set of naturals has a least element.
LEMMA LeastOf ==
  ASSUME NEW T \in SUBSET Nat, T # {}
  PROVE  \E n \in T : \A m \in T : n <= m
  <1> DEFINE R == OpToRel(<, Nat)
  <1>1. IsWellFoundedOn(R, Nat)
    BY NatLessThanWellFounded
  <1>2. \A m, n \in Nat : m < n => <<m, n>> \in R
    BY DEF OpToRel
  <1> HIDE DEF R
  <1>3. PICK n \in T : \A m \in T : ~(<<m, n>> \in R)
    BY <1>1, WFMin
  <1>4. n \in Nat /\ \A m \in T : ~(m < n)
    BY <1>2, <1>3
  <1>5. \A m \in T : n <= m
    BY <1>4
  <1> QED BY <1>5

\* The module's number of members is the number of members.
LEMMA Counts == \A S : Login!Cardinality(S) = Cardinality(S)
  BY Zenon DEF Cardinality, Login!Cardinality

\* The number of smaller members grows with the member, which is what orders candidates.
LEMMA BeforeGrows ==
  ASSUME NEW S \in SUBSET Nat, IsFiniteSet(S), NEW i \in S
  PROVE  /\ Login!Before(S, i) \in Nat
         /\ \A j \in S : i < j => Login!Before(S, i) < Login!Before(S, j)
  <1> DEFINE A(k) == {x \in S : x < k}
  <1>1. \A k : A(k) \in SUBSET S /\ IsFiniteSet(A(k)) /\ Cardinality(A(k)) \in Nat
    BY FS_Subset, FS_CardinalityType
  <1>2. ASSUME NEW j \in S, i < j
        PROVE  Cardinality(A(i)) < Cardinality(A(j))
    <2>0. i \in Nat /\ j \in Nat /\ \A x \in S : x \in Nat
      OBVIOUS
    <2>1. A(i) \in SUBSET A(j) /\ i \in A(j) /\ i \notin A(i)
      <3>1. \A x \in S : x < i => x < j
        BY <1>2, <2>0
      <3>2. ~(i < i)
        BY <2>0
      <3> QED BY <1>2, <3>1, <3>2
    <2>2. Cardinality(A(i)) <= Cardinality(A(j)) /\ Cardinality(A(i)) # Cardinality(A(j))
      BY <1>1, <2>1, FS_Subset
    <2> QED BY <1>1, <2>2
  <1>3. \A k : Login!Before(S, k) = Cardinality(A(k))
    BY Counts, Zenon DEF Login!Before
  <1> HIDE DEF A
  <1> QED BY <1>1, <1>2, <1>3

\* Those with fewer than n before them are at most n.
LEMMA RanksFit ==
  ASSUME NEW S \in SUBSET Nat, IsFiniteSet(S), NEW U \in SUBSET S, NEW n \in Nat,
         \A i \in U : Login!Before(S, i) < n
  PROVE  IsFiniteSet(U) /\ Cardinality(U) \in Nat /\ Cardinality(U) <= n
  <1>1. IsFiniteSet(U) /\ Cardinality(U) \in Nat
    BY FS_Subset, FS_CardinalityType
  <1>2. IsFiniteSet(1..n) /\ Cardinality(1..n) = n
    BY FS_Interval
  <1>3. ASSUME Cardinality(U) > n PROVE FALSE
    <2> DEFINE f == [i \in U |-> Login!Before(S, i) + 1]
    <2>1. f \in [U -> 1..n]
      BY BeforeGrows
    <2> HIDE DEF f
    <2>2. PICK x \in U, y \in U : x # y /\ f[x] = f[y]
      BY <1>1, <1>2, <1>3, <2>1, FS_PigeonHole
    <2>3. Login!Before(S, x) = Login!Before(S, y) /\ x \in S /\ y \in S
      BY <2>2, BeforeGrows DEF f
    <2>4. x \in Nat /\ y \in Nat /\ (x < y \/ y < x)
      BY <2>2
    <2>5. Login!Before(S, x) \in Nat /\ (x < y => Login!Before(S, x) < Login!Before(S, y))
                                     /\ (y < x => Login!Before(S, y) < Login!Before(S, x))
      BY <2>3, BeforeGrows
    <2> QED BY <2>3, <2>4, <2>5
  <1> QED BY <1>1, <1>3

\* Each turn is somebody's: the least of those with at least n - 1 before them.
LEMMA TurnExists ==
  ASSUME NEW S \in SUBSET Nat, IsFiniteSet(S), NEW n \in 1..Cardinality(S)
  PROVE  \E i \in S : Login!Before(S, i) = n - 1
  <1> DEFINE T == {i \in S : ~(Login!Before(S, i) < n - 1)}
  <1>0. Cardinality(S) \in Nat /\ n \in Nat /\ n - 1 \in Nat /\ n <= Cardinality(S)
    BY FS_CardinalityType
  <1>1. T # {}
    <2> SUFFICES ASSUME T = {} PROVE FALSE
      OBVIOUS
    <2>1. \A i \in S : Login!Before(S, i) < n - 1
      OBVIOUS
    <2>2. Cardinality(S) <= n - 1
      BY <1>0, <2>1, RanksFit
    <2> QED BY <1>0, <2>2
  <1>2. PICK i \in T : \A j \in T : i <= j
    BY <1>1, LeastOf
  <1> DEFINE B == {x \in S : x < i}
  <1>3. \A x \in B : Login!Before(S, x) < n - 1
    BY <1>2
  <1>4. Cardinality(B) <= n - 1
    BY <1>0, <1>3, RanksFit
  <1>5. Login!Before(S, i) = Cardinality(B) /\ Login!Before(S, i) \in Nat /\ ~(Login!Before(S, i) < n - 1)
    <2>1. Login!Before(S, i) = Cardinality(B)
      BY Counts, Zenon DEF Login!Before
    <2> QED BY <1>2, <2>1, BeforeGrows
  <1> HIDE DEF B, T
  <1>6. Login!Before(S, i) = n - 1
    BY <1>0, <1>4, <1>5
  <1> QED BY <1>2, <1>6 DEF T

\* Candidates put in their turn come once each.
LEMMA TurnsAreOnce ==
  ASSUME NEW S \in SUBSET Nat, IsFiniteSet(S)
  PROVE  /\ Cardinality(S) \in Nat
         /\ \A n \in 1..Cardinality(S) : Login!InTurn(S)[n] \in S
         /\ \A m, n \in 1..Cardinality(S) : m # n => Login!InTurn(S)[m] # Login!InTurn(S)[n]
  <1>1. Cardinality(S) \in Nat
    BY FS_CardinalityType
  <1>2. \A n \in 1..Cardinality(S) : Login!InTurn(S)[n] \in S /\ Login!Before(S, Login!InTurn(S)[n]) = n - 1
    <2> SUFFICES ASSUME NEW n \in 1..Cardinality(S)
                 PROVE  Login!InTurn(S)[n] \in S /\ Login!Before(S, Login!InTurn(S)[n]) = n - 1
      OBVIOUS
    <2>1. Login!InTurn(S)[n] = CHOOSE i \in S : Login!Before(S, i) = n - 1
      BY Counts DEF Login!InTurn
    <2> QED BY <2>1, TurnExists
  <1>3. \A m, n \in 1..Cardinality(S) : m # n => m - 1 # n - 1
    BY <1>1
  <1> QED BY <1>1, <1>2, <1>3

\* Candidates: a list without a DID that is there twice.
LEMMA CandidatesAreOnce ==
  ASSUME NEW source, NEW S \in SUBSET Nat, IsFiniteSet(S),
         \A i, j \in S : i # j => Login!Root(source)[i] # Login!Root(source)[j],
         NEW c, c = Login!Candidates(S, source)
  PROVE  /\ IsList(c) /\ Len(c) = Cardinality(S) /\ Cardinality(S) \in Nat
         /\ \A n \in 1..Len(c) : c[n].source = source /\ c[n].did \in {Login!Root(source)[i] : i \in S}
         /\ \A m, n \in 1..Len(c) : m # n => c[m].did # c[n].did
  <1> DEFINE k == Cardinality(S)
  <1>1. k \in Nat /\ \A n \in 1..k : Login!InTurn(S)[n] \in S
    BY TurnsAreOnce
  <1>2. c = [n \in 1..k |-> Login!Material(Login!Root(source)[Login!InTurn(S)[n]], source)]
    BY Counts, Zenon DEF Login!Candidates
  <1>3. \A n \in 1..k : c[n].source = source /\ c[n].did = Login!Root(source)[Login!InTurn(S)[n]]
    BY <1>2 DEF Login!Material
  <1>4. \A m, n \in 1..k : m # n => c[m].did # c[n].did
    BY <1>1, <1>3, TurnsAreOnce
  <1>5. c = [n \in 1..k |-> c[n]]
    BY <1>2
  <1> HIDE DEF k
  <1>6. Len(c) = k
    BY <1>1, <1>5, ListLength
  <1> QED BY <1>1, <1>3, <1>4, <1>5, <1>6 DEF IsList, k

\* A directory of identities offers at most the limit, each identity once.
LEMMA ScannedOnce ==
  ASSUME NEW root \in {Identities, Developers}
  PROVE  /\ Login!Scanned(root) \in SUBSET Nat /\ IsFiniteSet(Login!Scanned(root))
         /\ Cardinality(Login!Scanned(root)) \in Nat /\ Cardinality(Login!Scanned(root)) <= IdentityLimit
         /\ \A i, j \in Login!Scanned(root) : i # j => root[i] # root[j]
  <1> DEFINE F == {i \in DOMAIN root : \A j \in 1..(i - 1) : root[j] # root[i]}
             S == Login!Scanned(root)
  <1>1. DOMAIN root = 1..Len(root) /\ Len(root) \in Nat /\ IdentityLimit \in Nat
    BY LoginAssumption
  <1>2. F \in SUBSET Nat /\ IsFiniteSet(F)
    <2>1. IsFiniteSet(1..Len(root)) /\ F \in SUBSET (1..Len(root))
      BY <1>1, FS_Interval
    <2> QED BY <2>1, FS_Subset
  <1>3. \A i, j \in F : i # j => root[i] # root[j]
    <2>1. \A i, j \in F : i < j => i \in 1..(j - 1)
      BY <1>1
    <2>2. \A i, j \in F : i < j => root[i] # root[j]
      BY <2>1
    <2>3. \A i, j \in F : i # j => i < j \/ j < i
      BY <1>1
    <2> QED BY <2>2, <2>3
  <1>4. S = {i \in F : Login!Before(F, i) < IdentityLimit}
    BY DEF Login!Scanned, Login!FirstOf
  <1> HIDE DEF F, S
  <1>5. S \in SUBSET F
    BY <1>4
  <1>6. IsFiniteSet(S) /\ Cardinality(S) \in Nat /\ Cardinality(S) <= IdentityLimit
    BY <1>1, <1>2, <1>4, <1>5, RanksFit
  <1> QED BY <1>2, <1>3, <1>5, <1>6 DEF S

\* The operations candidates are one for each identity the scan kept, no two with one DID.
LEMMA OperationsCandidates ==
  ASSUME NEW c, c = Login!ScanIdentityCandidates("buckyos-home")
  PROVE  /\ IsList(c) /\ Len(c) = Cardinality(Login!Scanned(Identities))
         /\ \A n \in 1..Len(c) : c[n].source = "buckyos-home" /\ c[n].did \in Login!OperationsDids
         /\ \A m, n \in 1..Len(c) : m # n => c[m].did # c[n].did
  <1> DEFINE S == Login!Scanned(Identities)
  <1>1. Login!Root("buckyos-home") = Identities
    BY DEF Login!Root
  <1>2. c = Login!Candidates(S, "buckyos-home")
    BY <1>1 DEF Login!ScanIdentityCandidates
  <1>3. S \in SUBSET Nat /\ IsFiniteSet(S) /\ \A i, j \in S : i # j => Identities[i] # Identities[j]
    BY ScannedOnce
  <1> HIDE DEF S
  <1>4. /\ IsList(c) /\ Len(c) = Cardinality(S)
        /\ \A n \in 1..Len(c) : c[n].source = "buckyos-home" /\ c[n].did \in {Identities[i] : i \in S}
        /\ \A m, n \in 1..Len(c) : m # n => c[m].did # c[n].did
    BY <1>1, <1>2, <1>3, CandidatesAreOnce
  <1> QED BY <1>4 DEF Login!OperationsDids, S

\* The developer candidates fit in what the first scan left of the limit, and none repeats an
\* operations DID.
LEMMA DevelopersCandidates ==
  ASSUME NEW c, c = Login!DeveloperCandidates
  PROVE  /\ IsList(c) /\ Len(c) + Cardinality(Login!Scanned(Identities)) <= IdentityLimit
         /\ \A n \in 1..Len(c) : c[n].source = "buckycli-home" /\ c[n].did \notin Login!OperationsDids
         /\ \A m, n \in 1..Len(c) : m # n => c[m].did # c[n].did
  <1> DEFINE D == Login!Scanned(Developers)
             N == {i \in D : Developers[i] \notin Login!OperationsDids}
             S == {i \in N : Login!Before(N, i) < Login!Remaining}
  <1>1. Login!Root("buckycli-home") = Developers
    BY DEF Login!Root
  <1>2. c = Login!Candidates(S, "buckycli-home")
    BY DEF Login!DeveloperCandidates, Login!FirstOf
  <1>3. D \in SUBSET Nat /\ IsFiniteSet(D) /\ \A i, j \in D : i # j => Developers[i] # Developers[j]
    BY ScannedOnce
  <1>4. Login!Remaining \in Nat /\ Cardinality(Login!Scanned(Identities)) \in Nat
        /\ Login!Remaining + Cardinality(Login!Scanned(Identities)) = IdentityLimit
    <2> DEFINE m == Cardinality(Login!Scanned(Identities))
    <2>1. m \in Nat /\ m <= IdentityLimit /\ IdentityLimit \in Nat
      BY ScannedOnce, LoginAssumption
    <2>2. Login!Remaining = IdentityLimit - m
      BY Counts DEF Login!Remaining
    <2> HIDE DEF m
    <2>3. Login!Remaining \in Nat /\ Login!Remaining + m = IdentityLimit
      BY <2>1, <2>2
    <2> QED BY <2>1, <2>3 DEF m
  <1> HIDE DEF D
  <1>5. N \in SUBSET Nat /\ IsFiniteSet(N) /\ N \in SUBSET D
    BY <1>3, FS_Subset
  <1>6. \A i \in N : Developers[i] \notin Login!OperationsDids
    OBVIOUS
  <1> HIDE DEF N
  <1>7. S \in SUBSET N /\ \A i \in S : Login!Before(N, i) < Login!Remaining
    OBVIOUS
  <1> HIDE DEF S
  <1>8. IsFiniteSet(S) /\ Cardinality(S) \in Nat /\ Cardinality(S) <= Login!Remaining
    BY <1>4, <1>5, <1>7, RanksFit
  <1>9. /\ IsList(c) /\ Len(c) = Cardinality(S)
        /\ \A n \in 1..Len(c) : c[n].source = "buckycli-home" /\ c[n].did \in {Developers[i] : i \in S}
        /\ \A m, n \in 1..Len(c) : m # n => c[m].did # c[n].did
    <2>1. S \in SUBSET Nat /\ \A i, j \in S : i # j => Developers[i] # Developers[j]
      BY <1>3, <1>5, <1>7
    <2> QED BY <1>1, <1>2, <1>8, <2>1, CandidatesAreOnce
  <1> QED BY <1>4, <1>6, <1>7, <1>8, <1>9

-----------------------------------------------------------------------------
(* CliSession: what a login offers.                                        *)

CallFields == {"verb", "at", "with", "left", "mode", "tried", "offered", "search", "again", "check", "live", "got"}
DidsOf(S) == {m.did : m \in S}
OffersOf(r) == r.tried \cup DidsOf(r.with)
\* The search has the operations' identities only.
AtOperations(r) == r.search /\ r.mode = "unread"
BudgetOf(r) == IF AtOperations(r) THEN Cardinality(Login!Scanned(Identities)) ELSE IdentityLimit
PendingOf(r) == IF r.at = "login" THEN 1 ELSE 0
Choosing == {"authenticate", "acceptedMode", "chosenMode", "useAccepted", "useChosen"}

\* Those left to try are no two alike, and none that was offered.
LeftOver(l, offers, ops, enabled) ==
  /\ IsList(l)
  /\ \A n \in 1..Len(l) : /\ l[n].did \notin offers
                          /\ ops => l[n].did \in Login!OperationsDids
                          /\ l[n].source = "buckycli-home" => enabled
  /\ \A m, n \in 1..Len(l) : m # n => l[m].did # l[n].did

CallTells(r) ==
  /\ DOMAIN r = CallFields /\ r.live = TRUE
  /\ r.offered \in Nat /\ IsFiniteSet(r.tried) /\ Cardinality(r.tried) = r.offered
CallOffers(r) ==
  /\ r.at = "login" => \E m : r.with = {m} /\ m.did \notin r.tried /\ (m.source = "buckycli-home" => r.mode = "enabled")
  /\ r.at # "login" => DidsOf(r.with) \subseteq r.tried
  /\ AtOperations(r) => OffersOf(r) \subseteq Login!OperationsDids
CallChooses(r) ==
  /\ r.at \in Choosing => r.offered = 0 /\ r.tried = {} /\ r.left = <<>> /\ r.search = FALSE
  /\ r.at \in {"useAccepted", "useChosen"} => r.mode = "enabled"
  /\ r.at \in {"next", "searchMode"} => r.search
  /\ r.at = "searchMode" => r.left = <<>> /\ r.mode = "unread"
CallIs(r) ==
  /\ CallTells(r) /\ CallOffers(r) /\ CallChooses(r)
  /\ LeftOver(r.left, OffersOf(r), AtOperations(r), r.mode = "enabled")
  /\ r.offered + PendingOf(r) + Len(r.left) <= BudgetOf(r)

LoginInv ==
  /\ s1 \in Sessions /\ s3.mode \in {"enabled", "disabled", "unavailable"}
  /\ s4.until \in Nat /\ s9 \in Nat
  /\ s5 = {} \/ \E m : s5 = {m}
  /\ DOMAIN s7 = Callers /\ \A c \in Callers : CallIs(s7[c])

\* What a call may still offer is at most the limit.
LEMMA Budgets == \A r : BudgetOf(r) \in Nat /\ BudgetOf(r) <= IdentityLimit
  BY ScannedOnce, LoginAssumption DEF BudgetOf

\* A call that is over, or asks for a password.
LEMMA CallRests ==
  ASSUME NEW r, CallIs(r), r.at # "login",
         NEW n, DOMAIN n = CallFields, n.at \in {"idle", "password"}, n.live = TRUE, n.with = r.with, n.left = r.left,
         n.mode = r.mode, n.tried = r.tried, n.offered = r.offered, n.search = r.search
  PROVE  CallIs(n)
  <1>1. CallTells(n) /\ CallOffers(n) /\ CallChooses(n)
    BY DEF CallIs, CallTells, CallOffers, CallChooses, Choosing, OffersOf, AtOperations
  <1>2. OffersOf(n) = OffersOf(r) /\ AtOperations(n) = AtOperations(r) /\ PendingOf(n) = PendingOf(r)
        /\ BudgetOf(n) = BudgetOf(r)
    BY DEF OffersOf, AtOperations, PendingOf, BudgetOf
  <1> QED BY <1>1, <1>2 DEF CallIs

\* One that has offered nothing.
LEMMA CallIsFresh ==
  ASSUME NEW n, DOMAIN n = CallFields, n.live = TRUE, DidsOf(n.with) = {}, n.left = <<>>, n.tried = {}, n.offered = 0,
         n.search = FALSE, n.at \in Choosing \cup {"idle"}, n.at \in {"useAccepted", "useChosen"} => n.mode = "enabled"
  PROVE  CallIs(n)
  <1>1. CallTells(n)
    BY FS_EmptySet DEF CallTells
  <1>2. CallOffers(n) /\ CallChooses(n)
    BY DEF CallOffers, CallChooses, Choosing, AtOperations
  <1>3. LeftOver(n.left, OffersOf(n), AtOperations(n), n.mode = "enabled")
    BY DEF LeftOver, IsList
  <1>4. n.offered + PendingOf(n) + Len(n.left) <= BudgetOf(n)
    BY Budgets DEF PendingOf, Choosing
  <1> QED BY <1>1, <1>2, <1>3, <1>4 DEF CallIs

\* A call that still chooses its credentials has offered no identity.
LEMMA ChoosingIsFresh ==
  ASSUME NEW r, CallIs(r), r.at \in Choosing
  PROVE  /\ DOMAIN r = CallFields /\ r.live = TRUE /\ DidsOf(r.with) = {} /\ r.left = <<>> /\ r.tried = {}
         /\ r.offered = 0 /\ r.search = FALSE
  BY DEF CallIs, CallTells, CallOffers, CallChooses, Choosing

\* The identity that was accepted, or chosen, is offered once.
LEMMA CallOffersOne ==
  ASSUME NEW n, NEW m, DOMAIN n = CallFields, n.live = TRUE, n.with = {m}, n.left = <<>>, n.tried = {}, n.offered = 0,
         n.search = FALSE, n.at = "login", m.source = "buckycli-home" => n.mode = "enabled"
  PROVE  CallIs(n)
  <1>1. CallTells(n)
    BY FS_EmptySet DEF CallTells
  <1>2. CallOffers(n) /\ CallChooses(n)
    BY DEF CallOffers, CallChooses, Choosing, AtOperations
  <1>3. LeftOver(n.left, OffersOf(n), AtOperations(n), n.mode = "enabled")
    BY DEF LeftOver, IsList
  <1>4. n.offered + PendingOf(n) + Len(n.left) <= BudgetOf(n)
    BY LoginAssumption DEF PendingOf, BudgetOf, AtOperations
  <1> QED BY <1>1, <1>2, <1>3, <1>4 DEF CallIs

\* A search begins with the operations' identities ...
LEMMA CallSearches ==
  ASSUME NEW r, CallIs(r), r.at \in Choosing,
         NEW n, DOMAIN n = CallFields, n.at = "next", n.live = TRUE, n.with = r.with, n.mode = r.mode, n.tried = {},
         n.offered = 0, n.search = TRUE,
         n.left = <<>> \/ n.left = Login!ScanIdentityCandidates("buckyos-home")
  PROVE  CallIs(n)
  <1>1. DidsOf(n.with) = {} /\ OffersOf(n) = {}
    BY ChoosingIsFresh DEF OffersOf
  <1>2. CallTells(n)
    BY FS_EmptySet DEF CallTells
  <1>3. CallOffers(n) /\ CallChooses(n)
    BY <1>1 DEF CallOffers, CallChooses, Choosing
  <1>4. /\ IsList(n.left) /\ Len(n.left) <= Cardinality(Login!Scanned(Identities)) /\ Len(n.left) \in Nat
        /\ \A i \in 1..Len(n.left) : n.left[i].source = "buckyos-home" /\ n.left[i].did \in Login!OperationsDids
        /\ \A i, j \in 1..Len(n.left) : i # j => n.left[i].did # n.left[j].did
    <2>1. CASE n.left = <<>>
      BY <2>1, ScannedOnce DEF IsList
    <2>2. CASE n.left = Login!ScanIdentityCandidates("buckyos-home")
      BY <2>2, OperationsCandidates, ScannedOnce DEF IsList
    <2> QED BY <2>1, <2>2
  <1>5. LeftOver(n.left, OffersOf(n), AtOperations(n), n.mode = "enabled")
    BY <1>1, <1>4 DEF LeftOver
  <1>6. n.offered + PendingOf(n) + Len(n.left) <= BudgetOf(n)
    BY <1>4, ScannedOnce, LoginAssumption DEF PendingOf, BudgetOf
  <1> QED BY <1>2, <1>3, <1>5, <1>6 DEF CallIs

\* ... and goes on, by what the Zone says, with the developers'.
LEMMA CallSearchesOn ==
  ASSUME NEW r, CallIs(r), r.at = "searchMode",
         NEW n, DOMAIN n = CallFields, n.at = "next", n.live = TRUE, n.with = r.with, n.tried = r.tried,
         n.offered = r.offered, n.search = r.search, n.mode # "unread",
         n.left = <<>> \/ (n.mode = "enabled" /\ n.left = Login!DeveloperCandidates)
  PROVE  CallIs(n)
  <1>1. AtOperations(r) /\ ~AtOperations(n) /\ r.search /\ r.left = <<>>
    BY DEF CallIs, CallChooses, AtOperations
  <1>2. OffersOf(n) = OffersOf(r) /\ OffersOf(n) \subseteq Login!OperationsDids
    BY <1>1 DEF CallIs, CallOffers, OffersOf
  <1>3. CallTells(n)
    BY DEF CallTells, CallIs
  <1>4. CallOffers(n) /\ CallChooses(n)
    BY <1>1 DEF CallOffers, CallChooses, Choosing, CallIs
  <1>5. n.offered \in Nat /\ n.offered <= Cardinality(Login!Scanned(Identities)) /\ Cardinality(Login!Scanned(Identities)) \in Nat
    BY <1>1, ScannedOnce DEF CallIs, CallTells, PendingOf, BudgetOf
  <1>6. /\ IsList(n.left) /\ Len(n.left) \in Nat
        /\ Len(n.left) + Cardinality(Login!Scanned(Identities)) <= IdentityLimit
        /\ \A i \in 1..Len(n.left) : n.mode = "enabled" /\ n.left[i].did \notin Login!OperationsDids
        /\ \A i, j \in 1..Len(n.left) : i # j => n.left[i].did # n.left[j].did
    <2>1. CASE n.left = <<>>
      BY <2>1, ScannedOnce DEF IsList
    <2>2. CASE n.mode = "enabled" /\ n.left = Login!DeveloperCandidates
      BY <2>2, DevelopersCandidates DEF IsList
    <2> QED BY <2>1, <2>2
  <1>7. LeftOver(n.left, OffersOf(n), AtOperations(n), n.mode = "enabled")
    BY <1>1, <1>2, <1>6 DEF LeftOver
  <1>8. n.offered + PendingOf(n) + Len(n.left) <= BudgetOf(n)
    <2>1. PendingOf(n) = 0 /\ BudgetOf(n) = IdentityLimit
      BY <1>1 DEF PendingOf, BudgetOf
    <2> QED BY <1>5, <1>6, <2>1, LoginAssumption
  <1> QED BY <1>3, <1>4, <1>7, <1>8 DEF CallIs

\* What is left of a list after its first member.
LEMMA TailOf ==
  ASSUME NEW l, IsList(l), l # <<>>
  PROVE  /\ IsList(Tail(l)) /\ Len(l) \in Nat /\ Len(l) > 0 /\ Len(Tail(l)) = Len(l) - 1 /\ Head(l) = l[1]
         /\ \A n \in 1..Len(Tail(l)) : Tail(l)[n] = l[n + 1] /\ n + 1 \in 1..Len(l)
  <1> DEFINE S == {l[i] : i \in 1..Len(l)}
  <1>1. l \in Seq(S) /\ Len(l) \in Nat
    BY ListLength DEF IsList
  <1> HIDE DEF S
  <1>2. /\ Len(l) > 0 /\ Tail(l) \in Seq(S) /\ Len(Tail(l)) = Len(l) - 1 /\ Head(l) = l[1]
        /\ \A n \in 1..Len(Tail(l)) : Tail(l)[n] = l[n + 1]
    BY <1>1, HeadTailProperties, EmptySeq
  <1>3. IsList(Tail(l))
    BY <1>2, LenProperties DEF IsList
  <1> QED BY <1>1, <1>2, <1>3

\* The next candidate.
LEMMA CallOffersNext ==
  ASSUME NEW r, CallIs(r), r.at = "next", r.left # <<>>,
         NEW n, DOMAIN n = CallFields, n.at = "login", n.live = TRUE, n.with = {Head(r.left)}, n.left = Tail(r.left),
         n.mode = r.mode, n.tried = r.tried, n.offered = r.offered, n.search = r.search
  PROVE  CallIs(n)
  <1> DEFINE l == r.left  t == Tail(l)  m == Head(l)
  <1>1. LeftOver(l, OffersOf(r), AtOperations(r), r.mode = "enabled") /\ IsList(l)
    BY DEF CallIs, LeftOver
  <1>2. /\ IsList(t) /\ Len(l) \in Nat /\ Len(l) > 0 /\ Len(t) = Len(l) - 1 /\ m = l[1]
        /\ \A i \in 1..Len(t) : t[i] = l[i + 1] /\ i + 1 \in 1..Len(l)
    BY <1>1, TailOf
  <1>3. OffersOf(n) = r.tried \cup {m.did} /\ AtOperations(n) = AtOperations(r) /\ BudgetOf(n) = BudgetOf(r)
    BY DEF OffersOf, DidsOf, AtOperations, BudgetOf
  <1>4. r.tried \subseteq OffersOf(r)
    BY DEF OffersOf
  <1> HIDE DEF l, t, m
  <1>5. 1 \in 1..Len(l)
    BY <1>2
  <1>6. /\ m.did \notin r.tried /\ (m.source = "buckycli-home" => r.mode = "enabled")
        /\ AtOperations(r) => m.did \in Login!OperationsDids
    BY <1>1, <1>2, <1>4, <1>5 DEF LeftOver
  <1>7. LeftOver(t, r.tried \cup {m.did}, AtOperations(r), r.mode = "enabled")
    <2>1. \A i \in 1..Len(t) : t[i].did \notin r.tried /\ t[i].did # m.did
      BY <1>1, <1>2, <1>4, <1>5 DEF LeftOver
    <2>2. \A i \in 1..Len(t) : /\ AtOperations(r) => t[i].did \in Login!OperationsDids
                               /\ t[i].source = "buckycli-home" => r.mode = "enabled"
      BY <1>1, <1>2 DEF LeftOver
    <2>3. \A i, j \in 1..Len(t) : i # j => t[i].did # t[j].did
      <3>1. \A i, j \in 1..Len(t) : i # j => i + 1 # j + 1
        BY <1>2
      <3> QED BY <1>1, <1>2, <3>1 DEF LeftOver
    <2> QED BY <1>2, <2>1, <2>2, <2>3 DEF LeftOver
  <1>8. CallTells(n)
    BY DEF CallIs, CallTells
  <1>9. CallOffers(n) /\ CallChooses(n)
    <2>1. n.with = {m} /\ (AtOperations(r) => r.tried \subseteq Login!OperationsDids)
      BY <1>4 DEF CallIs, CallOffers, m, l
    <2> QED BY <1>3, <1>6, <2>1 DEF CallOffers, CallChooses, Choosing
  <1>10. n.offered + PendingOf(n) + Len(n.left) <= BudgetOf(n)
    <2>1. r.offered \in Nat /\ r.offered + 0 + Len(l) <= BudgetOf(r) /\ BudgetOf(r) \in Nat
      BY Budgets DEF CallIs, CallTells, PendingOf, l
    <2>2. PendingOf(n) = 1 /\ n.left = t
      BY DEF PendingOf, t, l
    <2>3. n.offered = r.offered /\ Len(n.left) = Len(l) - 1 /\ Len(l) \in Nat /\ BudgetOf(n) = BudgetOf(r)
      BY <1>2, <1>3, <2>2
    <2> QED BY <2>1, <2>2, <2>3
  <1>11. LeftOver(n.left, OffersOf(n), AtOperations(n), n.mode = "enabled")
    BY <1>3, <1>7 DEF t, l
  <1> QED BY <1>8, <1>9, <1>10, <1>11 DEF CallIs

\* A call whose operations candidates are used up may ask for the developer mode.
LEMMA CallAsksMode ==
  ASSUME NEW r, CallIs(r), r.at = "next", r.left = <<>>, r.mode = "unread",
         NEW n, DOMAIN n = CallFields, n.at = "searchMode", n.live = TRUE, n.with = r.with, n.left = r.left,
         n.mode = r.mode, n.tried = r.tried, n.offered = r.offered, n.search = r.search
  PROVE  CallIs(n)
  <1>1. CallTells(n) /\ CallOffers(n) /\ CallChooses(n)
    BY DEF CallIs, CallTells, CallOffers, CallChooses, Choosing, OffersOf, AtOperations
  <1>2. OffersOf(n) = OffersOf(r) /\ AtOperations(n) = AtOperations(r) /\ PendingOf(n) = PendingOf(r)
        /\ BudgetOf(n) = BudgetOf(r)
    BY DEF OffersOf, AtOperations, PendingOf, BudgetOf
  <1> QED BY <1>1, <1>2 DEF CallIs

\* A set with one more member has one more member.
LEMMA OneMore ==
  ASSUME NEW S, NEW x, NEW k, IsFiniteSet(S), Cardinality(S) = k, x \notin S
  PROVE  IsFiniteSet(S \cup {x}) /\ Cardinality(S \cup {x}) = k + 1
  BY FS_AddElement

\* An identity was offered: it is over, or the next one's turn.
LEMMA CallOffered ==
  ASSUME NEW r, CallIs(r), r.at = "login",
         NEW n, DOMAIN n = CallFields, n.at = "idle" \/ (n.at = "next" /\ r.search), n.live = TRUE, n.with = r.with,
         n.left = r.left, n.mode = r.mode, n.tried = r.tried \cup {m.did : m \in r.with}, n.offered = r.offered + 1,
         n.search = r.search
  PROVE  CallIs(n)
  <1>1. PICK m : r.with = {m} /\ m.did \notin r.tried
    BY DEF CallIs, CallOffers
  <1>2. n.tried = r.tried \cup {m.did} /\ DidsOf(n.with) = {m.did} /\ OffersOf(n) = OffersOf(r)
    BY <1>1 DEF DidsOf, OffersOf
  <1>3. AtOperations(n) = AtOperations(r) /\ BudgetOf(n) = BudgetOf(r) /\ PendingOf(n) = 0 /\ PendingOf(r) = 1
    BY DEF AtOperations, BudgetOf, PendingOf
  <1>4. CallTells(n)
    <2>1. r.offered \in Nat /\ IsFiniteSet(r.tried) /\ Cardinality(r.tried) = r.offered
      BY DEF CallIs, CallTells
    <2>2. IsFiniteSet(n.tried) /\ Cardinality(n.tried) = r.offered + 1
      <3> DEFINE x == m.did
      <3>1. x \notin r.tried /\ n.tried = r.tried \cup {x}
        BY <1>1, <1>2
      <3> HIDE DEF x
      <3>2. IsFiniteSet(r.tried \cup {x}) /\ Cardinality(r.tried \cup {x}) = r.offered + 1
        BY <2>1, <3>1, OneMore
      <3> QED BY <3>1, <3>2
    <2> QED BY <2>1, <2>2 DEF CallTells
  <1>5. CallOffers(n) /\ CallChooses(n)
    BY <1>2, <1>3 DEF CallOffers, CallChooses, Choosing, CallIs
  <1>6. n.offered + PendingOf(n) + Len(n.left) <= BudgetOf(n)
    <2>1. r.offered \in Nat /\ r.offered + 1 + Len(r.left) <= BudgetOf(r) /\ Len(r.left) \in Nat /\ BudgetOf(r) \in Nat
      BY <1>3, Budgets DEF CallIs, CallTells, LeftOver, IsList
    <2> QED BY <1>3, <2>1
  <1> QED BY <1>2, <1>3, <1>4, <1>5, <1>6 DEF CallIs

-----------------------------------------------------------------------------
(* CliSession: its steps.                                                  *)

LEMMA CallerChanges ==
  ASSUME LoginInv, NEW c \in Callers, NEW n, s7' = [s7 EXCEPT ![c] = n], CallIs(n)
  PROVE  DOMAIN s7' = Callers /\ \A d \in Callers : CallIs(s7'[d])
  BY DEF LoginInv

\* A step of a call that changes neither the session nor the identity accepted.
LEMMA CallGoes ==
  ASSUME LoginInv, UNCHANGED <<s1, s3, s4, s5, s9>>,
         NEW c \in Callers, NEW n, s7' = [s7 EXCEPT ![c] = n], CallIs(n)
  PROVE  LoginInv'
  BY CallerChanges DEF LoginInv

\* A caller without a call has offered nothing.
LEMMA NoCallIsFresh ==
  /\ DOMAIN Login!NoCall = CallFields /\ Login!NoCall.at = "idle" /\ Login!NoCall.live = TRUE
  /\ Login!NoCall.with = {} /\ Login!NoCall.left = <<>> /\ Login!NoCall.tried = {} /\ Login!NoCall.offered = 0
  /\ Login!NoCall.search = FALSE
  BY DEF Login!NoCall, CallFields

\* The session of the command line starts in its invariant.
LEMMA LoginInit == Login!Init => LoginInv
  <1> SUFFICES ASSUME Login!Init PROVE LoginInv
    OBVIOUS
  <1>1. CallIs(Login!NoCall)
    <2>1. DidsOf(Login!NoCall.with) = {}
      BY NoCallIsFresh DEF DidsOf
    <2> QED BY <2>1, NoCallIsFresh, CallIsFresh
  <1>2. DOMAIN s7 = Callers /\ \A c \in Callers : CallIs(s7[c])
    BY <1>1 DEF Login!Init
  <1>3. s1 \in Sessions /\ s5 = {} /\ s9 = 0 /\ s4.until = 0
    BY DEF Login!Init, Login!NoSession
  <1>4. s3.mode \in {"enabled", "disabled", "unavailable"}
    BY DEF Login!Init
  <1> QED BY <1>2, <1>3, <1>4 DEF LoginInv

\* A call that has done nothing yet: it is over, or chooses its credentials.
LEMMA CallBegins ==
  ASSUME NEW n, DOMAIN n = CallFields, n.at \in {"idle", "authenticate"}, n.live = TRUE,
         n.with = {}, n.left = <<>>, n.tried = {}, n.offered = 0, n.search = FALSE
  PROVE  CallIs(n)
  <1>1. DidsOf(n.with) = {}
    BY DEF DidsOf
  <1> QED BY <1>1, CallIsFresh DEF Choosing

\* A call that is given its session ends, or authenticates anew.
LEMMA CallReturns ==
  ASSUME LoginInv, NEW c \in Callers, NEW r, NEW s, Login!Returns(c, r, s), s.until \in Nat,
         r.check = TRUE \/ s.until > s9, DOMAIN r = CallFields,
         \A n : /\ DOMAIN n = CallFields /\ n.at = "idle" /\ n.live = TRUE /\ n.with = r.with /\ n.left = r.left
                /\ n.mode = r.mode /\ n.tried = r.tried /\ n.offered = r.offered /\ n.search = r.search
                => CallIs(n),
         r.live = TRUE
  PROVE  DOMAIN s7' = Callers /\ \A d \in Callers : CallIs(s7'[d])
  <1> DEFINE live == [r EXCEPT !.at = "idle", !.got = "session", !.live = TRUE]
             anew == [Login!NoCall EXCEPT !.verb = r.verb, !.at = "authenticate"]
             over == [r EXCEPT !.at = "idle", !.got = "SESSION_EXPIRED"]
  <1>0. s9 \in Nat
    BY DEF LoginInv
  <1>2. \/ /\ ~r.check \/ s.until > s9 + 1
           /\ s7' = [s7 EXCEPT ![c] = [r EXCEPT !.at = "idle", !.got = "session", !.live = s.until > s9]]
        \/ s7' = [s7 EXCEPT ![c] = anew]
        \/ s7' = [s7 EXCEPT ![c] = over]
    BY Zenon DEF Login!Returns, Login!Goes
  <1>3. s7' = [s7 EXCEPT ![c] = live] \/ s7' = [s7 EXCEPT ![c] = anew] \/ s7' = [s7 EXCEPT ![c] = over]
    <2>1. ASSUME ~r.check \/ s.until > s9 + 1 PROVE (s.until > s9) = TRUE
      BY <1>0, <2>1
    <2> QED BY <1>2, <2>1
  <1>4. CallIs(live)
    <2>1. /\ DOMAIN live = CallFields /\ live.at = "idle" /\ live.live = TRUE /\ live.with = r.with /\ live.left = r.left
          /\ live.mode = r.mode /\ live.tried = r.tried /\ live.offered = r.offered /\ live.search = r.search
      BY DEF CallFields
    <2> HIDE DEF live
    <2> QED BY <2>1
  <1>5. CallIs(over)
    <2>1. /\ DOMAIN over = CallFields /\ over.at = "idle" /\ over.live = TRUE /\ over.with = r.with /\ over.left = r.left
          /\ over.mode = r.mode /\ over.tried = r.tried /\ over.offered = r.offered /\ over.search = r.search
      BY DEF CallFields
    <2> HIDE DEF over
    <2> QED BY <2>1
  <1>6. CallIs(anew)
    <2>1. /\ DOMAIN anew = CallFields /\ anew.at = "authenticate" /\ anew.live = TRUE /\ anew.with = {}
          /\ anew.left = <<>> /\ anew.tried = {} /\ anew.offered = 0 /\ anew.search = FALSE
      BY NoCallIsFresh DEF CallFields
    <2> HIDE DEF anew
    <2> QED BY <2>1, CallBegins
  <1> HIDE DEF live, anew, over
  <1> QED BY <1>3, <1>4, <1>5, <1>6, CallerChanges

\* A call that begins keeps the invariant.
LEMMA LoginCalls ==
  ASSUME LoginInv, NEW c \in Callers, NEW verb \in {"connect", "call", "reconnect"}, Login!Call(c, verb)
  PROVE  LoginInv'
  <1> DEFINE r == [Login!NoCall EXCEPT !.verb = verb, !.check = verb = "call"]
  <1>1. UNCHANGED <<s1, s3, s4, s5, s9>>
    BY DEF Login!Call
  <1>2. \/ s7' = [s7 EXCEPT ![c] = [r EXCEPT !.at = "authenticate"]]
        \/ /\ ~(s4 = Login!NoSession \/ verb = "reconnect") /\ (verb = "connect" => s4 = Login!NoSession)
           /\ Login!Returns(c, r, s4)
    BY Zenon DEF Login!Call, Login!Goes
  <1>3. /\ DOMAIN r = CallFields /\ r.at = "idle" /\ r.live = TRUE /\ r.with = {} /\ r.left = <<>> /\ r.tried = {}
        /\ r.offered = 0 /\ r.search = FALSE
    BY NoCallIsFresh DEF CallFields
  <1>6. r.check = (verb = "call")
    BY NoCallIsFresh DEF CallFields
  <1> HIDE DEF r
  <1>4. CASE s7' = [s7 EXCEPT ![c] = [r EXCEPT !.at = "authenticate"]]
    <2> DEFINE n == [r EXCEPT !.at = "authenticate"]
    <2>1. /\ DOMAIN n = CallFields /\ n.at = "authenticate" /\ n.live = TRUE /\ n.with = {} /\ n.left = <<>> /\ n.tried = {}
          /\ n.offered = 0 /\ n.search = FALSE
      BY <1>3 DEF CallFields
    <2> HIDE DEF n
    <2>2. CallIs(n) /\ s7' = [s7 EXCEPT ![c] = n]
      BY <1>4, <2>1, CallBegins DEF n
    <2> QED BY <1>1, <2>2, CallGoes
  <1>5. CASE /\ ~(s4 = Login!NoSession \/ verb = "reconnect") /\ (verb = "connect" => s4 = Login!NoSession)
             /\ Login!Returns(c, r, s4)
    <2>0. verb = "call"
      BY <1>5
    <2>1. r.check = TRUE
      BY <2>0, <1>6
    <2>2. ASSUME NEW n, DOMAIN n = CallFields /\ n.at = "idle" /\ n.live = TRUE /\ n.with = r.with /\ n.left = r.left
                        /\ n.mode = r.mode /\ n.tried = r.tried /\ n.offered = r.offered /\ n.search = r.search
          PROVE  CallIs(n)
      BY <1>3, <2>2, CallBegins
    <2>3. s4.until \in Nat
      BY DEF LoginInv
    <2>4. DOMAIN s7' = Callers /\ \A d \in Callers : CallIs(s7'[d])
      BY <1>3, <1>5, <2>1, <2>2, <2>3, CallReturns
    <2> QED BY <1>1, <2>4 DEF LoginInv
  <1> QED BY <1>2, <1>4, <1>5

\* A token that is given, or comes for a password.
LEMMA LoginTakes ==
  ASSUME LoginInv, NEW c \in Callers, NEW x, x.until \in Nat, Login!Takes(c, x), s7[c].at # "login",
         UNCHANGED <<s1, s3, s5, s9>>
  PROVE  LoginInv'
  <1> DEFINE r == s7[c]
  <1>1. CallIs(r) /\ DOMAIN r = CallFields /\ r.live = TRUE
    BY DEF LoginInv, CallIs, CallTells
  <1>0. ASSUME NEW n, DOMAIN n = CallFields /\ n.at = "idle" /\ n.live = TRUE /\ n.with = r.with /\ n.left = r.left
                      /\ n.mode = r.mode /\ n.tried = r.tried /\ n.offered = r.offered /\ n.search = r.search
        PROVE  CallIs(n)
    <2> HIDE DEF r
    <2> QED BY <1>0, <1>1, CallRests DEF r
  <1>2. CASE s7' = [s7 EXCEPT ![c] = [r EXCEPT !.at = "idle", !.got = "SESSION_EXPIRED"]] /\ UNCHANGED s4
    <2> DEFINE n == [r EXCEPT !.at = "idle", !.got = "SESSION_EXPIRED"]
    <2>1. /\ DOMAIN n = CallFields /\ n.at = "idle" /\ n.live = TRUE /\ n.with = r.with /\ n.left = r.left
          /\ n.mode = r.mode /\ n.tried = r.tried /\ n.offered = r.offered /\ n.search = r.search
      BY <1>1 DEF CallFields
    <2> HIDE DEF n, r
    <2>2. CallIs(n)
      BY <1>0, <2>1
    <2> QED BY <1>2, <2>2, CallGoes DEF n, r
  <1>3. CASE ~(x.until <= s9) /\ s4' = x /\ Login!Returns(c, r, x)
    <2>1. x.until > s9
      BY <1>3 DEF LoginInv
    <2> HIDE DEF r
    <2>2. DOMAIN s7' = Callers /\ \A d \in Callers : CallIs(s7'[d])
      BY <1>0, <1>1, <1>3, <2>1, CallReturns
    <2> QED BY <1>3, <2>2 DEF LoginInv
  <1> QED BY <1>2, <1>3, Zenon DEF Login!Takes, Login!Fails, Login!Goes

\* What is resolved is at most one identity, of the root that was asked.
LEMMA ResolvedIsOne ==
  ASSUME NEW did, NEW source, Login!Resolve(did, source) # {}
  PROVE  \E m : Login!Resolve(did, source) = {m} /\ m.source = source
  <1> DEFINE m == Login!Material(did, source)
  <1>1. m.source = source
    BY DEF Login!Material
  <1>2. Login!Resolve(did, source) = {m}
    BY DEF Login!Resolve
  <1> QED BY <1>1, <1>2

\* From here on the identity is offered.
LEMMA CallLogsIn ==
  ASSUME LoginInv, UNCHANGED <<s1, s3, s4, s5, s9>>, NEW c \in Callers, s7[c].at \in Choosing,
         NEW m, m.source = "buckycli-home" => s7[c].mode = "enabled",
         \/ s7' = [s7 EXCEPT ![c] = [s7[c] EXCEPT !.at = "login", !.with = {m}]]
         \/ s7' = [s7 EXCEPT ![c] = [s7[c] EXCEPT !.at = "login", !.again = TRUE, !.with = {m}]]
  PROVE  LoginInv'
  <1> DEFINE r == s7[c]  first == [r EXCEPT !.at = "login", !.with = {m}]
             again == [r EXCEPT !.at = "login", !.again = TRUE, !.with = {m}]
  <1>1. CallIs(r)
    BY DEF LoginInv
  <1>2. DOMAIN r = CallFields /\ r.live = TRUE /\ r.left = <<>> /\ r.tried = {} /\ r.offered = 0 /\ r.search = FALSE
    BY <1>1, ChoosingIsFresh
  <1>3. ASSUME NEW n \in {first, again} PROVE CallIs(n)
    <2>1. /\ DOMAIN n = CallFields /\ n.at = "login" /\ n.live = TRUE /\ n.with = {m} /\ n.left = <<>> /\ n.tried = {}
          /\ n.offered = 0 /\ n.search = FALSE /\ n.mode = r.mode
      BY <1>2, <1>3 DEF CallFields
    <2> QED BY <2>1, CallOffersOne
  <1>4. PICK n \in {first, again} : s7' = [s7 EXCEPT ![c] = n]
    OBVIOUS
  <1> HIDE DEF first, again
  <1> QED BY <1>3, <1>4, CallGoes

\* It waits for the mode of the Zone, or uses what it allowed.
LEMMA CallChoosesOn ==
  ASSUME LoginInv, UNCHANGED <<s1, s3, s4, s9>>, s5' = s5 \/ s5' = {}, NEW c \in Callers, s7[c].at \in Choosing,
         NEW n, s7' = [s7 EXCEPT ![c] = n], DOMAIN n = CallFields,
         n.at \in Choosing \cup {"idle"}, n.at \in {"useAccepted", "useChosen"} => n.mode = "enabled",
         n.live = s7[c].live, n.with = s7[c].with, n.left = s7[c].left, n.tried = s7[c].tried,
         n.offered = s7[c].offered, n.search = s7[c].search
  PROVE  LoginInv'
  <1>1. CallIs(s7[c])
    BY DEF LoginInv
  <1>2. CallIs(n)
    BY <1>1, ChoosingIsFresh, CallIsFresh
  <1> QED BY <1>2, CallerChanges DEF LoginInv

\* Choosing the credentials of a call keeps the invariant.
LEMMA LoginAuthenticates ==
  ASSUME LoginInv, NEW c \in Callers, Login!Authenticate(c)
  PROVE  LoginInv'
  <1> DEFINE r == s7[c]
             token == [until |-> s1.token, who |-> "token", renewable |-> FALSE]
             found == Login!Resolve(s1.identity, "buckyos-home")
             list == IF s1.files THEN Login!ScanIdentityCandidates("buckyos-home") ELSE <<>>
  <1>1. r.at = "authenticate" /\ UNCHANGED <<s1, s3, s5, s9>>
    BY DEF Login!Authenticate
  <1>2. r.at \in Choosing /\ CallIs(r) /\ DOMAIN r = CallFields /\ r.live = TRUE
    BY <1>1 DEF Choosing, LoginInv, CallIs, CallTells
  <1>3. \/ Login!Takes(c, token)
        \/ /\ UNCHANGED s4
           /\ \/ s5 # {} /\ Login!AsksMode /\ s7' = [s7 EXCEPT ![c] = [r EXCEPT !.at = "acceptedMode", !.again = TRUE]]
              \/ /\ s5 # {} /\ ~Login!AsksMode
                 /\ s7' = [s7 EXCEPT ![c] = [r EXCEPT !.at = "login", !.again = TRUE, !.with = s5]]
              \/ found # {} /\ s7' = [s7 EXCEPT ![c] = [r EXCEPT !.at = "login", !.with = found]]
              \/ s7' = [s7 EXCEPT ![c] = [r EXCEPT !.at = "chosenMode"]]
              \/ s7' = [s7 EXCEPT ![c] = [r EXCEPT !.at = "next", !.search = TRUE, !.left = list]]
    BY Zenon DEF Login!Authenticate, Login!Goes
  <1>4. CASE Login!Takes(c, token)
    <2>1. token.until \in Nat
      BY LoginAssumption DEF LoginInv
    <2> HIDE DEF token
    <2> QED BY <1>1, <1>4, <2>1, LoginTakes
  <1>5. ASSUME UNCHANGED s4,
               \/ s7' = [s7 EXCEPT ![c] = [r EXCEPT !.at = "acceptedMode", !.again = TRUE]]
               \/ s7' = [s7 EXCEPT ![c] = [r EXCEPT !.at = "chosenMode"]]
        PROVE  LoginInv'
    <2> DEFINE accepted == [r EXCEPT !.at = "acceptedMode", !.again = TRUE]  chosen == [r EXCEPT !.at = "chosenMode"]
    <2>1. PICK n \in {accepted, chosen} : s7' = [s7 EXCEPT ![c] = n]
      BY <1>5
    <2>2. /\ DOMAIN n = CallFields /\ n.at \in {"acceptedMode", "chosenMode"} /\ n.live = r.live /\ n.with = r.with
          /\ n.left = r.left /\ n.tried = r.tried /\ n.offered = r.offered /\ n.search = r.search
      BY <1>2, <2>1 DEF CallFields
    <2> HIDE DEF accepted, chosen
    <2>3. n.at \in Choosing \cup {"idle"} /\ n.at \notin {"useAccepted", "useChosen"}
      BY <2>2 DEF Choosing
    <2> QED BY <1>1, <1>2, <1>5, <2>1, <2>2, <2>3, CallChoosesOn
  <1>6. CASE /\ UNCHANGED s4 /\ s5 # {} /\ ~Login!AsksMode
             /\ s7' = [s7 EXCEPT ![c] = [r EXCEPT !.at = "login", !.again = TRUE, !.with = s5]]
    <2>1. PICK m : s5 = {m}
      BY <1>6 DEF LoginInv
    <2>2. m.source # "buckycli-home"
      BY <1>6, <2>1 DEF Login!AsksMode
    <2>3. s7' = [s7 EXCEPT ![c] = [r EXCEPT !.at = "login", !.again = TRUE, !.with = {m}]]
      BY <1>6, <2>1
    <2> QED BY <1>1, <1>2, <1>6, <2>2, <2>3, CallLogsIn
  <1>7. CASE UNCHANGED s4 /\ found # {} /\ s7' = [s7 EXCEPT ![c] = [r EXCEPT !.at = "login", !.with = found]]
    <2>1. PICK m : found = {m} /\ m.source = "buckyos-home"
      BY <1>7, ResolvedIsOne
    <2> HIDE DEF found
    <2>2. s7' = [s7 EXCEPT ![c] = [r EXCEPT !.at = "login", !.with = {m}]]
      BY <1>7, <2>1
    <2> QED BY <1>1, <1>2, <1>7, <2>1, <2>2, CallLogsIn
  <1>8. CASE UNCHANGED s4 /\ s7' = [s7 EXCEPT ![c] = [r EXCEPT !.at = "next", !.search = TRUE, !.left = list]]
    <2> DEFINE n == [r EXCEPT !.at = "next", !.search = TRUE, !.left = list]
    <2>1. r.tried = {} /\ r.offered = 0
      BY <1>2, ChoosingIsFresh
    <2>2. /\ DOMAIN n = CallFields /\ n.at = "next" /\ n.live = TRUE /\ n.with = r.with /\ n.mode = r.mode
          /\ n.tried = {} /\ n.offered = 0 /\ n.search = TRUE /\ n.left = list
      BY <1>2, <2>1 DEF CallFields
    <2>3. list = <<>> \/ list = Login!ScanIdentityCandidates("buckyos-home")
      OBVIOUS
    <2> HIDE DEF n, list, r
    <2>4. CallIs(n)
      BY <1>2, <2>2, <2>3, CallSearches
    <2> QED BY <1>1, <1>8, <2>4, CallGoes DEF n, r
  <1> QED BY <1>3, <1>4, <1>5, <1>6, <1>7, <1>8

\* The Zone's answer about the developer mode keeps the invariant.
LEMMA LoginReadsMode ==
  ASSUME LoginInv, NEW c \in Callers, Login!ReadDevelopmentMode(c)
  PROVE  LoginInv'
  <1> DEFINE q == s7[c]  r == [q EXCEPT !.mode = s3.mode]
             refused == IF s3.mode = "disabled" THEN "DEVELOPER_IDENTITY_DISABLED" ELSE "DEVELOPER_MODE_UNAVAILABLE"
             list == IF s3.mode = "enabled" /\ s1.files THEN Login!DeveloperCandidates ELSE <<>>
  <1>1. CallIs(q) /\ DOMAIN q = CallFields /\ q.live = TRUE /\ s3.mode \in {"enabled", "disabled", "unavailable"}
    BY DEF LoginInv, CallIs, CallTells
  <1>2. /\ DOMAIN r = CallFields /\ r.at = q.at /\ r.live = q.live /\ r.with = q.with /\ r.left = q.left
        /\ r.mode = s3.mode /\ r.tried = q.tried /\ r.offered = q.offered /\ r.search = q.search
    BY <1>1 DEF CallFields
  <1>3. /\ UNCHANGED <<s1, s3, s4, s9>> /\ r.at \in {"acceptedMode", "chosenMode", "searchMode"}
        /\ s5' = s5 \/ s5' = {}
        /\ r.at = "searchMode" => UNCHANGED s5
    BY Zenon DEF Login!ReadDevelopmentMode
  <1>4. \/ /\ r.at = "searchMode"
           /\ s7' = [s7 EXCEPT ![c] = [r EXCEPT !.at = "next", !.left = list]]
        \/ r.at # "searchMode" /\ s7' = [s7 EXCEPT ![c] = [r EXCEPT !.at = "idle", !.got = refused]]
        \/ /\ r.at # "searchMode" /\ s3.mode = "enabled"
           /\ s7' = [s7 EXCEPT ![c] = [r EXCEPT !.at = IF r.at = "acceptedMode" THEN "useAccepted" ELSE "useChosen"]]
    BY Zenon DEF Login!ReadDevelopmentMode, Login!Goes
  <1> HIDE DEF r, refused, list
  <1>5. CASE r.at = "searchMode" /\ s7' = [s7 EXCEPT ![c] = [r EXCEPT !.at = "next", !.left = list]]
    <2> DEFINE n == [r EXCEPT !.at = "next", !.left = list]
    <2>1. /\ DOMAIN n = CallFields /\ n.at = "next" /\ n.live = TRUE /\ n.with = q.with /\ n.mode = s3.mode
          /\ n.tried = q.tried /\ n.offered = q.offered /\ n.search = q.search /\ n.left = list
      BY <1>1, <1>2 DEF CallFields
    <2>2. list = <<>> \/ (s3.mode = "enabled" /\ list = Login!DeveloperCandidates)
      BY DEF list
    <2> HIDE DEF n, q
    <2>3. CallIs(n)
      BY <1>1, <1>2, <1>5, <2>1, <2>2, CallSearchesOn
    <2> QED BY <1>3, <1>5, <2>3, CallGoes DEF n
  <1>6. CASE r.at # "searchMode"
    <2>1. q.at \in Choosing
      BY <1>2, <1>3, <1>6 DEF Choosing
    <2>2. ASSUME NEW n, s7' = [s7 EXCEPT ![c] = n], DOMAIN n = CallFields, n.mode = s3.mode,
                 n.at = "idle" \/ (n.at \in {"useAccepted", "useChosen"} /\ s3.mode = "enabled"),
                 n.live = q.live, n.with = q.with, n.left = q.left, n.tried = q.tried, n.offered = q.offered, n.search = q.search
          PROVE  LoginInv'
      <3>1. n.at \in Choosing \cup {"idle"}
        BY <2>2 DEF Choosing
      <3> QED BY <1>3, <2>1, <2>2, <3>1, CallChoosesOn
    <2>3. CASE s7' = [s7 EXCEPT ![c] = [r EXCEPT !.at = "idle", !.got = refused]]
      <3> DEFINE n == [r EXCEPT !.at = "idle", !.got = refused]
      <3>1. /\ DOMAIN n = CallFields /\ n.mode = s3.mode /\ n.at = "idle" /\ n.live = q.live /\ n.with = q.with
            /\ n.left = q.left /\ n.tried = q.tried /\ n.offered = q.offered /\ n.search = q.search
        BY <1>2 DEF CallFields
      <3> HIDE DEF n
      <3> QED BY <2>2, <2>3, <3>1 DEF n
    <2>4. CASE /\ s3.mode = "enabled"
               /\ s7' = [s7 EXCEPT ![c] = [r EXCEPT !.at = IF r.at = "acceptedMode" THEN "useAccepted" ELSE "useChosen"]]
      <3> DEFINE n == [r EXCEPT !.at = IF r.at = "acceptedMode" THEN "useAccepted" ELSE "useChosen"]
      <3>1. /\ DOMAIN n = CallFields /\ n.mode = s3.mode /\ n.at \in {"useAccepted", "useChosen"} /\ n.live = q.live
            /\ n.with = q.with /\ n.left = q.left /\ n.tried = q.tried /\ n.offered = q.offered /\ n.search = q.search
        BY <1>2 DEF CallFields
      <3> HIDE DEF n
      <3> QED BY <2>2, <2>4, <3>1 DEF n
    <2> QED BY <1>4, <1>6, <2>3, <2>4
  <1> QED BY <1>4, <1>5, <1>6

\* Going over to developer identities happens in developer mode only.
LEMMA LoginUsesDeveloper ==
  ASSUME LoginInv, NEW c \in Callers, Login!UseDeveloper(c)
  PROVE  LoginInv'
  <1> DEFINE r == s7[c]
             found == IF r.at = "useAccepted" THEN s5 ELSE Login!Resolve(s1.identity, "buckycli-home")
             code == IF r.at = "useAccepted" THEN "TypeError" ELSE "IDENTITY_NOT_FOUND"
  <1>1. UNCHANGED <<s1, s3, s4, s5, s9>> /\ r.at \in {"useAccepted", "useChosen"}
    BY DEF Login!UseDeveloper
  <1>2. r.at \in Choosing /\ CallIs(r) /\ DOMAIN r = CallFields /\ r.mode = "enabled"
    BY <1>1 DEF Choosing, LoginInv, CallIs, CallTells, CallChooses
  <1>3. \/ s7' = [s7 EXCEPT ![c] = [r EXCEPT !.at = "idle", !.got = code]]
        \/ found # {} /\ s7' = [s7 EXCEPT ![c] = [r EXCEPT !.at = "login", !.with = found]]
    BY Zenon DEF Login!UseDeveloper, Login!Fails, Login!Goes
  <1>4. CASE s7' = [s7 EXCEPT ![c] = [r EXCEPT !.at = "idle", !.got = code]]
    <2> DEFINE n == [r EXCEPT !.at = "idle", !.got = code]
    <2>1. /\ DOMAIN n = CallFields /\ n.at = "idle" /\ n.live = r.live /\ n.with = r.with /\ n.left = r.left
          /\ n.tried = r.tried /\ n.offered = r.offered /\ n.search = r.search
      BY <1>2 DEF CallFields
    <2> HIDE DEF n, code
    <2>2. s7' = [s7 EXCEPT ![c] = n]
      BY <1>4 DEF n
    <2> QED BY <1>1, <1>2, <2>1, <2>2, CallChoosesOn
  <1>5. CASE found # {} /\ s7' = [s7 EXCEPT ![c] = [r EXCEPT !.at = "login", !.with = found]]
    <2>1. PICK m : found = {m}
      BY <1>5, ResolvedIsOne DEF LoginInv
    <2> HIDE DEF found
    <2>2. s7' = [s7 EXCEPT ![c] = [r EXCEPT !.at = "login", !.with = {m}]]
      BY <1>5, <2>1
    <2> QED BY <1>1, <1>2, <2>2, CallLogsIn
  <1> QED BY <1>3, <1>4, <1>5

\* Taking the next candidate uses up one of those that were offered.
LEMMA LoginTriesNext ==
  ASSUME LoginInv, NEW c \in Callers, Login!NextCandidate(c)
  PROVE  LoginInv'
  <1> DEFINE r == s7[c]
  <1>1. UNCHANGED <<s1, s3, s4, s5, s9>> /\ r.at = "next"
    BY DEF Login!NextCandidate
  <1>2. CallIs(r) /\ DOMAIN r = CallFields /\ r.live = TRUE
    BY DEF LoginInv, CallIs, CallTells
  <1>3. \/ /\ r.left # <<>>
           /\ s7' = [s7 EXCEPT ![c] = [r EXCEPT !.at = "login", !.with = {Head(r.left)}, !.left = Tail(r.left)]]
        \/ r.left = <<>> /\ r.mode = "unread" /\ s7' = [s7 EXCEPT ![c] = [r EXCEPT !.at = "searchMode"]]
        \/ s7' = [s7 EXCEPT ![c] = [r EXCEPT !.at = "idle", !.got = "IDENTITY_CANDIDATES_REJECTED"]]
        \/ s7' = [s7 EXCEPT ![c] = [r EXCEPT !.at = "password"]]
        \/ s7' = [s7 EXCEPT ![c] = [r EXCEPT !.at = "idle", !.got = "AUTH_REQUIRED"]]
    BY Zenon DEF Login!NextCandidate, Login!Goes
  <1>4. CASE /\ r.left # <<>>
             /\ s7' = [s7 EXCEPT ![c] = [r EXCEPT !.at = "login", !.with = {Head(r.left)}, !.left = Tail(r.left)]]
    <2> DEFINE n == [r EXCEPT !.at = "login", !.with = {Head(r.left)}, !.left = Tail(r.left)]
    <2>1. /\ DOMAIN n = CallFields /\ n.at = "login" /\ n.live = TRUE /\ n.with = {Head(r.left)} /\ n.left = Tail(r.left)
          /\ n.mode = r.mode /\ n.tried = r.tried /\ n.offered = r.offered /\ n.search = r.search
      BY <1>2 DEF CallFields
    <2> HIDE DEF n, r
    <2>2. CallIs(n)
      BY <1>1, <1>2, <1>4, <2>1, CallOffersNext
    <2> QED BY <1>1, <1>4, <2>2, CallGoes DEF n
  <1>5. CASE r.left = <<>> /\ r.mode = "unread" /\ s7' = [s7 EXCEPT ![c] = [r EXCEPT !.at = "searchMode"]]
    <2> DEFINE n == [r EXCEPT !.at = "searchMode"]
    <2>1. /\ DOMAIN n = CallFields /\ n.at = "searchMode" /\ n.live = TRUE /\ n.with = r.with /\ n.left = r.left
          /\ n.mode = r.mode /\ n.tried = r.tried /\ n.offered = r.offered /\ n.search = r.search
      BY <1>2 DEF CallFields
    <2> HIDE DEF n, r
    <2>2. CallIs(n)
      BY <1>1, <1>2, <1>5, <2>1, CallAsksMode
    <2> QED BY <1>1, <1>5, <2>2, CallGoes DEF n
  <1>6. ASSUME NEW n, s7' = [s7 EXCEPT ![c] = n], DOMAIN n = CallFields, n.at \in {"idle", "password"}, n.live = r.live,
               n.with = r.with, n.left = r.left, n.mode = r.mode, n.tried = r.tried, n.offered = r.offered, n.search = r.search
        PROVE  LoginInv'
    <2> HIDE DEF r
    <2>1. CallIs(n)
      BY <1>1, <1>2, <1>6, CallRests
    <2> QED BY <1>1, <1>6, <2>1, CallGoes
  <1>7. ASSUME NEW got, s7' = [s7 EXCEPT ![c] = [r EXCEPT !.at = "idle", !.got = got]] PROVE LoginInv'
    <2> DEFINE n == [r EXCEPT !.at = "idle", !.got = got]
    <2>1. /\ DOMAIN n = CallFields /\ n.at = "idle" /\ n.live = r.live /\ n.with = r.with /\ n.left = r.left
          /\ n.mode = r.mode /\ n.tried = r.tried /\ n.offered = r.offered /\ n.search = r.search
      BY <1>2 DEF CallFields
    <2> HIDE DEF n
    <2> QED BY <1>6, <1>7, <2>1 DEF n
  <1>8. CASE s7' = [s7 EXCEPT ![c] = [r EXCEPT !.at = "password"]]
    <2> DEFINE n == [r EXCEPT !.at = "password"]
    <2>1. /\ DOMAIN n = CallFields /\ n.at = "password" /\ n.live = r.live /\ n.with = r.with /\ n.left = r.left
          /\ n.mode = r.mode /\ n.tried = r.tried /\ n.offered = r.offered /\ n.search = r.search
      BY <1>2 DEF CallFields
    <2> HIDE DEF n
    <2> QED BY <1>6, <1>8, <2>1 DEF n
  <1> QED BY <1>3, <1>4, <1>5, <1>7, <1>8

\* A login with a signed token, accepted or not, keeps the invariant.
LEMMA LoginByJwts ==
  ASSUME LoginInv, NEW c \in Callers, NEW answered \in BOOLEAN, Login!LoginByJwt(c, answered)
  PROVE  LoginInv'
  <1> DEFINE q == s7[c]
             r == [q EXCEPT !.tried = @ \cup {m.did : m \in q.with}, !.offered = @ + 1]
             x == CHOOSE m \in r.with : TRUE
             new == [until |-> s9 + Lifetime, who |-> x.did, renewable |-> TRUE]
             code == IF answered THEN "rejected" ELSE "TIMEOUT"
  <1>1. CallIs(q) /\ DOMAIN q = CallFields /\ q.live = TRUE
    BY DEF LoginInv, CallIs, CallTells
  <1>2. /\ DOMAIN r = CallFields /\ r.at = q.at /\ r.live = TRUE /\ r.with = q.with /\ r.left = q.left /\ r.mode = q.mode
        /\ r.tried = q.tried \cup {m.did : m \in q.with} /\ r.offered = q.offered + 1 /\ r.search = q.search
    BY <1>1 DEF CallFields
  <1>3. UNCHANGED <<s1, s3, s9>> /\ r.at = "login"
    BY DEF Login!LoginByJwt
  <1>4. \/ s4' = new /\ (s5' = {x} \/ s5' = s5) /\ Login!Returns(c, r, new)
        \/ /\ UNCHANGED <<s4, s5>>
           /\ \/ Login!TriesNext(r, answered) /\ s7' = [s7 EXCEPT ![c] = [r EXCEPT !.at = "next"]]
              \/ s7' = [s7 EXCEPT ![c] = [r EXCEPT !.at = "idle", !.got = code]]
    BY Zenon DEF Login!LoginByJwt, Login!Goes
  <1>5. new.until \in Nat /\ new.until > s9
    BY LoginAssumption DEF LoginInv
  <1>6. ASSUME NEW n, s7' = [s7 EXCEPT ![c] = n], DOMAIN n = CallFields, n.at = "idle" \/ (n.at = "next" /\ q.search),
               n.live = r.live, n.with = r.with, n.left = r.left, n.mode = r.mode, n.tried = r.tried,
               n.offered = r.offered, n.search = r.search
        PROVE  DOMAIN s7' = Callers /\ \A d \in Callers : CallIs(s7'[d])
    <2> HIDE DEF r, q
    <2>1. CallIs(n)
      BY <1>1, <1>2, <1>3, <1>6, CallOffered
    <2> QED BY <1>6, <2>1, CallerChanges
  <1> HIDE DEF new, x, code
  <1>7. ASSUME NEW got, s7' = [s7 EXCEPT ![c] = [r EXCEPT !.at = "idle", !.got = got]]
        PROVE  DOMAIN s7' = Callers /\ \A d \in Callers : CallIs(s7'[d])
    <2> HIDE DEF r
    <2> DEFINE n == [r EXCEPT !.at = "idle", !.got = got]
    <2>1. /\ DOMAIN n = CallFields /\ n.at = "idle" /\ n.live = r.live /\ n.with = r.with /\ n.left = r.left
          /\ n.mode = r.mode /\ n.tried = r.tried /\ n.offered = r.offered /\ n.search = r.search
      BY <1>2 DEF CallFields
    <2> HIDE DEF n
    <2> QED BY <1>6, <1>7, <2>1 DEF n
  <1>8. CASE s4' = new /\ (s5' = {x} \/ s5' = s5) /\ Login!Returns(c, r, new)
    <2> HIDE DEF r, q
    <2>1. ASSUME NEW n, DOMAIN n = CallFields /\ n.at = "idle" /\ n.live = TRUE /\ n.with = r.with /\ n.left = r.left
                        /\ n.mode = r.mode /\ n.tried = r.tried /\ n.offered = r.offered /\ n.search = r.search
          PROVE  CallIs(n)
      BY <1>1, <1>2, <1>3, <2>1, CallOffered
    <2>2. DOMAIN s7' = Callers /\ \A d \in Callers : CallIs(s7'[d])
      BY <1>2, <1>5, <1>8, <2>1, CallReturns
    <2> QED BY <1>3, <1>5, <1>8, <2>2 DEF LoginInv
  <1>9. CASE UNCHANGED <<s4, s5>> /\ s7' = [s7 EXCEPT ![c] = [r EXCEPT !.at = "idle", !.got = code]]
    BY <1>3, <1>7, <1>9 DEF LoginInv
  <1>10. CASE UNCHANGED <<s4, s5>> /\ Login!TriesNext(r, answered) /\ s7' = [s7 EXCEPT ![c] = [r EXCEPT !.at = "next"]]
    <2>0. q.search
      BY <1>2, <1>10 DEF Login!TriesNext
    <2> HIDE DEF r
    <2> DEFINE n == [r EXCEPT !.at = "next"]
    <2>1. /\ DOMAIN n = CallFields /\ n.at = "next" /\ n.live = r.live /\ n.with = r.with /\ n.left = r.left
          /\ n.mode = r.mode /\ n.tried = r.tried /\ n.offered = r.offered /\ n.search = r.search
      BY <1>2 DEF CallFields
    <2> HIDE DEF n
    <2>2. DOMAIN s7' = Callers /\ \A d \in Callers : CallIs(s7'[d])
      BY <1>6, <1>10, <2>0, <2>1 DEF n
    <2> QED BY <1>3, <1>10, <2>2 DEF LoginInv
  <1> QED BY <1>4, <1>8, <1>9, <1>10

\* A login with a password, accepted or not, keeps the invariant.
LEMMA LoginByPasswords ==
  ASSUME LoginInv, NEW c \in Callers, NEW good \in BOOLEAN, Login!LoginByPassword(c, good)
  PROVE  LoginInv'
  <1> DEFINE r == s7[c]  new == [until |-> s9 + Lifetime, who |-> "user", renewable |-> TRUE]
  <1>1. UNCHANGED <<s1, s3, s5, s9>> /\ r.at = "password"
    BY DEF Login!LoginByPassword
  <1>2. \/ Login!Takes(c, new)
        \/ UNCHANGED s4 /\ s7' = [s7 EXCEPT ![c] = [r EXCEPT !.at = "idle", !.got = "rejected"]]
    BY Zenon DEF Login!LoginByPassword, Login!Fails, Login!Goes
  <1>3. new.until \in Nat
    BY LoginAssumption DEF LoginInv
  <1> HIDE DEF new
  <1>4. CASE Login!Takes(c, new)
    BY <1>1, <1>3, <1>4, LoginTakes
  <1>5. CASE UNCHANGED s4 /\ s7' = [s7 EXCEPT ![c] = [r EXCEPT !.at = "idle", !.got = "rejected"]]
    <2> DEFINE n == [r EXCEPT !.at = "idle", !.got = "rejected"]
    <2>0. CallIs(r) /\ DOMAIN r = CallFields /\ r.live = TRUE
      BY DEF LoginInv, CallIs, CallTells
    <2>1. /\ DOMAIN n = CallFields /\ n.at = "idle" /\ n.live = TRUE /\ n.with = r.with /\ n.left = r.left
          /\ n.mode = r.mode /\ n.tried = r.tried /\ n.offered = r.offered /\ n.search = r.search
      BY <2>0 DEF CallFields
    <2> HIDE DEF n, r
    <2>2. CallIs(n)
      BY <1>1, <2>0, <2>1, CallRests
    <2> QED BY <1>1, <1>5, <2>2, CallGoes DEF n
  <1> QED BY <1>2, <1>4, <1>5

\* Every step of the overlapping calls keeps the invariant.
LEMMA LoginNext == LoginInv /\ Login!Next => LoginInv'
  <1> SUFFICES ASSUME LoginInv, Login!Next PROVE LoginInv'
    OBVIOUS
  <1>1. CASE \E c \in Callers : \E verb \in {"connect", "call", "reconnect"} : Login!Call(c, verb)
    BY <1>1, LoginCalls
  <1>2. CASE \E c \in Callers : Login!Authenticate(c)
    BY <1>2, LoginAuthenticates
  <1>3. CASE \E c \in Callers : Login!ReadDevelopmentMode(c)
    BY <1>3, LoginReadsMode
  <1>4. CASE \E c \in Callers : Login!UseDeveloper(c)
    BY <1>4, LoginUsesDeveloper
  <1>5. CASE \E c \in Callers : Login!NextCandidate(c)
    BY <1>5, LoginTriesNext
  <1>6. CASE \E c \in Callers : \E answered \in BOOLEAN : Login!LoginByJwt(c, answered)
    BY <1>6, LoginByJwts
  <1>7. CASE \E c \in Callers : \E good \in BOOLEAN : Login!LoginByPassword(c, good)
    BY <1>7, LoginByPasswords
  <1>8. CASE Login!ZoneChanges
    <2>1. s3'.mode \in {"enabled", "disabled", "unavailable"}
      BY <1>8 DEF Login!ZoneChanges
    <2> QED BY <1>8, <2>1 DEF Login!ZoneChanges, LoginInv
  <1>9. CASE Login!Tick
    BY <1>9 DEF Login!Tick, LoginInv
  <1> QED
    BY <1>1, <1>2, <1>3, <1>4, <1>5, <1>6, <1>7, <1>8, <1>9, Zenon DEF Login!Next

\* What the run checks of the command line's identities follows from the invariant.
LEMMA LoginStates == LoginInv => Login!DeveloperNeedsMode /\ Login!SearchIsBounded
  <1> SUFFICES ASSUME LoginInv, NEW c \in Callers
               PROVE  /\ s7[c].at = "login" /\ (\E m \in s7[c].with : m.source = "buckycli-home") => s7[c].mode = "enabled"
                      /\ s7[c].offered <= IdentityLimit
                      /\ Cardinality(s7[c].tried) = s7[c].offered
                      /\ s7[c].live
    BY Counts DEF Login!DeveloperNeedsMode, Login!SearchIsBounded
  <1>1. CallIs(s7[c])
    BY DEF LoginInv
  <1>2. s7[c].offered <= IdentityLimit
    BY <1>1, Budgets, LoginAssumption DEF CallIs, CallTells, LeftOver, IsList, PendingOf
  <1> QED BY <1>1, <1>2 DEF CallIs, CallTells, CallOffers

\* A step that changes no variable keeps the invariant of the command line's session.
LEMMA LoginStays == LoginInv /\ UNCHANGED all => LoginInv'
  BY DEF LoginInv, all, from2

-----------------------------------------------------------------------------
(* CliLine: what is read of a line's words, word by word.                  *)

\* The words are read one after the other, each with what the earlier ones made known.
LEMMA WordsAreRead ==
  ASSUME NEW cmd, NEW argv, NEW repl, Len(argv) \in Nat
  PROVE  \A n \in 0..Len(argv) :
           Line!ReadWords(cmd, argv, repl)[n]
             = IF n = 0 THEN Line!NoArgs
               ELSE Line!ParseWord(cmd, argv, repl, Line!ReadWords(cmd, argv, repl)[n - 1], n)
  <1> DEFINE Reads(f, k) == f = [n \in 0..k |-> IF n = 0 THEN Line!NoArgs ELSE Line!ParseWord(cmd, argv, repl, f[n - 1], n)]
             T == {k \in Nat : ~\E f : Reads(f, k)}
  <1>1. \A k \in Nat : \E f : Reads(f, k)
    <2> SUFFICES ASSUME T # {} PROVE FALSE
      OBVIOUS
    <2>1. PICK k \in T : \A m \in T : k <= m
      BY LeastOf
    <2>2. k # 0
      <3>1. Reads([n \in 0..0 |-> Line!NoArgs], 0)
        OBVIOUS
      <3> QED BY <3>1
    <2>3. k \in Nat /\ k - 1 \in Nat /\ ~(k <= k - 1)
      BY <2>1, <2>2
    <2>4. PICK f : Reads(f, k - 1)
      BY <2>1, <2>3
    <2> DEFINE g == [n \in 0..k |-> IF n = k THEN Line!ParseWord(cmd, argv, repl, f[k - 1], k) ELSE f[n]]
    <2>5. \A n \in 0..k : g[n] = IF n = 0 THEN Line!NoArgs ELSE Line!ParseWord(cmd, argv, repl, g[n - 1], n)
      <3>1. \A n \in 0..(k - 1) : g[n] = f[n]
        BY <2>3
      <3>2. g[k] = Line!ParseWord(cmd, argv, repl, g[k - 1], k)
        BY <2>3, <3>1
      <3>3. \A n \in 0..(k - 1) : n = 0 \/ n - 1 \in 0..(k - 1)
        BY <2>3
      <3> HIDE DEF g
      <3>4. \A n \in 0..(k - 1) : f[n] = IF n = 0 THEN Line!NoArgs ELSE Line!ParseWord(cmd, argv, repl, f[n - 1], n)
        BY <2>4
      <3>5. \A n \in 0..(k - 1) : g[n] = IF n = 0 THEN Line!NoArgs ELSE Line!ParseWord(cmd, argv, repl, g[n - 1], n)
        BY <3>1, <3>3, <3>4
      <3>6. \A n \in 0..k : n \in 0..(k - 1) \/ (n = k /\ n # 0)
        BY <2>2, <2>3
      <3> QED BY <3>2, <3>5, <3>6
    <2>6. g = [n \in 0..k |-> IF n = 0 THEN Line!NoArgs ELSE Line!ParseWord(cmd, argv, repl, g[n - 1], n)]
      <3>1. DOMAIN g = 0..k /\ g = [n \in 0..k |-> g[n]]
        OBVIOUS
      <3> HIDE DEF g
      <3> QED BY <2>5, <3>1
    <2> QED BY <2>1, <2>6
  <1>2. Reads(Line!ReadWords(cmd, argv, repl), Len(argv))
    BY <1>1 DEF Line!ReadWords
  <1> QED BY <1>2

\* The globals before the command are read in the same way.
LEMMA GlobalsAreRead ==
  ASSUME NEW ws, Len(ws) \in Nat
  PROVE  \A n \in 0..Len(ws) :
           Line!ReadGlobals(ws)[n] = IF n = 0 THEN Line!NoArgs ELSE Line!Global(Line!ReadGlobals(ws)[n - 1], ws[n])
  <1> DEFINE Reads(f, k) == f = [n \in 0..k |-> IF n = 0 THEN Line!NoArgs ELSE Line!Global(f[n - 1], ws[n])]
             T == {k \in Nat : ~\E f : Reads(f, k)}
  <1>1. \A k \in Nat : \E f : Reads(f, k)
    <2> SUFFICES ASSUME T # {} PROVE FALSE
      OBVIOUS
    <2>1. PICK k \in T : \A m \in T : k <= m
      BY LeastOf
    <2>2. k # 0
      <3>1. Reads([n \in 0..0 |-> Line!NoArgs], 0)
        OBVIOUS
      <3> QED BY <3>1
    <2>3. k \in Nat /\ k - 1 \in Nat /\ ~(k <= k - 1)
      BY <2>1, <2>2
    <2>4. PICK f : Reads(f, k - 1)
      BY <2>1, <2>3
    <2> DEFINE g == [n \in 0..k |-> IF n = k THEN Line!Global(f[k - 1], ws[k]) ELSE f[n]]
    <2>5. \A n \in 0..k : g[n] = IF n = 0 THEN Line!NoArgs ELSE Line!Global(g[n - 1], ws[n])
      <3>1. \A n \in 0..(k - 1) : g[n] = f[n]
        BY <2>3
      <3>2. g[k] = Line!Global(g[k - 1], ws[k])
        BY <2>3, <3>1
      <3>3. \A n \in 0..(k - 1) : n = 0 \/ n - 1 \in 0..(k - 1)
        BY <2>3
      <3> HIDE DEF g
      <3>4. \A n \in 0..(k - 1) : f[n] = IF n = 0 THEN Line!NoArgs ELSE Line!Global(f[n - 1], ws[n])
        BY <2>4
      <3>5. \A n \in 0..(k - 1) : g[n] = IF n = 0 THEN Line!NoArgs ELSE Line!Global(g[n - 1], ws[n])
        BY <3>1, <3>3, <3>4
      <3>6. \A n \in 0..k : n \in 0..(k - 1) \/ (n = k /\ n # 0)
        BY <2>2, <2>3
      <3> QED BY <3>2, <3>5, <3>6
    <2>6. g = [n \in 0..k |-> IF n = 0 THEN Line!NoArgs ELSE Line!Global(g[n - 1], ws[n])]
      <3>1. DOMAIN g = 0..k /\ g = [n \in 0..k |-> g[n]]
        OBVIOUS
      <3> HIDE DEF g
      <3> QED BY <2>5, <3>1
    <2> QED BY <2>1, <2>6
  <1>2. Reads(Line!ReadGlobals(ws), Len(ws))
    BY <1>1 DEF Line!ReadGlobals
  <1> QED BY <1>2

ArgFields == {"input", "scoped", "place", "next", "plain", "error", "help"}

\* A plain word says nothing of the session.
LEMMA PositionalSays ==
  ASSUME NEW cmd, NEW a, DOMAIN a = ArgFields, NEW w, NEW b, b = Line!Positional(cmd, a, w)
  PROVE  DOMAIN b = ArgFields /\ b.scoped = a.scoped /\ b.plain = a.plain
  BY DEF Line!Positional, Line!Wrong, ArgFields

\* Nor does an option of the command.
LEMMA OptionSays ==
  ASSUME NEW cmd, NEW a, DOMAIN a = ArgFields, NEW name, NEW w, NEW v, NEW b, b = Line!Option(cmd, a, name, w, v)
  PROVE  DOMAIN b = ArgFields /\ b.scoped = a.scoped /\ b.plain = a.plain
  BY DEF Line!Option, Line!Wrong, ArgFields

\* A scoped option says what it names, and nothing else.
LEMMA ScopedSays ==
  ASSUME NEW a, DOMAIN a = ArgFields, NEW name, NEW v, NEW b, b = Line!Scoped(a, name, v)
  PROVE  DOMAIN b = ArgFields /\ DOMAIN b.scoped \subseteq DOMAIN a.scoped \cup {name} /\ b.plain = a.plain
  BY DEF Line!Scoped, Line!Wrong, Line!Given, ArgFields

\* The option --yes, and not after "--".
MeansYes(argv, i) == argv[i].k = "opt" /\ argv[i].name = "yes" /\ \A j \in 1..(i - 1) : argv[j].k # "end"

\* After n words: --yes is known only if it was said; as long as "--" was not met
\* there was none; and a word that is passed over as a value is no "--".
WordsRead(a, argv, n) ==
  /\ DOMAIN a = ArgFields
  /\ "yes" \in DOMAIN a.scoped => \E i \in 1..Len(argv) : MeansYes(argv, i)
  /\ a.error = "none" /\ a.plain = FALSE => \A i \in 1..n : argv[i].k # "end"
  /\ a.plain \in BOOLEAN
  /\ a.next \in Nat /\ a.next <= n + 2
  /\ a.next = n + 2 => n < Len(argv) /\ argv[n + 1].k # "end"

\* The word after an option is its value only if it is no option and no "--".
LEMMA TakesNoDashes ==
  ASSUME NEW cmd, NEW argv, NEW i \in Nat, NEW repl
  PROVE  LET t == Line!Taken(cmd, argv, i, repl) IN
         t \in {1, 2} /\ (t = 2 => i < Len(argv) /\ argv[i + 1].k # "end")
  BY DEF Line!Taken, Line!Value

\* Before the first word.
LEMMA NothingIsRead ==
  ASSUME NEW argv
  PROVE  WordsRead(Line!NoArgs, argv, 0)
  BY DEF WordsRead, Line!NoArgs, ArgFields

\* Reading one more word.
LEMMA OneMoreWord ==
  ASSUME NEW cmd, NEW argv, NEW repl, Len(argv) \in Nat, NEW n \in 1..Len(argv),
         argv[n].k \in {"word", "opt", "end", "help"},
         NEW a, WordsRead(a, argv, n - 1), NEW b, b = Line!ParseWord(cmd, argv, repl, a, n)
  PROVE  WordsRead(b, argv, n)
  <1> DEFINE w == argv[n]  v == Line!Value(argv, n)  t == Line!Taken(cmd, argv, n, repl)
  <1>0. /\ DOMAIN a = ArgFields /\ a.next \in Nat /\ a.next <= n + 1 /\ a.plain \in BOOLEAN /\ n \in Nat
        /\ a.next = n + 1 => argv[n].k # "end"
        /\ "yes" \in DOMAIN a.scoped => \E i \in 1..Len(argv) : MeansYes(argv, i)
        /\ a.error = "none" /\ a.plain = FALSE => \A i \in 1..(n - 1) : argv[i].k # "end"
    BY DEF WordsRead
  <1>1. ASSUME w.k # "end", a.error = "none" /\ a.plain = FALSE
        PROVE  \A i \in 1..n : argv[i].k # "end"
    BY <1>0, <1>1
  <1>2. CASE a.error # "none" \/ n < a.next
    <2>1. b = a
      BY <1>2 DEF Line!ParseWord
    <2> QED BY <1>0, <1>1, <1>2, <2>1 DEF WordsRead
  <1>3. ASSUME NEW c, DOMAIN c = ArgFields, c.plain = a.plain, w.k # "end" \/ a.plain = TRUE,
               "yes" \in DOMAIN c.scoped => \E i \in 1..Len(argv) : MeansYes(argv, i),
               a.error = "none",
               NEW k \in {n + 1, n + 2}, k = n + 2 => n < Len(argv) /\ argv[n + 1].k # "end", b = [c EXCEPT !.next = k]
        PROVE  WordsRead(b, argv, n)
    <2>1. DOMAIN b = ArgFields /\ b.plain = a.plain /\ b.scoped = c.scoped /\ b.next = k
      BY <1>3 DEF ArgFields
    <2>2. b.plain = FALSE => \A i \in 1..n : argv[i].k # "end"
      BY <1>0, <1>1, <1>3, <2>1
    <2> QED BY <1>0, <1>3, <2>1, <2>2 DEF WordsRead
  <1>4. CASE a.error = "none" /\ ~(n < a.next) /\ (a.plain = TRUE \/ w.k = "word")
    <2> DEFINE c == Line!Positional(cmd, a, w)
    <2>1. b = [c EXCEPT !.next = n + 1]
      BY <1>4 DEF Line!ParseWord
    <2>2. DOMAIN c = ArgFields /\ c.scoped = a.scoped /\ c.plain = a.plain
      BY <1>0, PositionalSays
    <2> HIDE DEF c
    <2>3. "yes" \in DOMAIN c.scoped => \E i \in 1..Len(argv) : MeansYes(argv, i)
      BY <1>0, <2>2
    <2>4. (w.k # "end" \/ a.plain = TRUE) /\ n + 1 # n + 2
      BY <1>0, <1>4
    <2> QED BY <1>3, <1>4, <2>1, <2>2, <2>3, <2>4
  <1>5. CASE a.error = "none" /\ ~(n < a.next) /\ a.plain = FALSE /\ w.k = "end"
    <2>1. b = [a EXCEPT !.plain = TRUE]
      BY <1>5 DEF Line!ParseWord
    <2>2. DOMAIN b = ArgFields /\ b.plain = TRUE /\ b.scoped = a.scoped /\ b.next = a.next
      BY <1>0, <2>1 DEF ArgFields
    <2>3. b.next <= n /\ b.next \in Nat /\ n \in Nat
      BY <1>0, <1>5, <2>2
    <2>4. b.plain \in BOOLEAN /\ b.plain # FALSE
      BY <2>2, Zenon
    <2> QED BY <1>0, <2>2, <2>3, <2>4 DEF WordsRead
  <1>6. CASE a.error = "none" /\ ~(n < a.next) /\ a.plain = FALSE /\ w.k = "help"
    <2>1. b = [a EXCEPT !.help = TRUE]
      BY <1>6 DEF Line!ParseWord
    <2>2. DOMAIN b = ArgFields /\ b.plain = a.plain /\ b.scoped = a.scoped /\ b.next = a.next /\ b.error = a.error
      BY <1>0, <2>1 DEF ArgFields
    <2> QED BY <1>0, <1>1, <1>6, <2>2 DEF WordsRead
  <1>7. CASE a.error = "none" /\ ~(n < a.next) /\ a.plain = FALSE /\ w.k = "opt"
    <2> DEFINE o == IF ~Line!Reserved(repl, w.name) THEN Line!Option(cmd, a, w.name, w, v)
                    ELSE IF w.name \in Line!ScopedFlags THEN Line!Scoped(a, w.name, Line!Flag(w))
                    ELSE IF w.name \in Line!ScopedTexts THEN Line!Scoped(a, w.name, v)
                    ELSE Line!Wrong(a, "SESSION_OPTION_FROZEN")
    <2>1. b = [o EXCEPT !.next = n + t]
      BY <1>7 DEF Line!ParseWord
    <2>2. DOMAIN o = ArgFields /\ o.plain = a.plain /\ DOMAIN o.scoped \subseteq DOMAIN a.scoped \cup {w.name}
      <3>1. LET c == Line!Wrong(a, "SESSION_OPTION_FROZEN")
            IN  DOMAIN c = ArgFields /\ c.plain = a.plain /\ c.scoped = a.scoped
        BY <1>0 DEF Line!Wrong, ArgFields
      <3> QED BY <1>0, <3>1, OptionSays, ScopedSays
    <2>3. n + t \in {n + 1, n + 2} /\ (n + t = n + 2 => n < Len(argv) /\ argv[n + 1].k # "end")
      <3> HIDE DEF t
      <3>1. t \in {1, 2} /\ (t = 2 => n < Len(argv) /\ argv[n + 1].k # "end")
        BY <1>0, TakesNoDashes DEF t
      <3> QED BY <1>0, <3>1
    <2>4. "yes" \in DOMAIN o.scoped => \E i \in 1..Len(argv) : MeansYes(argv, i)
      <3>1. w.name = "yes" => MeansYes(argv, n)
        BY <1>0, <1>7 DEF MeansYes
      <3> QED BY <1>0, <2>2, <3>1
    <2> HIDE DEF o, t
    <2> QED BY <1>3, <1>7, <2>1, <2>2, <2>3, <2>4
  <1> QED BY <1>0, <1>2, <1>4, <1>5, <1>6, <1>7

\* Words of a line, of the four kinds.
LineIs(ws) == IsList(ws) /\ \A i \in 1..Len(ws) : ws[i].k \in {"word", "opt", "end", "help"}

\* What the words of a command say: --yes only where it is an option, and all that is required.
LEMMA CommandSays ==
  ASSUME NEW cmd, NEW argv, LineIs(argv), NEW repl, NEW p, p = Line!ParseCommandArgs(cmd, argv, repl)
  PROVE  /\ "yes" \in DOMAIN p.scoped => \E i \in 1..Len(argv) : MeansYes(argv, i)
         /\ p.error = "none" => Line!ToSet(cmd.required) \subseteq DOMAIN p.input
  <1> DEFINE read == Line!ReadWords(cmd, argv, repl)
             T == {n \in 0..Len(argv) : ~WordsRead(read[n], argv, n)}
             a == read[Len(argv)]
  <1>0. Len(argv) \in Nat /\ \A i \in 1..Len(argv) : argv[i].k \in {"word", "opt", "end", "help"}
    BY DEF LineIs, IsList
  <1> HIDE DEF read
  <1>1. \A n \in 0..Len(argv) :
          read[n] = IF n = 0 THEN Line!NoArgs ELSE Line!ParseWord(cmd, argv, repl, read[n - 1], n)
    BY <1>0, WordsAreRead DEF read
  <1>2. \A n \in 0..Len(argv) : WordsRead(read[n], argv, n)
    <2> SUFFICES ASSUME T # {} PROVE FALSE
      OBVIOUS
    <2>0. T \in SUBSET Nat
      BY <1>0
    <2>1. PICK n \in T : \A m \in T : n <= m
      BY <2>0, LeastOf
    <2>2. n \in 0..Len(argv) /\ ~WordsRead(read[n], argv, n)
      BY <2>1
    <2>3. n # 0
      BY <1>0, <1>1, <2>2, NothingIsRead
    <2>4. n \in 1..Len(argv) /\ n - 1 \in 0..Len(argv) /\ ~(n <= n - 1)
      BY <1>0, <2>2, <2>3
    <2>5. WordsRead(read[n - 1], argv, n - 1)
      BY <2>1, <2>4
    <2>6. read[n] = Line!ParseWord(cmd, argv, repl, read[n - 1], n)
      BY <1>1, <2>2, <2>3
    <2> HIDE DEF T
    <2>7. WordsRead(read[n], argv, n)
      BY <1>0, <2>4, <2>5, <2>6, OneMoreWord
    <2> QED BY <2>2, <2>7
  <1>3. DOMAIN a = ArgFields /\ ("yes" \in DOMAIN a.scoped => \E i \in 1..Len(argv) : MeansYes(argv, i))
    BY <1>0, <1>2 DEF WordsRead
  <1>4. p = IF a.error = "none" /\ ~(Line!ToSet(cmd.required) \subseteq DOMAIN a.input)
            THEN Line!Wrong(a, "MISSING_ARGUMENT") ELSE a
    BY DEF Line!ParseCommandArgs, read
  <1> HIDE DEF a
  <1>5. CASE a.error = "none" /\ ~(Line!ToSet(cmd.required) \subseteq DOMAIN a.input)
    <2>1. p.error = "MISSING_ARGUMENT" /\ p.scoped = a.scoped
      BY <1>3, <1>4, <1>5 DEF Line!Wrong, ArgFields
    <2> QED BY <1>3, <2>1
  <1>6. CASE ~(a.error = "none" /\ ~(Line!ToSet(cmd.required) \subseteq DOMAIN a.input))
    <2>1. p = a
      BY <1>4, <1>6
    <2> QED BY <1>3, <1>6, <2>1
  <1> QED BY <1>5, <1>6

\* What the words before the command say of the session is said there.
LEMMA GlobalsSay ==
  ASSUME NEW start, IsList(start.globals), NEW g, g = Line!GlobalsOf(start)
  PROVE  "yes" \in DOMAIN g.scoped => \E j \in DOMAIN start.globals : start.globals[j].name = "yes"
  <1> DEFINE ws == start.globals
             read == Line!ReadGlobals(ws)
             Fine(n) == DOMAIN read[n] = ArgFields /\ DOMAIN read[n].scoped \subseteq {ws[i].name : i \in 1..n}
             T == {n \in 0..Len(ws) : ~Fine(n)}
  <1>0. Len(ws) \in Nat /\ DOMAIN ws = 1..Len(ws)
    BY DEF IsList
  <1> HIDE DEF ws, read
  <1>1. \A n \in 0..Len(ws) : read[n] = IF n = 0 THEN Line!NoArgs ELSE Line!Global(read[n - 1], ws[n])
    BY <1>0, GlobalsAreRead DEF read
  <1>2. Fine(0)
    BY <1>0, <1>1 DEF Line!NoArgs, ArgFields
  <1>3. ASSUME NEW n \in 1..Len(ws), Fine(n - 1) PROVE Fine(n)
    <2>1. read[n] = Line!Global(read[n - 1], ws[n])
      BY <1>0, <1>1
    <2> DEFINE a == read[n - 1]  b == read[n]
    <2>2. DOMAIN a = ArgFields /\ DOMAIN a.scoped \subseteq {ws[i].name : i \in 1..(n - 1)}
      BY <1>3
    <2>3. DOMAIN b = ArgFields /\ DOMAIN b.scoped \subseteq DOMAIN a.scoped \cup {ws[n].name}
      <3>1. LET c == Line!Wrong(a, "UNKNOWN_OPTION") IN DOMAIN c = ArgFields /\ c.scoped = a.scoped
        BY <2>2 DEF Line!Wrong, ArgFields
      <3>2. b = Line!Global(a, ws[n])
        BY <2>1
      <3> HIDE DEF a, b
      <3> DEFINE v == IF ws[n].name \in Line!Flags THEN Line!Flag(ws[n])
                      ELSE [ok |-> ws[n].inline \notin {"none", ""}, value |-> ws[n].inline, words |-> 1]
      <3>3. b = a \/ b = Line!Wrong(a, "UNKNOWN_OPTION") \/ b = Line!Scoped(a, ws[n].name, v)
        BY <3>2 DEF Line!Global
      <3> HIDE DEF v
      <3> QED BY <2>2, <3>1, <3>3, ScopedSays
    <2> HIDE DEF a
    <2>4. DOMAIN b.scoped \subseteq {ws[i].name : i \in 1..n}
      <3>1. \A i \in 1..(n - 1) : i \in 1..n
        BY <1>0
      <3>2. n \in 1..n
        BY <1>0
      <3> HIDE DEF b
      <3> QED BY <2>2, <2>3, <3>1, <3>2
    <2> QED BY <2>3, <2>4
  <1>4. \A n \in 0..Len(ws) : Fine(n)
    <2> SUFFICES ASSUME T # {} PROVE FALSE
      OBVIOUS
    <2>0. T \in SUBSET Nat
      BY <1>0
    <2>1. PICK n \in T : \A m \in T : n <= m
      BY <2>0, LeastOf
    <2>2. n \in 0..Len(ws) /\ ~Fine(n)
      BY <2>1
    <2>3. n \in 1..Len(ws) /\ n - 1 \in 0..Len(ws) /\ ~(n <= n - 1)
      BY <1>0, <1>2, <2>2
    <2>4. Fine(n - 1)
      BY <2>1, <2>3
    <2> HIDE DEF Fine, T
    <2> QED BY <1>3, <2>2, <2>3, <2>4
  <1>5. g = read[Len(ws)] /\ DOMAIN g.scoped \subseteq {ws[i].name : i \in 1..Len(ws)}
    <2>1. g = read[Len(ws)]
      BY DEF Line!GlobalsOf, read, ws
    <2> QED BY <1>0, <1>4, <2>1
  <1> QED BY <1>0, <1>5 DEF ws

-----------------------------------------------------------------------------
(* CliLine: the session and its lines.                                     *)

SessionFields == {"interactive", "zone", "device", "yes", "silent", "consent", "start"}

\* What the session was started with.
SessionIs(s) ==
  /\ DOMAIN s = SessionFields /\ s.interactive \in BOOLEAN
  /\ s.yes => \E j \in DOMAIN s.start : s.start[j].name = "yes"

\* A line that may run: no help is asked for, and its words are understood.
CanRun(s, ws) ==
  /\ LineIs(ws) /\ ws # <<>>
  /\ ~Line!Words(Line!Args(ws), "help")
  /\ Line!ParseCommandArgs(ToolCommands[ws[1].name], Line!Args(ws), s.interactive).error = "none"

\* What the run checks of one command that ran.
RanIs(s, c) ==
  /\ c.confirmed => IF s.interactive THEN Line!SaysYes(ToolCommands[c.words[1].name], c.words)
                    ELSE \E j \in DOMAIN s.start : s.start[j].name = "yes"
  /\ c.zone = s.zone
  /\ s.device => s.consent = "given" \/ s.yes
  /\ ~Line!Words(Line!Args(c.words), "help")
  /\ Line!ToSet(ToolCommands[c.words[1].name].required) \subseteq DOMAIN c.input

\* An entry of the history: it hides nothing, or is no line of a command that is known.
Harmless(e) == e.hide => ~Line!Runnable(e.words)

\* Nothing runs, and nothing is entered, before the session is open; then it may be the
\* device's only as the user agreed, and a line runs only if it was understood.  None of
\* RunsAsSaid holds of a command without what is known here of the line that made it.
LineInv ==
  /\ SessionIs(s2)
  /\ s1 \in {"prompt", "entered", "running", "handling"} => (s2.device => s2.consent = "given" \/ s2.yes)
  /\ s1 \in {"prompt", "entered"} => s2.interactive = TRUE
  /\ s1 = "consent" => ~s2.silent /\ ~s2.yes /\ (s2.interactive = FALSE => CanRun(s2, s3))
  /\ s1 = "entered" => LineIs(s3)
  /\ s1 = "running" => CanRun(s2, s3)
  /\ s1 \in {"start", "consent"} => s5 = <<>>
  /\ IsList(s5) /\ \A i \in 1..Len(s5) : RanIs(s2, s5[i])
  /\ IsList(s6) /\ Len(s6) <= HistoryLimit /\ \A i \in 1..Len(s6) : Harmless(s6[i])

\* A list without members.
LEMMA EmptyIsList == IsList(<<>>) /\ Len(<<>>) = 0
  BY DEF IsList

\* The tool starts in its invariant.
LEMMA LineInit == Line!Init => LineInv
  BY LineAssumption, EmptyIsList DEF Line!Init, Line!NoSession, LineInv, SessionIs, SessionFields

\* What the run checks of lines follows from the invariant.
LEMMA LineStates == LineInv => Line!RunsAsSaid /\ Line!AsksOnlyWhoAnswers /\ Line!HistoryIsSafe
  <1> SUFFICES ASSUME LineInv PROVE Line!RunsAsSaid /\ Line!AsksOnlyWhoAnswers /\ Line!HistoryIsSafe
    OBVIOUS
  <1>1. DOMAIN s5 = 1..Len(s5) /\ DOMAIN s6 = 1..Len(s6)
    BY DEF LineInv, IsList
  <1>2. Line!RunsAsSaid
    BY <1>1 DEF LineInv, RanIs, Line!RunsAsSaid
  <1>3. Line!AsksOnlyWhoAnswers
    BY DEF LineInv, Line!AsksOnlyWhoAnswers
  <1>4. Line!HistoryIsSafe
    BY <1>1 DEF LineInv, Harmless, Line!HistoryIsSafe
  <1> QED BY <1>2, <1>3, <1>4

\* A step that changes no variable keeps the invariant.
LEMMA LineStays == LineInv /\ UNCHANGED all => LineInv'
  BY DEF LineInv, SessionIs, CanRun, RanIs, all, from2

\* A tool that ends keeps the invariant; it may have read how it was started.
LEMMA LineEnds ==
  ASSUME LineInv, s1' = "ended", UNCHANGED <<s5, s6>>, UNCHANGED s2 \/ (s5 = <<>> /\ SessionIs(s2'))
  PROVE  LineInv'
  <1>1. SessionIs(s2)'
    BY DEF LineInv, SessionIs
  <1>2. \A i \in 1..Len(s5') : RanIs(s2, s5[i])'
    <2>1. CASE UNCHANGED s2
      BY <2>1 DEF LineInv, RanIs
    <2>2. CASE s5 = <<>>
      <3>1. 1..Len(s5') = {}
        BY <2>2, EmptyIsList
      <3> QED BY <3>1
    <2> QED BY <2>1, <2>2
  <1> QED BY <1>1, <1>2 DEF LineInv, IsList

\* Opening a session: its globals are known, and a line that is there can run.
LEMMA LineOpens ==
  ASSUME LineInv, s1 = "start", NEW s, SessionIs(s), NEW ws, Line!Opens(s, ws),
         s.interactive = FALSE => CanRun(s, ws), s.consent = "none"
  PROVE  LineInv'
  <1>0. s5 = <<>> /\ UNCHANGED <<s5, s6>> /\ s2' = s
    BY DEF LineInv, Line!Opens, Line!Ends
  <1>1. IsList(s5') /\ (\A i \in 1..Len(s5') : RanIs(s2, s5[i])')
    <2>1. 1..Len(s5') = {}
      BY <1>0, EmptyIsList
    <2> QED BY <1>0, <2>1, EmptyIsList
  <1>2. IsList(s6') /\ Len(s6') <= HistoryLimit /\ \A i \in 1..Len(s6') : Harmless(s6'[i])
    BY <1>0 DEF LineInv
  <1>3. SessionIs(s2') /\ s2'.interactive \in BOOLEAN
    BY <1>0 DEF SessionIs
  <1>4. CASE Line!MayBeDevice(s)
    <2>1. CASE s.interactive
      BY <1>0, <1>1, <1>2, <1>3, <1>4, <2>1 DEF Line!Opens, Line!MayBeDevice, LineInv, SessionIs
    <2>2. CASE ~s.interactive
      <3>1. s1' = "running" /\ s3' = ws /\ CanRun(s, ws)
        BY <1>0, <1>3, <1>4, <2>2 DEF Line!Opens
      <3>2. CanRun(s2', s3')
        BY <1>0, <3>1
      <3> QED BY <1>0, <1>1, <1>2, <1>3, <1>4, <3>1, <3>2 DEF Line!MayBeDevice, LineInv, CanRun, SessionIs
    <2> QED BY <2>1, <2>2
  <1>5. CASE ~Line!MayBeDevice(s) /\ s.silent
    <2>1. s1' = "ended"
      BY <1>5 DEF Line!Opens, Line!Ends
    <2> QED BY <1>0, <1>3, <2>1, LineEnds
  <1>6. CASE ~Line!MayBeDevice(s) /\ ~s.silent
    <2>1. s1' = "consent" /\ s3' = ws /\ ~s.yes
      BY <1>6 DEF Line!Opens, Line!MayBeDevice
    <2>2. s2'.interactive = FALSE => CanRun(s2', s3')
      BY <1>0, <2>1
    <2> QED BY <1>0, <1>1, <1>2, <1>3, <1>6, <2>1, <2>2 DEF LineInv, CanRun, SessionIs
  <1> QED BY <1>4, <1>5, <1>6

\* What is kept while the session and what ran and was entered stay as they are.
LEMMA LineGoes ==
  ASSUME LineInv, UNCHANGED <<s2, s5, s6>>, s1' \notin {"start", "consent"},
         s1' \in {"prompt", "entered", "running", "handling"} =>
           s1 \in {"prompt", "entered", "running", "handling"} /\ (s1' \in {"prompt", "entered"} => s2.interactive = TRUE),
         s1' = "entered" => LineIs(s3'), s1' = "running" => CanRun(s2, s3')
  PROVE  LineInv'
  <1>1. SessionIs(s2)' /\ (s1' = "running" => CanRun(s2, s3)') /\ (s1' = "entered" => LineIs(s3)')
    BY DEF LineInv, SessionIs, CanRun
  <1>2. \A i \in 1..Len(s5') : RanIs(s2, s5[i])'
    BY DEF LineInv, RanIs
  <1> QED BY <1>1, <1>2 DEF LineInv

\* Words that are given are words.
LEMMA GivenIsLine ==
  ASSUME NEW ws, IsList(ws), \A i \in DOMAIN ws : ws[i].k \in {"word", "opt", "end", "help"}
  PROVE  LineIs(ws) /\ DOMAIN ws = 1..Len(ws)
  BY DEF LineIs, IsList

\* The tool that is called: a single command is understood before anything else happens.
LEMMA LineIsCalled ==
  ASSUME LineInv, NEW start \in ToolStarts, Line!Starts(start)
  PROVE  LineInv'
  <1> DEFINE g == Line!GlobalsOf(start)  ws == start.words  s == Line!Resolved(start, g)
  <1>1. IsList(start.globals) /\ LineIs(ws) /\ s1 = "start" /\ s5 = <<>>
    BY GivenIsLine, LineAssumption DEF IsList, Line!Starts, LineInv
  <1>2. SessionIs(s) /\ s.consent = "none" /\ (s.interactive <=> Line!Said(g, "cli"))
    <2>1. Line!Said(g, "yes") => \E j \in DOMAIN start.globals : start.globals[j].name = "yes"
      BY <1>1, GlobalsSay DEF Line!Said
    <2> HIDE DEF g
    <2>2. DOMAIN s = SessionFields /\ s.start = start.globals /\ s.consent = "none"
      BY DEF Line!Resolved, SessionFields
    <2>3. s.yes = Line!Said(g, "yes") /\ s.interactive = Line!Said(g, "cli")
      BY DEF Line!Resolved
    <2>4. Line!Said(g, "yes") \in BOOLEAN /\ Line!Said(g, "cli") \in BOOLEAN
      BY DEF Line!Said
    <2> HIDE DEF s
    <2> QED BY <2>1, <2>2, <2>3, <2>4 DEF SessionIs
  <1> HIDE DEF g
  <1>3. CASE Line!Ends(2) /\ UNCHANGED <<s2, s5, s6, s8>>
    BY <1>3, LineEnds DEF Line!Ends
  <1>4. CASE Line!Ends(0) /\ UNCHANGED <<s2, s5, s6, s8>>
    BY <1>4, LineEnds DEF Line!Ends
  <1>5. CASE Line!Said(g, "cli") /\ Line!Opens(s, <<>>)
    <2>1. ~(s.interactive = FALSE)
      BY <1>2, <1>5
    <2> HIDE DEF s
    <2> QED BY <1>1, <1>2, <1>5, <2>1, LineOpens
  <1> DEFINE cmd == ToolCommands[ws[1].name]
  <1>6. ASSUME ~Line!Said(g, "cli"), Line!Runnable(ws), ~Line!Words(Line!Args(ws), "help"),
               Line!ParseCommandArgs(cmd, Line!Args(ws), FALSE).error = "none"
        PROVE  \A z : z.interactive = FALSE => CanRun(z, ws)
    <2>1. ws # <<>>
      BY <1>6, EmptyIsList DEF Line!Runnable
    <2> QED BY <1>1, <1>6, <2>1 DEF CanRun
  <1>7. CASE /\ ~Line!Said(g, "cli") /\ Line!Runnable(ws) /\ ~Line!Words(Line!Args(ws), "help")
             /\ Line!ParseCommandArgs(cmd, Line!Args(ws), FALSE).error = "none"
             /\ Line!Opens(s, ws)
    <2>1. s.interactive = FALSE => CanRun(s, ws)
      BY <1>6, <1>7
    <2> HIDE DEF s
    <2> QED BY <1>1, <1>2, <1>7, <2>1, LineOpens
  <1>8. CASE /\ ~Line!Said(g, "cli") /\ Line!Runnable(ws) /\ ~Line!Words(Line!Args(ws), "help")
             /\ Line!ParseCommandArgs(cmd, Line!Args(ws), FALSE).error = "none"
             /\ s2' = [s EXCEPT !.device = FALSE, !.zone = "local"]
             /\ s1' = "running" /\ s3' = ws /\ UNCHANGED <<s4, s5, s6, s7, s8>>
    <2>1. SessionIs(s2') /\ s2'.interactive = FALSE /\ ~s2'.device
      <3> HIDE DEF s
      <3> QED BY <1>2, <1>8 DEF SessionIs, SessionFields
    <2>2. CanRun(s2', s3')
      BY <1>6, <1>8, <2>1
    <2>3. 1..Len(s5') = {} /\ IsList(s5')
      BY <1>1, <1>8, EmptyIsList
    <2> QED BY <1>1, <1>8, <2>1, <2>2, <2>3 DEF LineInv, CanRun, SessionIs
  <1> QED BY <1>3, <1>4, <1>5, <1>7, <1>8 DEF Line!Starts, g

\* The user's word on being the device.
LEMMA LineConsents ==
  ASSUME LineInv, NEW yes \in BOOLEAN, Line!Consents(yes)
  PROVE  LineInv'
  <1>1. CASE ~yes
    BY <1>1, LineEnds DEF Line!Consents, Line!Ends
  <1>2. CASE yes
    <2> DEFINE s == [s2 EXCEPT !.consent = "given"]
    <2>1. /\ s1 = "consent" /\ s2' = s /\ UNCHANGED <<s3, s4, s5, s6, s7, s8>>
          /\ s1' = IF s2.interactive THEN "prompt" ELSE "running"
      BY <1>2 DEF Line!Consents
    <2>2. SessionIs(s) /\ s.consent = "given" /\ s.interactive = s2.interactive /\ s2.interactive \in BOOLEAN
      BY DEF LineInv, SessionIs, SessionFields
    <2>3. s2.interactive = FALSE => CanRun(s, s3)
      BY <2>1, <2>2 DEF LineInv, CanRun
    <2>4. 1..Len(s5') = {} /\ IsList(s5')
      BY <2>1, EmptyIsList DEF LineInv
    <2> HIDE DEF s
    <2>5. SessionIs(s2') /\ (s2'.interactive = FALSE => CanRun(s2', s3')) /\ s2'.consent = "given"
      BY <2>1, <2>2, <2>3
    <2> QED BY <2>1, <2>2, <2>4, <2>5 DEF LineInv, CanRun, SessionIs
  <1> QED BY <1>1, <1>2

\* A line of a known command is kept in the history only if it hides nothing, and the history
\* keeps the last ones.
LEMMA HistoryKeeps ==
  ASSUME LineInv, NEW l \in LinesGiven, NEW h, h = Line!Remembered(l)
  PROVE  IsList(h) /\ Len(h) <= HistoryLimit /\ \A i \in 1..Len(h) : Harmless(h[i])
  <1>1. CASE h = s6
    BY <1>1 DEF LineInv
  <1>2. CASE h # s6
    <2> DEFINE a == Append(s6, l)  m == Line!Max({1, Len(a) - HistoryLimit + 1})
    <2>1. ~Line!Secret(l) /\ h = SubSeq(a, m, Len(a))
      BY <1>2 DEF Line!Remembered
    <2>2. Harmless(l)
      <3>1. Len(l.words) >= 1 => l.words # <<>>
        BY EmptyIsList
      <3> QED BY <2>1, <3>1, LineAssumption DEF Line!Secret, Line!Runnable, Harmless
    <2>3. /\ IsList(s6) /\ Len(s6) \in Nat /\ HistoryLimit \in Nat
          /\ \A i \in 1..Len(s6) : Harmless(s6[i])
      BY LineAssumption DEF LineInv, IsList
    <2>4. IsList(a) /\ Len(a) = Len(s6) + 1 /\ \A i \in 1..Len(a) : Harmless(a[i])
      BY <2>2, <2>3, ListAppend
    <2> HIDE DEF a
    <2>5. m \in Int /\ m >= 1 /\ m >= Len(a) - HistoryLimit + 1
      <3> DEFINE k == Len(a) - HistoryLimit + 1
      <3>1. k \in Int
        BY <2>3, <2>4
      <3> HIDE DEF k
      <3>2. \E x \in {1, k} : \A y \in {1, k} : x >= y
        BY <3>1
      <3>3. Line!Max({1, k}) \in {1, k} /\ \A y \in {1, k} : Line!Max({1, k}) >= y
        BY <3>2 DEF Line!Max
      <3> QED BY <3>1, <3>3 DEF k
    <2> HIDE DEF m
    <2> DEFINE S == {a[i] : i \in 1..Len(a)}
    <2>6. \A i \in m..Len(a) : a[i] \in S
      BY <2>3, <2>4, <2>5
    <2>10. Len(a) \in Int
      BY <2>3, <2>4
    <2> HIDE DEF S
    <2>11. /\ SubSeq(a, m, Len(a)) \in Seq(S)
           /\ Len(SubSeq(a, m, Len(a))) = (IF m <= Len(a) THEN Len(a) - m + 1 ELSE 0)
      BY <2>5, <2>6, <2>10, SubSeqProperties
    <2>7. /\ h \in Seq(S) /\ Len(h) = (IF m <= Len(a) THEN Len(a) - m + 1 ELSE 0)
      BY <2>1, <2>11
    <2>8. IsList(h) /\ Len(h) <= HistoryLimit
      BY <2>3, <2>4, <2>5, <2>7, LenProperties DEF IsList
    <2>9. \A i \in 1..Len(h) : h[i] \in S
      BY <2>7, ElementOfSeq
    <2> QED BY <2>4, <2>8, <2>9 DEF S
  <1> QED BY <1>1, <1>2

\* A line that is entered keeps the invariant.
LEMMA LineIsEntered ==
  ASSUME LineInv, NEW l \in LinesGiven, Line!Enters(l)
  PROVE  LineInv'
  <1>0. s1 = "prompt" /\ s2.interactive = TRUE /\ UNCHANGED <<s2, s5>>
    BY DEF Line!Enters, LineInv
  <1>1. CASE l.kind = "exit"
    BY <1>1, LineEnds DEF Line!Enters, Line!Ends
  <1>2. CASE l.kind # "exit" /\ l.kind # "command"
    BY <1>0, <1>2, LineGoes DEF Line!Enters
  <1>3. CASE l.kind = "command"
    <2>1. s6' = Line!Remembered(l) /\ s1' = "entered" /\ s3' = l.words
      BY <1>3 DEF Line!Enters
    <2>2. IsList(s6') /\ Len(s6') <= HistoryLimit /\ \A i \in 1..Len(s6') : Harmless(s6'[i])
      BY <2>1, HistoryKeeps
    <2>3. LineIs(s3')
      BY <2>1, LineAssumption, GivenIsLine
    <2>4. \A i \in 1..Len(s5') : RanIs(s2, s5[i])'
      BY <1>0 DEF LineInv, RanIs
    <2> QED BY <1>0, <2>1, <2>2, <2>3, <2>4 DEF LineInv, SessionIs
  <1> QED BY <1>1, <1>2, <1>3

\* A line that was entered runs, or the prompt comes back.
LEMMA LineBegins ==
  ASSUME LineInv, Line!LineStarts
  PROVE  LineInv'
  <1>0. s1 = "entered" /\ s2.interactive = TRUE /\ LineIs(s3) /\ UNCHANGED <<s2, s5, s6>>
    BY DEF Line!LineStarts, LineInv
  <1>1. CASE s1' = "prompt"
    BY <1>0, <1>1, LineGoes
  <1>2. CASE s1' # "prompt"
    <2>1. /\ Line!Runnable(s3) /\ ~Line!Words(Line!Args(s3), "help") /\ s1' = "running" /\ s3' = s3
          /\ Line!ParseCommandArgs(ToolCommands[s3[1].name], Line!Args(s3), TRUE).error = "none"
      BY <1>2 DEF Line!LineStarts
    <2>2. s3 # <<>>
      BY <2>1, EmptyIsList DEF Line!Runnable
    <2>3. CanRun(s2, s3')
      BY <1>0, <2>1, <2>2 DEF CanRun
    <2> QED BY <1>0, <2>1, <2>3, LineGoes
  <1> QED BY <1>1, <1>2

\* What the handler gets is what its own line, or the start of the tool, said.
LEMMA ContextIsRight ==
  ASSUME LineInv, s1 = "running", NEW c, c = Line!Context(s2, s3)
  PROVE  RanIs(s2, c)
  <1> DEFINE cmd == ToolCommands[s3[1].name]  argv == Line!Args(s3)
             p == Line!ParseCommandArgs(cmd, argv, s2.interactive)
  <1>0. /\ SessionIs(s2) /\ (s2.device => s2.consent = "given" \/ s2.yes)
        /\ LineIs(s3) /\ s3 # <<>> /\ ~Line!Words(argv, "help") /\ p.error = "none"
    BY DEF LineInv, CanRun
  <1>1. /\ LineIs(argv) /\ Len(argv) \in Nat
        /\ \A n \in 1..Len(argv) : argv[n] = s3[n + 1] /\ n + 1 \in 2..Len(s3)
    <2>1. /\ IsList(argv) /\ Len(s3) \in Nat /\ Len(argv) = Len(s3) - 1
          /\ \A n \in 1..Len(argv) : argv[n] = s3[n + 1] /\ n + 1 \in 1..Len(s3)
      BY <1>0, TailOf DEF LineIs, Line!Args
    <2> HIDE DEF argv
    <2> QED BY <1>0, <2>1 DEF LineIs, IsList
  <1>2. /\ "yes" \in DOMAIN p.scoped => \E i \in 1..Len(argv) : MeansYes(argv, i)
        /\ Line!ToSet(cmd.required) \subseteq DOMAIN p.input
    <2> HIDE DEF argv, cmd
    <2> QED BY <1>0, <1>1, CommandSays
  <1>3. Line!Said(p, "yes") => Line!SaysYes(cmd, s3)
    <2> SUFFICES ASSUME "yes" \in DOMAIN p.scoped PROVE Line!SaysYes(cmd, s3)
      BY DEF Line!Said
    <2>1. PICK i \in 1..Len(argv) : MeansYes(argv, i)
      BY <1>2
    <2> HIDE DEF argv
    <2>2. s3[i + 1].k = "opt" /\ s3[i + 1].name = "yes" /\ i + 1 \in 2..Len(s3)
      BY <1>1, <2>1 DEF MeansYes
    <2>3. \A j \in 2..i : s3[j].k # "end"
      <3> SUFFICES ASSUME NEW j \in 2..i PROVE s3[j].k # "end"
        OBVIOUS
      <3>1. j - 1 \in 1..(i - 1) /\ j - 1 \in 1..Len(argv) /\ (j - 1) + 1 = j
        BY <1>1
      <3> QED BY <1>1, <2>1, <3>1 DEF MeansYes
    <2>4. (i + 1) - 1 = i
      BY <1>1
    <2> QED BY <2>2, <2>3, <2>4 DEF Line!SaysYes
  <1>4. /\ c.words = s3 /\ c.input = p.input /\ c.zone = s2.zone
        /\ c.confirmed = (IF s2.interactive THEN Line!Said(p, "yes") ELSE s2.yes)
    BY DEF Line!Context, Line!Confirmed
  <1> HIDE DEF p
  <1>5. c.confirmed => IF s2.interactive THEN Line!SaysYes(cmd, s3)
                       ELSE \E j \in DOMAIN s2.start : s2.start[j].name = "yes"
    BY <1>0, <1>3, <1>4 DEF SessionIs
  <1> QED BY <1>0, <1>2, <1>4, <1>5 DEF RanIs

\* A command that is handled.
LEMMA LineHandles ==
  ASSUME LineInv, Line!Handles
  PROVE  LineInv'
  <1> DEFINE c == Line!Context(s2, s3)
  <1>1. s1 = "running" /\ s1' = "handling" /\ s5' = Append(s5, c) /\ UNCHANGED <<s2, s3, s6>>
    BY DEF Line!Handles
  <1>2. RanIs(s2, c)
    BY <1>1, ContextIsRight
  <1> HIDE DEF c
  <1>3. IsList(s5) /\ Len(s5) \in Nat /\ \A i \in 1..Len(s5) : RanIs(s2, s5[i])
    BY DEF LineInv, IsList
  <1>4. IsList(s5') /\ \A i \in 1..Len(s5') : RanIs(s2, s5'[i])
    BY <1>1, <1>2, <1>3, ListAppend
  <1>5. \A i \in 1..Len(s5') : RanIs(s2, s5[i])'
    BY <1>1, <1>4 DEF RanIs
  <1> QED BY <1>1, <1>4, <1>5 DEF LineInv, SessionIs

\* What ends a command, or the session, or interrupts either.
LEMMA LineIsOver ==
  ASSUME LineInv, Line!HistoryFails \/ Line!Interrupts \/ Line!SessionLost \/ \E with : Line!Finishes(with)
  PROVE  LineInv'
  <1>1. CASE Line!HistoryFails
    BY <1>1, LineEnds DEF Line!HistoryFails, Line!Ends
  <1>2. CASE Line!Interrupts
    <2>1. UNCHANGED <<s1, s2, s3, s5, s6>>
      BY <1>2 DEF Line!Interrupts
    <2>2. \A i \in 1..Len(s5') : RanIs(s2, s5[i])'
      BY <2>1 DEF LineInv, RanIs
    <2> QED BY <2>1, <2>2 DEF LineInv, SessionIs, CanRun
  <1>3. ASSUME s1 \in {"running", "handling"}, UNCHANGED <<s2, s5, s6>>,
               IF s2.interactive THEN s1' = "prompt" ELSE s1' = "ended"
        PROVE  LineInv'
    <2>1. CASE s2.interactive
      <3>1. s2.interactive = TRUE /\ s1' = "prompt"
        BY <1>3, <2>1 DEF LineInv, SessionIs
      <3> QED BY <1>3, <3>1, LineGoes
    <2>2. CASE ~s2.interactive
      BY <1>3, <2>2, LineEnds
    <2> QED BY <2>1, <2>2
  <1>4. CASE Line!SessionLost
    BY <1>3, <1>4 DEF Line!SessionLost, Line!Ends
  <1>5. CASE \E with : Line!Finishes(with)
    BY <1>3, <1>5 DEF Line!Finishes, Line!Ends
  <1> QED BY <1>1, <1>2, <1>3, <1>4, <1>5

\* Every step of the tool and its user keeps the invariant.
LEMMA LineNext == ASSUME LineInv, Line!Next PROVE LineInv'
  BY LineIsCalled, LineConsents, LineIsEntered, LineBegins, LineHandles, LineIsOver DEF Line!Next

-----------------------------------------------------------------------------
(* ImportSelection: paths, and what lies at them.                          *)

\* The first members of a list.
LEMMA FirstOf ==
  ASSUME NEW p, IsList(p), NEW n \in 0..Len(p)
  PROVE  /\ IsList(SubSeq(p, 1, n)) /\ Len(SubSeq(p, 1, n)) = n
         /\ \A i \in 1..n : SubSeq(p, 1, n)[i] = p[i]
  <1> DEFINE S == {p[i] : i \in 1..Len(p)}
             t == SubSeq(p, 1, n)
  <1>0. Len(p) \in Nat /\ n \in Nat /\ n <= Len(p)
    BY DEF IsList
  <1>1. \A i \in 1..n : p[i] \in S
    BY <1>0
  <1> HIDE DEF S
  <1>2. /\ t \in Seq(S) /\ Len(t) = (IF 1 <= n THEN n - 1 + 1 ELSE 0)
        /\ \A i \in 1..(n - 1 + 1) : t[i] = p[1 + i - 1]
    BY <1>0, <1>1, SubSeqProperties
  <1>3. Len(t) = n
    BY <1>0, <1>2
  <1>4. \A i \in 1..n : t[i] = p[i]
    BY <1>0, <1>2
  <1>5. t \in [1..n -> S]
    BY <1>2, <1>3, LenProperties
  <1> HIDE DEF t
  <1>6. IsList(t)
    BY <1>0, <1>3, <1>5 DEF IsList
  <1> QED BY <1>3, <1>4, <1>6 DEF t

\* Lists of one length with the same members are the same.
LEMMA SameList ==
  ASSUME NEW p, NEW q, IsList(p), IsList(q), Len(p) = Len(q), \A i \in 1..Len(p) : p[i] = q[i]
  PROVE  p = q
  <1>1. p = [i \in 1..Len(p) |-> p[i]] /\ q = [i \in 1..Len(p) |-> q[i]]
    BY DEF IsList
  <1>2. [i \in 1..Len(p) |-> p[i]] = [i \in 1..Len(p) |-> q[i]]
    OBVIOUS
  <1> QED BY <1>1, <1>2

\* A list is its last member after the others.
LEMMA FrontAndLast ==
  ASSUME NEW p, IsList(p), p # <<>>
  PROVE  /\ Len(p) \in Nat /\ Len(p) > 0
         /\ IsList(Import!Front(p)) /\ Len(Import!Front(p)) = Len(p) - 1
         /\ \A i \in 1..(Len(p) - 1) : Import!Front(p)[i] = p[i]
         /\ Append(Import!Front(p), Import!Last(p)) = p
  <1>0. Len(p) \in Nat /\ Len(p) # 0
    <2>1. Len(p) \in Nat
      BY DEF IsList
    <2>2. CASE Len(p) = 0
      <3>1. p = [i \in 1..0 |-> p[i]]
        BY <2>2 DEF IsList
      <3>2. p = <<>>
        BY <3>1
      <3> QED BY <3>2
    <2> QED BY <2>1, <2>2
  <1>1. Len(p) - 1 \in 0..Len(p)
    BY <1>0
  <1> DEFINE t == SubSeq(p, 1, Len(p) - 1)
  <1>2. /\ IsList(t) /\ Len(t) = Len(p) - 1 /\ \A i \in 1..(Len(p) - 1) : t[i] = p[i]
    BY <1>1, FirstOf
  <1>3. Import!Front(p) = t /\ Import!Last(p) = p[Len(p)]
    BY DEF Import!Front, Import!Last
  <1> HIDE DEF t
  <1>4. Append(t, p[Len(p)]) = p
    <2> DEFINE u == Append(t, p[Len(p)])
    <2>1. /\ IsList(u) /\ Len(u) = Len(t) + 1
          /\ \A i \in 1..Len(t) : u[i] = t[i]
          /\ u[Len(t) + 1] = p[Len(p)]
      BY <1>2, ListAppend
    <2> HIDE DEF u
    <2>2. Len(u) = Len(p)
      BY <1>0, <1>2, <2>1
    <2>3. \A i \in 1..Len(u) : u[i] = p[i]
      <3>1. \A i \in 1..Len(u) : i \in 1..Len(t) \/ i = Len(t) + 1
        BY <1>0, <1>2, <2>2
      <3> QED BY <1>0, <1>2, <2>1, <2>2, <3>1
    <2>4. u = p
      BY <2>1, <2>2, <2>3, SameList
    <2> QED BY <2>4 DEF u
  <1> QED BY <1>0, <1>2, <1>3, <1>4

\* What a directory's object is: it names those of its children.
ObjectsNameTheirs(dirs, placed, object) ==
  \A p \in dirs :
    object[p] = Import!DirId(Import!Last(p), {object[d] : d \in {q \in dirs : Import!Front(q) = p}}
                                             \union {k.id : k \in {k \in placed : Import!Front(k.path) = p}})

\* The objects of directories are made from the deepest up.
LEMMA ObjectsAreMade ==
  ASSUME NEW dirs, NEW placed, NEW b \in Nat,
         \A d \in dirs : IsList(d) /\ d # <<>> /\ Len(d) <= b
  PROVE  ObjectsNameTheirs(dirs, placed, Import!DirObjects(dirs, placed))
  <1> DEFINE Below(p) == {q \in dirs : Import!Front(q) = p}
             Files(p) == {k.id : k \in {k \in placed : Import!Front(k.path) = p}}
             FileMade(f, p) == Import!DirId(Import!Last(p), {f[d] : d \in Below(p)} \union Files(p))
             Deep(k) == {p \in dirs : Len(p) + k > b}
             Fits(f, k) == f = [p \in Deep(k) |-> FileMade(f, p)]
             T == {k \in Nat : ~\E f : Fits(f, k)}
  <1>1. \A k \in Nat : \E f : Fits(f, k)
    <2> SUFFICES ASSUME T # {} PROVE FALSE
      OBVIOUS
    <2>1. PICK k \in T : \A m \in T : k <= m
      BY LeastOf
    <2>2. k # 0
      <3>1. Deep(0) = {}
        <4>1. \A d \in dirs : Len(d) \in Nat /\ Len(d) <= b
          BY DEF IsList
        <4> QED BY <4>1
      <3>2. Fits([p \in Deep(0) |-> 0], 0)
        BY <3>1
      <3> QED BY <3>2
    <2>3. k \in Nat /\ k - 1 \in Nat /\ ~(k <= k - 1)
      BY <2>1, <2>2
    <2>4. PICK f : Fits(f, k - 1)
      BY <2>1, <2>3
    <2>5. Deep(k - 1) \subseteq Deep(k)
      <3>1. \A d \in dirs : Len(d) \in Nat
        BY DEF IsList
      <3> QED BY <2>3, <3>1
    <2>6. \A p \in Deep(k) : Below(p) \subseteq Deep(k - 1)
      <3> SUFFICES ASSUME NEW p \in Deep(k), NEW q \in dirs, Import!Front(q) = p
                   PROVE  Len(q) + (k - 1) > b
        OBVIOUS
      <3>1. Len(p) = Len(q) - 1 /\ Len(q) \in Nat
        BY FrontAndLast
      <3>2. Len(p) + k > b
        OBVIOUS
      <3> QED BY <2>3, <3>1, <3>2
    <2> DEFINE g == [p \in Deep(k) |-> IF p \in Deep(k - 1) THEN f[p] ELSE FileMade(f, p)]
    <2>7. \A p \in Deep(k - 1) : g[p] = f[p]
      BY <2>5
    <2>8. \A p \in Deep(k) : {g[d] : d \in Below(p)} = {f[d] : d \in Below(p)}
      <3> HIDE DEF g, Deep, Below
      <3> QED BY <2>6, <2>7
    <2>9. \A p \in Deep(k) : FileMade(g, p) = FileMade(f, p)
      <3> HIDE DEF g, Deep, Below, Files
      <3> QED BY <2>8
    <2>10. \A p \in Deep(k) : g[p] = FileMade(f, p)
      <3>1. \A p \in Deep(k - 1) : f[p] = FileMade(f, p)
        <4> HIDE DEF FileMade, Deep
        <4> QED BY <2>4
      <3> HIDE DEF FileMade, Deep
      <3> QED BY <3>1
    <2>11. Fits(g, k)
      <3>1. g = [p \in Deep(k) |-> g[p]]
        <4> HIDE DEF FileMade, Deep
        <4> QED OBVIOUS
      <3> HIDE DEF FileMade, Deep, g
      <3> QED BY <2>9, <2>10, <3>1
    <2> HIDE DEF Fits
    <2> QED BY <2>1, <2>11
  <1> DEFINE object == Import!DirObjects(dirs, placed)
  <1>2. Deep(b) = dirs
    <2>1. \A d \in dirs : Len(d) \in Nat /\ Len(d) > 0
      BY FrontAndLast
    <2> QED BY <2>1
  <1>3. object = CHOOSE f : f = [p \in dirs |-> FileMade(f, p)]
    BY Zenon DEF Import!DirObjects
  <1>4. \E f : f = [p \in dirs |-> FileMade(f, p)]
    <2> HIDE DEF FileMade, Deep
    <2> QED BY <1>1, <1>2
  <1>5. object = [p \in dirs |-> FileMade(object, p)]
    <2> HIDE DEF FileMade, object
    <2> QED BY <1>3, <1>4
  <1>6. \A p \in dirs : object[p] = FileMade(object, p)
    <2> HIDE DEF FileMade, object
    <2> QED BY <1>5
  <1> QED BY <1>6, Zenon DEF ObjectsNameTheirs

\* What lies at the places of one depth: the directories and the files.
AtDepth(dirs, object, placed, n) ==
  {<<p, object[p]>> : p \in {d \in dirs : Len(d) = n}} \union {<<k.path, k.id>> : k \in {k \in placed : Len(k.path) = n}}

\* One list after another is told by its last member and the others.
LEMMA OneAfter ==
  ASSUME NEW p, IsList(p), p # <<>>, NEW q, q = Append(Import!Front(p), Import!Last(p))
  PROVE  q = p
  BY FrontAndLast

\* Directories below one root, and files in them.
BelowRoot(dirs, root) ==
  \A d \in dirs : /\ IsList(d) /\ d # <<>>
                  /\ Len(d) = 1 => d = root
                  /\ Len(d) > 1 => Import!Front(d) \in dirs
FilesIn(dirs, placed) ==
  \A k \in placed : /\ IsList(k.path) /\ Len(k.path) > 1 /\ Import!Front(k.path) \in dirs
                    /\ k.id[1] = "file" /\ k.id[2] = Import!Last(k.path)

\* Read from the root's object, the objects are found where the directories and files lay.
LEMMA FoundWhereTheyLay ==
  ASSUME NEW dirs, NEW placed, NEW object, NEW root \in dirs, Len(root) = 1,
         BelowRoot(dirs, root), FilesIn(dirs, placed), ObjectsNameTheirs(dirs, placed, object),
         NEW depth \in Nat
  PROVE  \A n \in 1..depth : Import!FoundIn(object[root], depth)[n] = AtDepth(dirs, object, placed, n)
  <1> DEFINE At(n) == AtDepth(dirs, object, placed, n)
             In(o) == {<<Append(o[1], c[2]), c>> : c \in o[2][3]}
             Under(S) == UNION {In(o) : o \in {o \in S : o[2][1] = "dir"}}
             Top == {<<<<object[root][2]>>, object[root]>>}
             Reads(f) == f = [n \in 1..depth |-> IF n = 1 THEN Top ELSE Under(f[n - 1])]
             found == Import!FoundIn(object[root], depth)
  <1> USE DEF BelowRoot, FilesIn
  <1>1. \A p \in dirs : /\ object[p][1] = "dir" /\ object[p][2] = Import!Last(p)
                        /\ object[p][3] = {object[d] : d \in {q \in dirs : Import!Front(q) = p}}
                                          \union {k.id : k \in {k \in placed : Import!Front(k.path) = p}}
    <2>1. \A name, children : /\ Import!DirId(name, children)[1] = "dir" /\ Import!DirId(name, children)[2] = name
                              /\ Import!DirId(name, children)[3] = children
      BY DEF Import!DirId
    <2> TAKE p \in dirs
    <2> DEFINE name == Import!Last(p)
               children == {object[d] : d \in {q \in dirs : Import!Front(q) = p}}
                           \union {k.id : k \in {k \in placed : Import!Front(k.path) = p}}
    <2>2. object[p] = Import!DirId(name, children)
      BY DEF ObjectsNameTheirs
    <2> HIDE DEF name, children
    <2>3. object[p][1] = "dir" /\ object[p][2] = name /\ object[p][3] = children
      BY <2>1, <2>2
    <2> QED BY <2>3 DEF name, children
  <1>2. At(1) = Top
    <2>1. <<object[root][2]>> = root
      <3>1. object[root][2] = root[1]
        BY <1>1 DEF Import!Last
      <3>2. root = [i \in 1..1 |-> root[i]]
        BY DEF IsList
      <3>3. <<root[1]>> = [i \in 1..1 |-> root[i]]
        OBVIOUS
      <3> QED BY <3>1, <3>2, <3>3
    <2>2. {d \in dirs : Len(d) = 1} = {root}
      OBVIOUS
    <2>3. {k \in placed : Len(k.path) = 1} = {}
      <3>1. \A n : n = 1 => ~(n > 1)
        OBVIOUS
      <3> QED BY <3>1, Zenon
    <2>4. At(1) = {<<root, object[root]>>}
      BY <2>2, <2>3, Zenon DEF AtDepth
    <2> QED BY <2>1, <2>4
  <1>3. ASSUME NEW n \in Nat, n > 1 PROVE At(n) = Under(At(n - 1))
    <2>1. ASSUME NEW p \in dirs, Len(p) = n PROVE <<p, object[p]>> \in Under(At(n - 1))
      <3> DEFINE q == Import!Front(p)
      <3>1. q \in dirs /\ Len(q) = n - 1 /\ Append(q, Import!Last(p)) = p
        BY <1>3, <2>1, FrontAndLast
      <3>2. <<q, object[q]>> \in At(n - 1) /\ object[q][1] = "dir"
        BY <1>1, <3>1 DEF AtDepth
      <3>3. object[p] \in object[q][3] /\ object[p][2] = Import!Last(p)
        BY <1>1, <3>1
      <3>4. <<p, object[p]>> \in In(<<q, object[q]>>)
        BY <3>1, <3>3
      <3> HIDE DEF At, In, q
      <3> QED BY <3>2, <3>4
    <2>2. ASSUME NEW k \in placed, Len(k.path) = n PROVE <<k.path, k.id>> \in Under(At(n - 1))
      <3> DEFINE q == Import!Front(k.path)
      <3>0. k.path # <<>>
        BY <1>3, EmptyIsList, <2>2
      <3>1. q \in dirs /\ Len(q) = n - 1 /\ Append(q, Import!Last(k.path)) = k.path
        BY <1>3, <2>2, <3>0, FrontAndLast
      <3>2. <<q, object[q]>> \in At(n - 1) /\ object[q][1] = "dir"
        BY <1>1, <3>1 DEF AtDepth
      <3>3. k.id \in object[q][3] /\ k.id[2] = Import!Last(k.path)
        BY <1>1, <3>1
      <3>4. <<k.path, k.id>> \in In(<<q, object[q]>>)
        BY <3>1, <3>3
      <3> HIDE DEF At, In, q
      <3> QED BY <3>2, <3>4
    <2>3. ASSUME NEW o \in At(n - 1), o[2][1] = "dir", NEW c \in o[2][3] PROVE <<Append(o[1], c[2]), c>> \in At(n)
      <3>1. PICK p \in dirs : Len(p) = n - 1 /\ o = <<p, object[p]>>
        <4>1. CASE \E p \in dirs : Len(p) = n - 1 /\ o = <<p, object[p]>>
          BY <4>1
        <4>2. CASE \E k \in placed : o = <<k.path, k.id>>
          <5>1. o[2][1] = "file"
            BY <4>2
          <5> QED BY <2>3, <5>1
        <4> QED BY <2>3, <4>1, <4>2 DEF AtDepth
      <3>2. c \in object[p][3]
        BY <3>1
      <3>3. CASE \E q \in dirs : Import!Front(q) = p /\ c = object[q]
        <4>1. PICK q \in dirs : Import!Front(q) = p /\ c = object[q]
          BY <3>3
        <4>2. Append(p, c[2]) = q /\ Len(q) = n
          BY <1>1, <1>3, <3>1, <4>1, FrontAndLast
        <4> QED BY <3>1, <4>1, <4>2 DEF AtDepth
      <3>4. CASE \E k \in placed : Import!Front(k.path) = p /\ c = k.id
        <4>1. PICK k \in placed : Import!Front(k.path) = p /\ c = k.id
          BY <3>4
        <4>0. k.path # <<>>
          BY EmptyIsList
        <4>2. Append(p, c[2]) = k.path /\ Len(k.path) = n
          BY <1>1, <1>3, <3>1, <4>0, <4>1, FrontAndLast
        <4> QED BY <3>1, <4>1, <4>2 DEF AtDepth
      <3> QED BY <1>1, <3>2, <3>3, <3>4
    <2>4. At(n) \subseteq Under(At(n - 1))
      <3> HIDE DEF Under
      <3> QED BY <2>1, <2>2 DEF AtDepth
    <2>5. Under(At(n - 1)) \subseteq At(n)
      <3> HIDE DEF At
      <3> QED BY <2>3
    <2> HIDE DEF At, Under
    <2> QED BY <2>4, <2>5
  <1> HIDE DEF At, Under, Top, BelowRoot, FilesIn
  <1>4. Reads([n \in 1..depth |-> At(n)])
    <2> DEFINE g == [n \in 1..depth |-> At(n)]
    <2>1. \A n \in 1..depth : At(n) = IF n = 1 THEN Top ELSE Under(g[n - 1])
      BY <1>2, <1>3
    <2>2. g = [n \in 1..depth |-> IF n = 1 THEN Top ELSE Under(g[n - 1])]
      BY <2>1
    <2> QED BY <2>2
  <1>5. Reads(found)
    <2>1. found = CHOOSE f : Reads(f)
      BY Zenon DEF Import!FoundIn, Under, Top
    <2> HIDE DEF Reads, found
    <2> QED BY <1>4, <2>1
  <1> HIDE DEF found
  <1>6. \A n \in 1..depth : found[n] = IF n = 1 THEN Top ELSE Under(found[n - 1])
    BY <1>5
  <1> DEFINE T == {n \in 1..depth : found[n] # At(n)}
  <1>7. T = {}
    <2> SUFFICES ASSUME T # {} PROVE FALSE
      OBVIOUS
    <2>0. T \in SUBSET Nat
      OBVIOUS
    <2>1. PICK n \in T : \A m \in T : n <= m
      BY <2>0, LeastOf
    <2>2. n \in 1..depth /\ found[n] # At(n)
      BY <2>1
    <2>3. n # 1
      BY <1>2, <1>6, <2>2
    <2>4. n - 1 \in 1..depth /\ n \in Nat /\ n > 1 /\ ~(n <= n - 1)
      BY <2>2, <2>3
    <2>5. found[n - 1] = At(n - 1)
      BY <2>1, <2>4
    <2> HIDE DEF T
    <2> QED BY <1>3, <1>6, <2>2, <2>3, <2>4, <2>5
  <1> QED BY <1>7 DEF At, found

\* A list of numbers has a bound.
LEMMA ListBound ==
  ASSUME NEW n \in Nat, NEW f, \A i \in 1..n : f[i] \in Nat
  PROVE  \E b \in Nat : \A i \in 1..n : f[i] <= b
  <1> DEFINE Bounded(k) == \E b \in Nat : \A i \in 1..n : i <= k => f[i] <= b
             T == {k \in Nat : ~Bounded(k)}
  <1>1. \A k \in Nat : Bounded(k)
    <2> SUFFICES ASSUME T # {} PROVE FALSE
      OBVIOUS
    <2>1. PICK k \in T : \A m \in T : k <= m
      BY LeastOf
    <2>2. Bounded(0)
      OBVIOUS
    <2>3. k \in Nat /\ k # 0 /\ k - 1 \in Nat /\ ~(k <= k - 1) /\ ~Bounded(k)
      <3>1. k \in Nat /\ ~Bounded(k)
        OBVIOUS
      <3>2. k # 0
        BY <2>2, <3>1
      <3> QED BY <3>1, <3>2
    <2>4. PICK b \in Nat : \A i \in 1..n : i <= k - 1 => f[i] <= b
      BY <2>1, <2>3
    <2>5. CASE k \in 1..n
      <3>0. f[k] \in Nat
        BY <2>5
      <3>1. \E c \in Nat : c >= b /\ c >= f[k]
        <4>1. b + f[k] \in Nat /\ b + f[k] >= b /\ b + f[k] >= f[k]
          BY <3>0
        <4> QED BY <4>1
      <3>2. PICK c \in Nat : c >= b /\ c >= f[k]
        BY <3>1
      <3>3. ASSUME NEW i \in 1..n, i <= k PROVE f[i] <= c
        <4>1. i = k \/ i <= k - 1
          BY <2>3, <3>3
        <4> QED BY <2>4, <3>2, <4>1
      <3> QED BY <2>3, <3>3
    <2>6. CASE k \notin 1..n
      <3>1. ASSUME NEW i \in 1..n, i <= k PROVE f[i] <= b
        <4>1. i <= k - 1
          BY <2>3, <2>6, <3>1
        <4> QED BY <2>4, <4>1
      <3> QED BY <2>3, <3>1
    <2> QED BY <2>5, <2>6
  <1>2. Bounded(n)
    BY <1>1
  <1> QED BY <1>2

\* The lists of a finite set have a bound.
LEMMA LengthsBound ==
  ASSUME NEW D, IsFiniteSet(D), \A d \in D : Len(d) \in Nat
  PROVE  \E b \in Nat : \A d \in D : Len(d) <= b
  <1>1. Cardinality(D) \in Nat /\ ExistsBijection(1..Cardinality(D), D)
    BY FS_CardinalityType
  <1>2. PICK f \in [1..Cardinality(D) -> D] : \A d \in D : \E i \in 1..Cardinality(D) : f[i] = d
    BY <1>1 DEF ExistsBijection, Bijection, Surjection
  <1> DEFINE g == [i \in 1..Cardinality(D) |-> Len(f[i])]
  <1>3. \A i \in 1..Cardinality(D) : g[i] \in Nat
    BY <1>2
  <1>4. PICK b \in Nat : \A i \in 1..Cardinality(D) : g[i] <= b
    BY <1>1, <1>3, ListBound
  <1> QED BY <1>2, <1>4

\* Numbers with a bound have a greatest one.
LEMMA GreatestIs ==
  ASSUME NEW S \in SUBSET Nat, S # {}, NEW b \in Nat, \A x \in S : x <= b
  PROVE  Import!Max(S) \in S /\ \A x \in S : x <= Import!Max(S)
  <1> DEFINE T == {c \in Nat : \A x \in S : x <= c}
  <1>1. PICK c \in T : \A m \in T : c <= m
    BY LeastOf
  <1>2. c \in S
    <2> SUFFICES ASSUME c \notin S PROVE FALSE
      OBVIOUS
    <2>1. \A x \in S : x <= c - 1 /\ c - 1 \in Nat
      OBVIOUS
    <2>2. c - 1 \in T
      BY <2>1
    <2> QED BY <1>1, <2>2
  <1>3. \E x \in S : \A y \in S : x >= y
    BY <1>2
  <1>4. Import!Max(S) \in S /\ \A y \in S : Import!Max(S) >= y
    BY <1>3 DEF Import!Max
  <1> QED BY <1>4

-----------------------------------------------------------------------------
(* ImportSelection: what was picked or handed over.                        *)

\* A directory with all that is in it: one root, every parent, nothing twice.
TreeIs(files, dirs) ==
  /\ \A d \in dirs : IsList(d) /\ d # <<>> /\ (Len(d) > 1 => Import!Front(d) \in dirs)
  /\ \E root \in dirs : Len(root) = 1 /\ \A d \in dirs : Len(d) = 1 => d = root
  /\ \E b \in Nat : \A d \in dirs : Len(d) <= b
  /\ \A i \in 1..Len(files) : /\ Len(files[i].path) > 1 /\ Import!Front(files[i].path) \in dirs
                              /\ files[i].name = Import!Last(files[i].path)
                              /\ files[i].path \notin dirs
  /\ \A i, j \in 1..Len(files) : files[i].path = files[j].path => i = j

\* A tree that an application hands over, if it is not refused.
LEMMA HandedTree ==
  ASSUME NEW s \in ImportsMade, ~Import!Refused(s), s.tree
  PROVE  TreeIs(s.files, Import!DirsIn(s))
  <1>1. IsList(s.files) /\ DOMAIN s.files = 1..Len(s.files)
    BY SelectionAssumption DEF IsList
  <1>2. Import!DirsIn(s) = s.dirs
    BY DEF Import!DirsIn
  <1>3. \A d \in s.dirs : IsList(d) /\ d # <<>> /\ (Len(d) > 1 => Import!Front(d) \in s.dirs)
    BY SelectionAssumption DEF Import!Front
  <1>4. \E root \in s.dirs : Len(root) = 1 /\ \A d \in s.dirs : Len(d) = 1 => d = root
    BY SelectionAssumption
  <1>5. \E b \in Nat : \A d \in s.dirs : Len(d) <= b
    <2>1. IsFiniteSet(s.dirs) /\ \A d \in s.dirs : Len(d) \in Nat
      BY SelectionAssumption DEF IsList
    <2> QED BY <2>1, LengthsBound
  <1>6. ~Import!TreeRefused(s)
    BY DEF Import!Refused
  <1>7. \A i \in 1..Len(s.files) : s.files[i].path \notin s.dirs
    BY <1>1, <1>6 DEF Import!TreeRefused
  <1>8. \A i, j \in 1..Len(s.files) : s.files[i].path = s.files[j].path => i = j
    BY <1>1, <1>6 DEF Import!TreeRefused
  <1>9. \A i \in 1..Len(s.files) : /\ Len(s.files[i].path) > 1 /\ Import!Front(s.files[i].path) \in s.dirs
                                   /\ s.files[i].name = Import!Last(s.files[i].path)
    BY <1>1, SelectionAssumption DEF Import!Front, Import!Last
  <1> QED BY <1>2, <1>3, <1>4, <1>5, <1>7, <1>8, <1>9 DEF TreeIs

\* The directories above a path, each a beginning of it.
LEMMA AboveOf ==
  ASSUME NEW p, IsList(p), NEW d \in Import!Above(p)
  PROVE  /\ IsList(d) /\ d # <<>> /\ Len(d) < Len(p) /\ Len(d) \in Nat /\ Len(p) \in Nat
         /\ d[1] = p[1]
         /\ Len(d) > 1 => Import!Front(d) \in Import!Above(p)
  <1>1. PICK n \in 1..(Len(p) - 1) : d = SubSeq(p, 1, n)
    BY DEF Import!Above
  <1>2. Len(p) \in Nat /\ n \in 0..Len(p) /\ n < Len(p) /\ n > 0
    BY DEF IsList
  <1>3. IsList(d) /\ Len(d) = n /\ \A i \in 1..n : d[i] = p[i]
    BY <1>1, <1>2, FirstOf
  <1>4. d # <<>>
    BY <1>2, <1>3, EmptyIsList
  <1>5. ASSUME n > 1 PROVE Import!Front(d) \in Import!Above(p)
    <2>1. n - 1 \in 0..Len(p) /\ n - 1 \in 1..(Len(p) - 1)
      BY <1>2, <1>5
    <2> DEFINE e == SubSeq(p, 1, n - 1)
               t == Import!Front(d)
    <2>2. IsList(e) /\ Len(e) = n - 1 /\ \A i \in 1..(n - 1) : e[i] = p[i]
      BY <2>1, FirstOf
    <2>3. IsList(t) /\ Len(t) = n - 1 /\ \A i \in 1..(n - 1) : t[i] = d[i]
      BY <1>3, <1>4, FrontAndLast
    <2>4. e \in Import!Above(p)
      BY <2>1 DEF Import!Above
    <2> HIDE DEF e, t
    <2>5. \A i \in 1..(n - 1) : t[i] = e[i]
      BY <1>2, <1>3, <2>2, <2>3
    <2>6. t = e
      BY <2>2, <2>3, <2>5, SameList
    <2> QED BY <2>4, <2>6 DEF t
  <1> QED BY <1>2, <1>3, <1>4, <1>5

\* A folder that a user picked, if it is not refused.
LEMMA PickedTree ==
  ASSUME NEW s \in ImportsMade, ~Import!Refused(s), ~s.tree, s.mode = "single_dir"
  PROVE  TreeIs(s.files, Import!DirsIn(s))
  <1> DEFINE fs == s.files
             dirs == Import!DirsOf(fs)
  <1>1. IsList(fs) /\ DOMAIN fs = 1..Len(fs) /\ Len(fs) \in Nat
    BY SelectionAssumption DEF IsList
  <1>2. Import!DirsIn(s) = dirs
    BY DEF Import!DirsIn
  <1>3. fs # <<>> /\ ~Import!FolderRefused(fs)
    BY DEF Import!Refused
  <1>4. Len(fs) > 0
    <2>1. CASE Len(fs) = 0
      <3>1. fs = [i \in 1..0 |-> fs[i]]
        BY <1>1, <2>1 DEF IsList
      <3>2. fs = <<>>
        BY <3>1
      <3> QED BY <1>3, <3>2
    <2> QED BY <1>1, <2>1
  <1> DEFINE path(i) == fs[i].path
  <1>5. \A i \in 1..Len(fs) : /\ IsList(path(i)) /\ path(i) # <<>> /\ ~(Len(path(i)) < 2)
                              /\ path(i)[1] = path(1)[1] /\ fs[i].name = Import!Last(path(i))
    BY <1>1, <1>3, SelectionAssumption DEF Import!FolderRefused
  <1>6. \A i, j \in 1..Len(fs) : (path(i) = path(j) => i = j) /\ path(i) \notin Import!Above(path(j))
    BY <1>1, <1>3 DEF Import!FolderRefused, Import!Conflicts
  <1>7. \A d : d \in dirs <=> \E i \in 1..Len(fs) : d \in Import!Above(path(i))
    BY <1>1 DEF Import!DirsOf
  <1>8. \A i \in 1..Len(fs) : Len(path(i)) \in Nat
    BY <1>5 DEF IsList
  <1> HIDE DEF fs, dirs
  <1>9. \A d \in dirs : IsList(d) /\ d # <<>> /\ Len(d) \in Nat /\ (Len(d) > 1 => Import!Front(d) \in dirs) /\ d[1] = path(1)[1]
    <2> SUFFICES ASSUME NEW d \in dirs
                 PROVE  IsList(d) /\ d # <<>> /\ Len(d) \in Nat /\ (Len(d) > 1 => Import!Front(d) \in dirs) /\ d[1] = path(1)[1]
      OBVIOUS
    <2>1. PICK i \in 1..Len(fs) : d \in Import!Above(path(i))
      BY <1>7
    <2> QED BY <1>5, <1>7, <2>1, AboveOf
  <1>10. \E root \in dirs : Len(root) = 1 /\ \A d \in dirs : Len(d) = 1 => d = root
    <2> DEFINE root == SubSeq(path(1), 1, 1)
    <2>0. 1 \in 1..Len(fs)
      BY <1>1, <1>4
    <2>1. 1 \in 0..Len(path(1)) /\ 1 \in 1..(Len(path(1)) - 1)
      BY <1>5, <1>8, <2>0
    <2>2. IsList(root) /\ Len(root) = 1
      BY <1>5, <2>0, <2>1, FirstOf
    <2>3. root \in dirs
      BY <1>7, <2>0, <2>1 DEF Import!Above
    <2> HIDE DEF root
    <2>4. ASSUME NEW d \in dirs, Len(d) = 1 PROVE d = root
      <3>1. \A i \in 1..Len(d) : d[i] = root[i]
        BY <1>9, <2>3, <2>4
      <3> QED BY <1>9, <2>2, <2>4, <3>1, SameList
    <2> QED BY <2>2, <2>3, <2>4
  <1>11. \E b \in Nat : \A d \in dirs : Len(d) <= b
    <2> DEFINE g == [i \in 1..Len(fs) |-> Len(path(i))]
    <2>1. \A i \in 1..Len(fs) : g[i] \in Nat
      BY <1>8
    <2>2. PICK b \in Nat : \A i \in 1..Len(fs) : g[i] <= b
      BY <1>1, <2>1, ListBound
    <2>3. ASSUME NEW d \in dirs PROVE Len(d) <= b
      <3>1. PICK i \in 1..Len(fs) : d \in Import!Above(path(i))
        BY <1>7
      <3>2. Len(d) < Len(path(i)) /\ Len(d) \in Nat /\ Len(path(i)) \in Nat
        BY <1>5, <3>1, AboveOf
      <3>3. Len(path(i)) <= b
        BY <2>2
      <3> QED BY <3>2, <3>3
    <2> QED BY <2>3
  <1>12. \A i \in 1..Len(fs) : Len(path(i)) > 1 /\ Import!Front(path(i)) \in dirs
    <2> TAKE i \in 1..Len(fs)
    <2>1. Len(path(i)) > 1 /\ Len(path(i)) - 1 \in 1..(Len(path(i)) - 1)
      BY <1>5, <1>8
    <2>2. Import!Front(path(i)) \in Import!Above(path(i))
      BY <2>1 DEF Import!Above, Import!Front
    <2> QED BY <1>7, <2>1, <2>2
  <1>13. \A i \in 1..Len(fs) : path(i) \notin dirs
    BY <1>6, <1>7
  <1> QED BY <1>2, <1>5, <1>6, <1>9, <1>10, <1>11, <1>12, <1>13 DEF TreeIs, fs

-----------------------------------------------------------------------------
(* ImportSelection: the bytes of a file, and what is kept of it.           *)

\* Pieces that follow each other from the first byte on.
PiecesAre(data, ps) ==
  /\ IsList(ps)
  /\ \A i \in 1..Len(ps) :
       /\ ps[i].offset \in Nat /\ ps[i].offset <= Len(data) /\ ps[i] = Import!Piece(data, ps[i].offset)
       /\ i = 1 => ps[i].offset = 0
       /\ i > 1 => ps[i].offset = ps[i - 1].offset + ps[i - 1].length /\ ps[i].offset < Len(data)

\* A piece ends after PieceSize bytes, or with the data.
LEMMA PieceOf ==
  ASSUME NEW data, IsList(data), NEW offset \in 0..Len(data)
  PROVE  LET p == Import!Piece(data, offset)
         IN  /\ p.offset = offset /\ p.length \in Nat /\ offset + p.length <= Len(data) /\ Len(data) \in Nat
             /\ p.length <= PieceSize /\ (p.length < PieceSize => offset + p.length = Len(data))
             /\ p.id = Import!ChunkId(SubSeq(data, offset + 1, offset + p.length))
  <1> DEFINE end == Import!Min({offset + PieceSize, Len(data)})
             p == Import!Piece(data, offset)
  <1>1. Len(data) \in Nat /\ offset \in Nat /\ offset <= Len(data) /\ PieceSize \in Nat /\ PieceSize > 0
    BY SelectionAssumption DEF IsList
  <1>2. \E x \in {offset + PieceSize, Len(data)} : \A y \in {offset + PieceSize, Len(data)} : x <= y
    BY <1>1
  <1>3. end \in {offset + PieceSize, Len(data)} /\ \A y \in {offset + PieceSize, Len(data)} : end <= y
    BY <1>2 DEF Import!Min
  <1>4. p = [id |-> Import!ChunkId(SubSeq(data, offset + 1, end)), offset |-> offset, length |-> end - offset]
    BY Zenon DEF Import!Piece
  <1> HIDE DEF end, p
  <1>5. p.offset = offset /\ p.length = end - offset /\ p.id = Import!ChunkId(SubSeq(data, offset + 1, end))
    BY <1>4
  <1>6. end \in Nat /\ end >= offset /\ end <= Len(data) /\ end <= offset + PieceSize
        /\ (end < offset + PieceSize => end = Len(data))
    BY <1>1, <1>3
  <1>7. offset + p.length = end
    BY <1>1, <1>5, <1>6
  <1> QED BY <1>1, <1>5, <1>6, <1>7 DEF p

\* How far pieces that follow each other go.
LEMMA PiecesReach ==
  ASSUME NEW data, IsList(data), NEW ps, PiecesAre(data, ps)
  PROVE  /\ Len(ps) \in Nat
         /\ \A i \in 1..Len(ps) :
              /\ ps[i].offset \in Nat /\ ps[i].length \in Nat /\ ps[i].offset + ps[i].length <= Len(data)
              /\ ps[i].length <= PieceSize /\ (ps[i].length < PieceSize => ps[i].offset + ps[i].length = Len(data))
              /\ ps[i].id = Import!ChunkId(SubSeq(data, ps[i].offset + 1, ps[i].offset + ps[i].length))
         /\ Import!ReadTo(ps) \in 0..Len(data)
         /\ ps # <<>> => Len(ps) \in 1..Len(ps) /\ Import!ReadTo(ps) = ps[Len(ps)].offset + ps[Len(ps)].length
         /\ ps = <<>> => Len(ps) = 0 /\ Import!ReadTo(ps) = 0
  <1>1. Len(ps) \in Nat /\ Len(data) \in Nat
    BY DEF PiecesAre, IsList
  <1>2. ASSUME NEW i \in 1..Len(ps)
        PROVE  /\ ps[i].offset \in Nat /\ ps[i].length \in Nat /\ ps[i].offset + ps[i].length <= Len(data)
               /\ ps[i].length <= PieceSize /\ (ps[i].length < PieceSize => ps[i].offset + ps[i].length = Len(data))
               /\ ps[i].id = Import!ChunkId(SubSeq(data, ps[i].offset + 1, ps[i].offset + ps[i].length))
    <2> DEFINE o == ps[i].offset
    <2>1. o \in 0..Len(data) /\ ps[i] = Import!Piece(data, o)
      BY <1>1 DEF PiecesAre
    <2>2. /\ ps[i].length \in Nat /\ o + ps[i].length <= Len(data)
          /\ ps[i].length <= PieceSize /\ (ps[i].length < PieceSize => o + ps[i].length = Len(data))
          /\ ps[i].id = Import!ChunkId(SubSeq(data, o + 1, o + ps[i].length))
      BY <2>1, PieceOf
    <2> QED BY <1>1, <2>1, <2>2
  <1>3. CASE ps = <<>>
    <2>1. Import!ReadTo(ps) = 0
      BY <1>3 DEF Import!ReadTo
    <2> QED BY <1>1, <1>2, <1>3, <2>1, EmptyIsList
  <1>4. CASE ps # <<>>
    <2>1. Len(ps) \in 1..Len(ps)
      BY <1>4, FrontAndLast DEF PiecesAre
    <2>2. Import!ReadTo(ps) = ps[Len(ps)].offset + ps[Len(ps)].length
      BY <1>4, Zenon DEF Import!ReadTo, Import!Last
    <2>3. Import!ReadTo(ps) \in 0..Len(data)
      BY <1>1, <1>2, <2>1, <2>2
    <2> QED BY <1>1, <1>2, <1>4, <2>1, <2>2, <2>3
  <1> QED BY <1>3, <1>4

\* The next piece follows the others.
LEMMA OneMorePiece ==
  ASSUME NEW data, IsList(data), NEW ps, PiecesAre(data, ps), ps = <<>> \/ Import!ReadTo(ps) < Len(data)
  PROVE  /\ PiecesAre(data, Append(ps, Import!Piece(data, Import!ReadTo(ps))))
         /\ Append(ps, Import!Piece(data, Import!ReadTo(ps))) # <<>>
  <1> DEFINE to == Import!ReadTo(ps)
             p == Import!Piece(data, to)
             qs == Append(ps, p)
  <1>1. Len(ps) \in Nat /\ to \in 0..Len(data) /\ Len(data) \in Nat
    BY PiecesReach DEF IsList
  <1>2. p.offset = to
    BY <1>1, PieceOf
  <1>3. /\ IsList(qs) /\ Len(qs) = Len(ps) + 1
        /\ \A i \in 1..Len(ps) : qs[i] = ps[i]
        /\ qs[Len(ps) + 1] = p
    BY ListAppend DEF PiecesAre
  <1>4. qs # <<>>
    BY <1>1, <1>3, EmptyIsList
  <1>5. p = Import!Piece(data, p.offset)
    BY <1>2
  <1>6. Len(ps) + 1 = 1 => to = 0
    <2>1. Len(ps) = 0 => ps = <<>>
      BY PiecesReach
    <2> QED BY <1>1, <2>1, PiecesReach
  <1>7. Len(ps) + 1 > 1 => to = ps[Len(ps)].offset + ps[Len(ps)].length /\ to < Len(data)
    <2>1. Len(ps) > 0 => ps # <<>>
      BY EmptyIsList
    <2> QED BY <1>1, <2>1, PiecesReach
  <1> HIDE DEF qs, p, to
  <1>8. ASSUME NEW i \in 1..Len(qs)
        PROVE  /\ qs[i].offset \in Nat /\ qs[i].offset <= Len(data) /\ qs[i] = Import!Piece(data, qs[i].offset)
               /\ i = 1 => qs[i].offset = 0
               /\ i > 1 => qs[i].offset = qs[i - 1].offset + qs[i - 1].length /\ qs[i].offset < Len(data)
    <2>1. CASE i \in 1..Len(ps)
      <3>1. i > 1 => i - 1 \in 1..Len(ps)
        BY <1>1, <2>1
      <3> QED BY <1>3, <2>1, <3>1 DEF PiecesAre
    <2>2. CASE i = Len(ps) + 1
      <3>1. i > 1 => i - 1 \in 1..Len(ps) /\ i - 1 = Len(ps)
        BY <1>1, <2>2
      <3> QED BY <1>1, <1>2, <1>3, <1>5, <1>6, <1>7, <2>2, <3>1
    <2> QED BY <1>1, <1>3, <2>1, <2>2
  <1>9. PiecesAre(data, qs)
    BY <1>3, <1>8 DEF PiecesAre
  <1> QED BY <1>4, <1>9 DEF qs, p, to

\* All that was read, put together, is the file.
LEMMA BytesAreAll ==
  ASSUME NEW data, IsList(data), NEW ps, PiecesAre(data, ps), Import!AllRead(data, ps)
  PROVE  Import!BytesOf(ps) = data
  <1> DEFINE n == Len(ps)
             to(i) == ps[i].offset + ps[i].length
             S == {data[i] : i \in 1..Len(data)}
             parts == [i \in DOMAIN ps |-> ps[i].id[2]]
             Joins(f) == f = [i \in 1..Len(parts) |-> IF i = 1 THEN parts[i] ELSE f[i - 1] \o parts[i]]
             g == [i \in 1..n |-> SubSeq(data, 1, to(i))]
             f == CHOOSE f : Joins(f)
  <1>1. /\ n \in 1..n /\ n \in Nat /\ Len(data) \in Nat /\ data \in Seq(S) /\ DOMAIN ps = 1..n
        /\ to(n) = Len(data)
    <2>1. ps # <<>> /\ Import!ReadTo(ps) = Len(data)
      BY DEF Import!AllRead
    <2>2. n \in Nat /\ n \in 1..n /\ to(n) = Len(data)
      BY <2>1, PiecesReach
    <2>3. data \in Seq(S) /\ Len(data) \in Nat
      BY ListLength DEF IsList
    <2>4. DOMAIN ps = 1..n
      BY DEF PiecesAre, IsList
    <2> QED BY <2>2, <2>3, <2>4
  <1>2. \A i \in 1..n : /\ ps[i].offset \in Nat /\ to(i) \in Nat /\ ps[i].offset <= to(i) /\ to(i) <= Len(data)
                        /\ ps[i].id[2] = SubSeq(data, ps[i].offset + 1, to(i))
    <2> SUFFICES ASSUME NEW i \in 1..n
                 PROVE  /\ ps[i].offset \in Nat /\ to(i) \in Nat /\ ps[i].offset <= to(i) /\ to(i) <= Len(data)
                        /\ ps[i].id[2] = SubSeq(data, ps[i].offset + 1, to(i))
      OBVIOUS
    <2>1. /\ ps[i].offset \in Nat /\ ps[i].length \in Nat /\ to(i) <= Len(data)
          /\ ps[i].id = Import!ChunkId(SubSeq(data, ps[i].offset + 1, to(i)))
      BY PiecesReach
    <2>2. \A bytes : Import!ChunkId(bytes)[2] = bytes
      BY DEF Import!ChunkId
    <2>3. ps[i].id[2] = SubSeq(data, ps[i].offset + 1, to(i))
      BY <2>1, <2>2
    <2> QED BY <2>1, <2>3
  <1>3. \A i \in 1..n : /\ i = 1 => ps[i].offset = 0
                        /\ i > 1 => ps[i].offset = to(i - 1) /\ i - 1 \in 1..n
    BY <1>1 DEF PiecesAre
  <1>4. Len(parts) = n /\ \A i \in 1..n : parts[i] = SubSeq(data, ps[i].offset + 1, to(i))
    BY <1>1, <1>2, ListLength
  <1> HIDE DEF to, n, S
  <1>5. \A i \in 1..n : g[i] = IF i = 1 THEN parts[i] ELSE g[i - 1] \o parts[i]
    <2> SUFFICES ASSUME NEW i \in 1..n PROVE g[i] = IF i = 1 THEN parts[i] ELSE g[i - 1] \o parts[i]
      OBVIOUS
    <2> HIDE DEF parts
    <2>1. CASE i = 1
      <3>0. 1 \in 1..n
        BY <2>1
      <3>1. parts[1] = SubSeq(data, 1, to(1))
        <4>0. ps[1].offset = 0
          BY <1>3, <3>0, Zenon
        <4>1. ps[1].offset + 1 = 1
          BY <4>0
        <4>2. parts[1] = SubSeq(data, ps[1].offset + 1, to(1))
          BY <1>4, <3>0
        <4> QED BY <4>1, <4>2
      <3>2. g[1] = SubSeq(data, 1, to(1))
        BY <3>0
      <3> HIDE DEF g
      <3> QED BY <2>1, <3>1, <3>2
    <2>2. CASE i > 1
      <3>1. i - 1 \in 1..n /\ ps[i].offset = to(i - 1)
        BY <1>3, <2>2
      <3>2. to(i - 1) \in 0..Len(data) /\ to(i) \in to(i - 1)..Len(data)
        BY <1>1, <1>2, <3>1
      <3>3. 1 \in 1..(Len(data) + 1) /\ to(i - 1) \in (1 - 1)..Len(data)
        BY <1>1, <3>2
      <3>4. SubSeq(data, 1, to(i - 1)) \o SubSeq(data, to(i - 1) + 1, to(i)) = SubSeq(data, 1, to(i))
        BY <1>1, <3>2, <3>3, ConcatAdjacentSubSeq
      <3>5. parts[i] = SubSeq(data, to(i - 1) + 1, to(i))
        BY <1>4, <3>1
      <3>6. g[i] = SubSeq(data, 1, to(i)) /\ g[i - 1] = SubSeq(data, 1, to(i - 1))
        BY <3>1
      <3> HIDE DEF g
      <3>7. i # 1
        BY <2>2
      <3> QED BY <3>4, <3>5, <3>6, <3>7
    <2>3. i = 1 \/ i > 1
      BY <1>1
    <2> QED BY <2>1, <2>2, <2>3
  <1> HIDE DEF parts
  <1>6. Joins(g)
    <2>1. g = [i \in 1..n |-> g[i]]
      OBVIOUS
    <2> HIDE DEF g
    <2> QED BY <1>4, <1>5, <2>1
  <1>7. Joins(f)
    <2> HIDE DEF Joins, g
    <2> QED BY <1>6
  <1> HIDE DEF f
  <1>8. \A i \in 1..n : f[i] = IF i = 1 THEN parts[i] ELSE f[i - 1] \o parts[i]
    BY <1>4, <1>7
  <1> HIDE DEF g
  <1> DEFINE T == {i \in 1..n : f[i] # g[i]}
  <1>9. T = {}
    <2> SUFFICES ASSUME T # {} PROVE FALSE
      OBVIOUS
    <2>0. T \in SUBSET Nat
      BY <1>1
    <2>1. PICK i \in T : \A m \in T : i <= m
      BY <2>0, LeastOf
    <2>2. i \in 1..n /\ f[i] # g[i]
      BY <2>1
    <2>3. i # 1
      BY <1>5, <1>8, <2>2
    <2>4. i - 1 \in 1..n /\ ~(i <= i - 1)
      BY <1>1, <2>2, <2>3
    <2>5. f[i - 1] = g[i - 1]
      BY <2>1, <2>4
    <2> HIDE DEF T
    <2> QED BY <1>5, <1>8, <2>2, <2>3, <2>5
  <1>10. Import!BytesOf(ps) = f[n]
    <2>1. Import!BytesOf(ps) = Import!FlattenSeq(parts)
      BY Zenon DEF Import!BytesOf, parts
    <2>2. Len(parts) # 0
      BY <1>1, <1>4
    <2>3. Import!FlattenSeq(parts) = f[Len(parts)]
      BY <2>2, Zenon DEF Import!FlattenSeq, f
    <2> QED BY <1>4, <2>1, <2>3
  <1>11. g[n] = data
    <2>1. g[n] = SubSeq(data, 1, Len(data))
      BY <1>1 DEF g
    <2> QED BY <1>1, <2>1, SubSeqFull
  <1> QED BY <1>1, <1>9, <1>10, <1>11

\* What is kept of a file: the store has its content, or its pieces are all of it.
KeptIs(f, k) ==
  \/ \E a \in StoreAnswers : ~(Len(f.data) < LookupSize) /\ k = Import!FromHit(f, a)
  \/ \E ps : PiecesAre(f.data, ps) /\ Import!AllRead(f.data, ps) /\ k = Import!FromPieces(f, ps)

\* What is known of a file that is kept: its bytes are sent, and its object is there
\* with the chunk list it names.
LEMMA KeptSays ==
  ASSUME NEW f, IsList(f.data), NEW k, KeptIs(f, k)
  PROVE  /\ k.path = f.path /\ Import!Sent(f, k)
         /\ k.id[1] = "file" /\ k.id[2] = f.name /\ k.id \in k.objects
         /\ \A o \in k.objects : /\ o[1] \in {"file", "chunklist"}
                                 /\ o[1] = "file" /\ o[4][1] = "chunklist" => o[4] \in k.objects
  <1>0. Len(f.data) \in Nat /\ LookupSize \in Nat /\ PieceSize \in Nat /\ PieceSize > 0
    BY SelectionAssumption DEF IsList
  <1>1. CASE \E a \in StoreAnswers : ~(Len(f.data) < LookupSize) /\ k = Import!FromHit(f, a)
    <2>1. PICK a \in StoreAnswers : ~(Len(f.data) < LookupSize) /\ k = Import!FromHit(f, a)
      BY <1>1
    <2> DEFINE content == <<"stored", Import!ContentOf(a)>>
               id == Import!FileId(f.name, Len(f.data), content)
    <2>2. k = [path |-> f.path, id |-> id, chunks |-> <<>>, objects |-> {id}, stored |-> TRUE]
      BY <2>1, Zenon DEF Import!FromHit
    <2>3. id[1] = "file" /\ id[2] = f.name /\ id[4] = content /\ content[1] = "stored"
      BY DEF Import!FileId
    <2> HIDE DEF id, content
    <2>4. k.path = f.path /\ k.id = id /\ k.objects = {id} /\ k.stored = TRUE
      BY <2>2
    <2>5. Import!Sent(f, k)
      BY <1>0, <2>1, <2>3, <2>4 DEF Import!Sent
    <2> QED BY <2>3, <2>4, <2>5
  <1>2. CASE \E ps : PiecesAre(f.data, ps) /\ Import!AllRead(f.data, ps) /\ k = Import!FromPieces(f, ps)
    <2>1. PICK ps : PiecesAre(f.data, ps) /\ Import!AllRead(f.data, ps) /\ k = Import!FromPieces(f, ps)
      BY <1>2
    <2> DEFINE content == IF Len(ps) = 1 THEN ps[1].id ELSE Import!ListId(Import!Ids(ps))
               id == Import!FileId(f.name, Len(f.data), content)
    <2>2. k = [path |-> f.path, id |-> id, chunks |-> ps, stored |-> FALSE,
               objects |-> IF Len(ps) = 1 THEN {id} ELSE {content, id}]
      BY <2>1, Zenon DEF Import!FromPieces
    <2>3. id[1] = "file" /\ id[2] = f.name /\ id[4] = content
      BY DEF Import!FileId
    <2>4. /\ ps # <<>> /\ Len(ps) \in Nat /\ Len(ps) \in 1..Len(ps)
          /\ ps[Len(ps)].offset + ps[Len(ps)].length = Len(f.data)
      <3>1. ps # <<>> /\ Import!ReadTo(ps) = Len(f.data)
        BY <2>1 DEF Import!AllRead
      <3> QED BY <2>1, <3>1, PiecesReach
    <2>5. \A ids : Import!ListId(ids)[1] = "chunklist"
      BY DEF Import!ListId
    <2>6. /\ Len(ps) = 1 => content = Import!ChunkId(f.data) /\ Len(f.data) <= PieceSize
          /\ Len(ps) # 1 => content = Import!ListId(Import!Ids(ps)) /\ ~(Len(f.data) <= PieceSize)
      <3>1. CASE Len(ps) = 1
        <4>0. 1 \in 1..Len(ps)
          BY <3>1
        <4>1. ps[1].offset = 0
          BY <2>1, <4>0 DEF PiecesAre
        <4>2. /\ ps[1].length \in Nat /\ ps[1].length <= PieceSize
              /\ ps[1].id = Import!ChunkId(SubSeq(f.data, ps[1].offset + 1, ps[1].offset + ps[1].length))
          BY <2>1, <4>0, PiecesReach
        <4>3. ps[1].offset + 1 = 1 /\ ps[1].offset + ps[1].length = Len(f.data) /\ Len(f.data) <= PieceSize
          BY <2>4, <3>1, <4>1, <4>2
        <4>4. ps[1].id = Import!ChunkId(SubSeq(f.data, 1, Len(f.data)))
          BY <4>2, <4>3
        <4>5. SubSeq(f.data, 1, Len(f.data)) = f.data
          BY ListLength, SubSeqFull DEF IsList
        <4> QED BY <3>1, <4>3, <4>4, <4>5
      <3>2. CASE Len(ps) # 1
        <4>0. 1 \in 1..Len(ps) /\ 2 \in 1..Len(ps) /\ 2 > 1 /\ 2 - 1 = 1
          <5>1. \A n \in Nat : n \in 1..n /\ n # 1 => 1 \in 1..n /\ 2 \in 1..n
            OBVIOUS
          <5>2. 2 > 1 /\ 2 - 1 = 1
            OBVIOUS
          <5> QED BY <2>4, <3>2, <5>1, <5>2, Zenon
        <4>1. ps[1].offset = 0 /\ ps[2].offset = ps[1].offset + ps[1].length /\ ps[2].offset < Len(f.data)
          BY <2>1, <4>0 DEF PiecesAre
        <4>2. ps[1].length \in Nat /\ (ps[1].length < PieceSize => ps[1].offset + ps[1].length = Len(f.data))
          BY <2>1, <4>0, PiecesReach
        <4>3. ~(Len(f.data) <= PieceSize)
          BY <1>0, <4>1, <4>2
        <4> QED BY <3>2, <4>3
      <3> QED BY <3>1, <3>2
    <2> HIDE DEF id, content
    <2>7. /\ k.path = f.path /\ k.id = id /\ k.chunks = ps /\ k.stored = FALSE
          /\ k.objects = IF Len(ps) = 1 THEN {id} ELSE {content, id}
      BY <2>2
    <2>8. Import!BytesOf(ps) = f.data
      BY <2>1, BytesAreAll
    <2>9. Import!Sent(f, k)
      <3>1. id[4] = IF Len(f.data) <= PieceSize THEN Import!ChunkId(f.data) ELSE Import!ListId(Import!Ids(ps))
        BY <2>3, <2>6
      <3> QED BY <2>7, <2>8, <3>1 DEF Import!Sent
    <2>10. /\ id \in k.objects
           /\ \A o \in k.objects : /\ o[1] \in {"file", "chunklist"}
                                   /\ o[1] = "file" /\ o[4][1] = "chunklist" => o[4] \in k.objects
      <3>1. CASE Len(ps) = 1
        <4>1. content[1] = "chunk"
          BY <2>6, <3>1 DEF Import!ChunkId
        <4>2. k.objects = {id}
          BY <2>7, <3>1
        <4> QED BY <2>3, <4>1, <4>2
      <3>2. CASE Len(ps) # 1
        <4>1. content[1] = "chunklist"
          BY <2>5, <2>6, <3>2
        <4>2. k.objects = {content, id}
          BY <2>7, <3>2
        <4> QED BY <2>3, <4>1, <4>2
      <3> QED BY <3>1, <3>2
    <2> QED BY <2>3, <2>7, <2>9, <2>10
  <1> QED BY <1>1, <1>2 DEF KeptIs

-----------------------------------------------------------------------------
(* ImportSelection: the session, and the steps to it.                      *)

\* Every file so far is kept whole, the pieces of the next follow each other, and the
\* session holds what was kept.  That the session is whole follows when it is made; it
\* says nothing of the files before, which is what a step needs to know.
ImportInv ==
  /\ s2 \in ImportsMade
  /\ s1 \notin {"idle", "picking", "failed"} => ~Import!Refused(s2)
  /\ IsList(s4) /\ \A i \in 1..Len(s4) : i \in 1..Len(s2.files) /\ KeptIs(s2.files[i], s4[i])
  /\ s1 \in {"idle", "picking"} => s4 = <<>>
  /\ s1 = "picking" => ~s2.tree
  /\ s1 \in {"idle", "picking", "meta", "qcid", "lookup", "thumbnail"} => s5 = <<>>
  /\ s1 \in {"meta", "qcid", "lookup", "hashing", "reading", "link"} => Len(s4) < Len(s2.files)
  /\ s1 = "lookup" => ~(Len(Import!File.data) < LookupSize)
  /\ s1 \in {"hashing", "reading", "link"} => PiecesAre(Import!File.data, s5)
  /\ s1 = "reading" => s5 = <<>> \/ Import!ReadTo(s5) < Len(Import!File.data)
  /\ s1 = "link" => Import!AllRead(Import!File.data, s5)
  /\ s1 = "done" => Len(s4) = Len(s2.files) /\ s6 = Import!Registered(s2, s4)

\* The session of files that are kept: what it registers, and what follows from it.
LEMMA SessionIsWhole ==
  ASSUME NEW s \in ImportsMade, ~Import!Refused(s), NEW ks, IsList(ks), Len(ks) = Len(s.files),
         \A i \in 1..Len(ks) : KeptIs(s.files[i], ks[i])
  PROVE  LET r == Import!Registered(s, ks)
         IN  /\ \A i \in 1..Len(ks) : ks[i].id \in r.manifest /\ ks[i].id \in DOMAIN r.states
             /\ Import!Closed(r.manifest) /\ Import!ToSet(r.items) \subseteq r.manifest
             /\ \A l \in r.links : \E i \in 1..Len(ks) : l = <<ks[i].path, ks[i].id[4]>>
  <1> DEFINE placed == Import!ToSet(ks)
             dirs == Import!DirsIn(s)
             objects == Import!DirObjects(dirs, placed)
             r == Import!Registered(s, ks)
             top == CHOOSE d \in dirs : Len(d) = 1
  <1>1. /\ r.items = (IF dirs = {} THEN [i \in DOMAIN ks |-> ks[i].id] ELSE <<objects[top]>>)
        /\ r.manifest = (UNION {k.objects : k \in placed}) \union {objects[d] : d \in dirs}
        /\ DOMAIN r.states = {k.id : k \in placed}
        /\ r.links = {<<k.path, k.id[4]>> : k \in {k \in placed : k.id[3] >= LookupSize}}
    BY DEF Import!Registered
  <1>2. DOMAIN ks = 1..Len(ks) /\ IsList(s.files) /\ \A i \in 1..Len(ks) : IsList(s.files[i].data)
    BY SelectionAssumption DEF IsList
  <1>3. \A k : k \in placed <=> \E i \in 1..Len(ks) : k = ks[i]
    BY <1>2 DEF Import!ToSet
  <1>4. \A k \in placed : /\ k.id[1] = "file" /\ k.id \in k.objects
                          /\ \A o \in k.objects : /\ o[1] \in {"file", "chunklist"}
                                                  /\ o[1] = "file" /\ o[4][1] = "chunklist" => o[4] \in k.objects
    <2> SUFFICES ASSUME NEW i \in 1..Len(ks)
                 PROVE  /\ ks[i].id[1] = "file" /\ ks[i].id \in ks[i].objects
                        /\ \A o \in ks[i].objects : /\ o[1] \in {"file", "chunklist"}
                                                    /\ o[1] = "file" /\ o[4][1] = "chunklist" => o[4] \in ks[i].objects
      BY <1>3
    <2> QED BY <1>2, KeptSays
  <1>5. dirs # {} => TreeIs(s.files, dirs)
    <2>1. s.tree \/ s.mode = "single_dir" \/ dirs = {}
      BY DEF Import!DirsIn
    <2> QED BY <2>1, HandedTree, PickedTree
  <1>6. ObjectsNameTheirs(dirs, placed, objects)
    <2>1. ASSUME dirs # {} PROVE \E b \in Nat : \A d \in dirs : IsList(d) /\ d # <<>> /\ Len(d) <= b
      BY <1>5, <2>1 DEF TreeIs
    <2>2. CASE dirs # {}
      BY <2>1, <2>2, ObjectsAreMade
    <2>3. CASE dirs = {}
      BY <2>3 DEF ObjectsNameTheirs
    <2> QED BY <2>2, <2>3
  <1>7. \A p \in dirs : /\ objects[p][1] = "dir"
                        /\ \A o \in objects[p][3] : \/ \E d \in dirs : o = objects[d]
                                                    \/ \E k \in placed : o = k.id
    <2> TAKE p \in dirs
    <2> DEFINE children == {objects[d] : d \in {q \in dirs : Import!Front(q) = p}}
                           \union {k.id : k \in {k \in placed : Import!Front(k.path) = p}}
    <2>1. objects[p] = Import!DirId(Import!Last(p), children)
      BY <1>6 DEF ObjectsNameTheirs
    <2>2. \A o \in children : \/ \E d \in dirs : o = objects[d]
                              \/ \E k \in placed : o = k.id
      <3> HIDE DEF dirs, placed, objects
      <3> QED OBVIOUS
    <2> HIDE DEF children
    <2>3. objects[p][1] = "dir" /\ objects[p][3] = children
      BY <2>1 DEF Import!DirId
    <2> QED BY <2>2, <2>3
  <1>8. dirs # {} => top \in dirs
    BY <1>5 DEF TreeIs
  <1> HIDE DEF placed, dirs, objects, r, top
  <1>9. /\ \A k \in placed : k.objects \subseteq r.manifest
        /\ \A d \in dirs : objects[d] \in r.manifest
        /\ \A o \in r.manifest : (\E k \in placed : o \in k.objects) \/ (\E d \in dirs : o = objects[d])
    <2>1. r.manifest = (UNION {k.objects : k \in placed}) \union {objects[d] : d \in dirs}
      BY <1>1
    <2>2. ASSUME NEW k \in placed, NEW o \in k.objects PROVE o \in r.manifest
      BY <2>1, <2>2
    <2>3. ASSUME NEW d \in dirs PROVE objects[d] \in r.manifest
      BY <2>1, <2>3
    <2>4. ASSUME NEW o \in r.manifest PROVE (\E k \in placed : o \in k.objects) \/ (\E d \in dirs : o = objects[d])
      BY <2>1, <2>4
    <2> QED BY <2>2, <2>3, <2>4
  <1>10. \A i \in 1..Len(ks) : ks[i].id \in r.manifest /\ ks[i].id \in DOMAIN r.states
    BY <1>1, <1>3, <1>4, <1>9
  <1>11. Import!Closed(r.manifest)
    <2> SUFFICES ASSUME NEW o \in r.manifest
                 PROVE  /\ o[1] = "dir" => o[3] \subseteq r.manifest
                        /\ o[1] = "file" => (o[4][1] = "chunklist" => o[4] \in r.manifest)
      BY DEF Import!Closed
    <2>1. CASE \E k \in placed : o \in k.objects
      BY <1>4, <1>9, <2>1
    <2>2. CASE \E d \in dirs : o = objects[d]
      BY <1>4, <1>7, <1>9, <2>2
    <2> QED BY <1>9, <2>1, <2>2
  <1>12. Import!ToSet(r.items) \subseteq r.manifest
    <2>1. CASE dirs = {}
      <3>1. r.items = [i \in 1..Len(ks) |-> ks[i].id]
        BY <1>1, <1>2, <2>1
      <3> QED BY <1>10, <3>1 DEF Import!ToSet
    <2>2. CASE dirs # {}
      <3>1. r.items = <<objects[top]>>
        BY <1>1, <2>2
      <3> QED BY <1>8, <1>9, <2>2, <3>1 DEF Import!ToSet
    <2> QED BY <2>1, <2>2
  <1>13. \A l \in r.links : \E i \in 1..Len(ks) : l = <<ks[i].path, ks[i].id[4]>>
    BY <1>1, <1>3
  <1> QED BY <1>10, <1>11, <1>12, <1>13 DEF r

\* The files of a directory are found where they lay, one thing at a place.
LEMMA PlacesKept ==
  ASSUME NEW s \in ImportsMade, ~Import!Refused(s), s.mode = "single_dir",
         NEW ks, IsList(ks), Len(ks) = Len(s.files), \A i \in 1..Len(ks) : KeptIs(s.files[i], ks[i])
  PROVE  LET depth == Import!Depth(s) + 1
             found == Import!FoundIn(Import!Registered(s, ks).items[1], depth)
             places == UNION {found[n] : n \in 1..depth}
         IN  /\ {p \in places : p[2][1] = "file"} = {<<s.files[i].path, ks[i].id>> : i \in 1..Len(ks)}
             /\ \A p, q \in places : p[1] = q[1] => p = q
             /\ found[depth] = {}
  <1> DEFINE fs == s.files
             placed == Import!ToSet(ks)
             dirs == Import!DirsIn(s)
             objects == Import!DirObjects(dirs, placed)
             r == Import!Registered(s, ks)
             top == CHOOSE d \in dirs : Len(d) = 1
             depth == Import!Depth(s) + 1
             found == Import!FoundIn(r.items[1], depth)
             places == UNION {found[n] : n \in 1..depth}
             At(n) == AtDepth(dirs, objects, placed, n)
  <1>1. DOMAIN ks = 1..Len(ks) /\ IsList(fs) /\ DOMAIN fs = 1..Len(ks) /\ Len(ks) \in Nat /\ Len(fs) = Len(ks)
    BY SelectionAssumption DEF IsList
  <1>2. \A i \in 1..Len(ks) : IsList(fs[i].data) /\ IsList(fs[i].path) /\ fs[i].path # <<>> /\ Len(fs[i].path) \in Nat
    BY <1>1, SelectionAssumption DEF IsList
  <1>3. TreeIs(fs, dirs)
    BY HandedTree, PickedTree
  <1>4. \A k : k \in placed <=> \E i \in 1..Len(ks) : k = ks[i]
    BY <1>1 DEF Import!ToSet
  <1>5. \A i \in 1..Len(ks) : ks[i].path = fs[i].path /\ ks[i].id[1] = "file" /\ ks[i].id[2] = fs[i].name
    BY <1>2, KeptSays
  <1>6. top \in dirs /\ Len(top) = 1 /\ \A d \in dirs : Len(d) = 1 => d = top
    BY <1>3 DEF TreeIs
  <1>7. \A d \in dirs : IsList(d) /\ d # <<>> /\ (Len(d) > 1 => Import!Front(d) \in dirs) /\ Len(d) \in Nat
    BY <1>3 DEF TreeIs, IsList
  <1>8. r.items[1] = objects[top]
    <2>1. r.items = IF dirs = {} THEN [i \in DOMAIN ks |-> ks[i].id] ELSE <<objects[top]>>
      BY DEF Import!Registered
    <2> HIDE DEF dirs, r, objects, top
    <2>2. r.items = <<objects[top]>>
      BY <1>6, <2>1
    <2> QED BY <2>2
  <1>9. FilesIn(dirs, placed)
    <2>1. \A i \in 1..Len(ks) : /\ Len(fs[i].path) > 1 /\ Import!Front(fs[i].path) \in dirs
                                /\ fs[i].name = Import!Last(fs[i].path)
      BY <1>3 DEF TreeIs
    <2> HIDE DEF placed, dirs, fs
    <2> QED BY <1>2, <1>4, <1>5, <2>1 DEF FilesIn
  <1>10. ObjectsNameTheirs(dirs, placed, objects)
    <2>1. PICK b \in Nat : \A d \in dirs : Len(d) <= b
      BY <1>3 DEF TreeIs
    <2> QED BY <1>7, <2>1, ObjectsAreMade
  <1>11. /\ Import!Depth(s) \in Nat
         /\ \A i \in 1..Len(ks) : Len(fs[i].path) <= Import!Depth(s)
         /\ \A d \in dirs : Len(d) <= Import!Depth(s)
    <2> DEFINE g == [i \in 1..Len(ks) |-> Len(fs[i].path)]
               S == {1} \union {Len(fs[i].path) : i \in DOMAIN fs} \union {Len(d) : d \in dirs}
    <2>1. PICK b \in Nat : \A i \in 1..Len(ks) : g[i] <= b
      BY <1>1, <1>2, ListBound
    <2>2. PICK c \in Nat : \A d \in dirs : Len(d) <= c
      BY <1>3 DEF TreeIs
    <2> HIDE DEF dirs, fs
    <2>3. S \in SUBSET Nat /\ S # {}
      BY <1>1, <1>2, <1>7
    <2>4. b + c + 1 \in Nat /\ \A x \in S : x <= b + c + 1
      <3>1. \A i \in 1..Len(ks) : Len(fs[i].path) <= b
        BY <2>1
      <3> QED BY <1>1, <1>2, <1>7, <2>2, <3>1
    <2>5. Import!Max(S) \in S /\ \A x \in S : x <= Import!Max(S)
      <3> HIDE DEF S
      <3> QED BY <2>3, <2>4, GreatestIs
    <2>6. Import!Depth(s) = Import!Max(S)
      BY Zenon DEF Import!Depth, S, dirs, fs
    <2> QED BY <1>1, <2>3, <2>5, <2>6
  <1>12. depth \in Nat /\ depth \in 1..depth /\ depth > Import!Depth(s)
    BY <1>11
  <1> HIDE DEF dirs, placed, objects, r, top, fs
  <1>13. \A n \in 1..depth : found[n] = At(n)
    <2>1. top \in dirs /\ Len(top) = 1 /\ depth \in Nat
      BY <1>6, <1>12
    <2>2. BelowRoot(dirs, top)
      BY <1>6, <1>7 DEF BelowRoot
    <2> HIDE DEF depth
    <2>3. \A n \in 1..depth : Import!FoundIn(objects[top], depth)[n] = At(n)
      BY <1>9, <1>10, <2>1, <2>2, FoundWhereTheyLay
    <2> QED BY <1>8, <2>3
  <1> HIDE DEF depth, found
  <1>14. places = {<<d, objects[d]>> : d \in dirs} \union {<<k.path, k.id>> : k \in placed}
    <2>1. ASSUME NEW p \in places
          PROVE  (\E d \in dirs : p = <<d, objects[d]>>) \/ (\E k \in placed : p = <<k.path, k.id>>)
      <3>1. PICK n \in 1..depth : p \in At(n)
        BY <1>13, <2>1
      <3> QED BY <3>1 DEF AtDepth
    <2>2. ASSUME NEW d \in dirs PROVE <<d, objects[d]>> \in places
      <3>1. Len(d) \in 1..depth
        <4>1. Len(d) # 0
          <5>1. IsList(d) /\ d # <<>>
            BY <1>7
          <5>2. Len(d) \in Nat /\ Len(d) > 0
            BY <5>1, FrontAndLast
          <5> QED BY <5>2
        <4> QED BY <1>7, <1>11, <1>12, <4>1
      <3>2. <<d, objects[d]>> \in At(Len(d))
        BY DEF AtDepth
      <3> HIDE DEF At
      <3> QED BY <1>13, <3>1, <3>2
    <2>3. ASSUME NEW k \in placed PROVE <<k.path, k.id>> \in places
      <3>1. Len(k.path) \in 1..depth
        <4>1. PICK i \in 1..Len(ks) : k = ks[i]
          BY <1>4
        <4>2. Len(k.path) \in Nat /\ Len(k.path) <= Import!Depth(s) /\ Len(k.path) > 1
          BY <1>2, <1>5, <1>9, <1>11, <4>1 DEF FilesIn
        <4> QED BY <1>11, <1>12, <4>2
      <3>2. <<k.path, k.id>> \in At(Len(k.path))
        BY DEF AtDepth
      <3> HIDE DEF At
      <3> QED BY <1>13, <3>1, <3>2
    <2> HIDE DEF places
    <2> QED BY <2>1, <2>2, <2>3
  <1>15. \A d \in dirs : objects[d][1] = "dir"
    <2>1. \A name, children : Import!DirId(name, children)[1] = "dir"
      BY DEF Import!DirId
    <2> TAKE d \in dirs
    <2> DEFINE children == {objects[e] : e \in {q \in dirs : Import!Front(q) = d}}
                           \union {k.id : k \in {k \in placed : Import!Front(k.path) = d}}
    <2>2. objects[d] = Import!DirId(Import!Last(d), children)
      BY <1>10 DEF ObjectsNameTheirs
    <2> HIDE DEF children
    <2> QED BY <2>1, <2>2
  <1> HIDE DEF places
  <1>16. {p \in places : p[2][1] = "file"} = {<<fs[i].path, ks[i].id>> : i \in 1..Len(ks)}
    <2>1. ASSUME NEW p \in places, p[2][1] = "file" PROVE \E i \in 1..Len(ks) : p = <<fs[i].path, ks[i].id>>
      <3>1. PICK k \in placed : p = <<k.path, k.id>>
        BY <1>14, <1>15, <2>1
      <3> QED BY <1>4, <1>5, <3>1
    <2>2. ASSUME NEW i \in 1..Len(ks) PROVE <<fs[i].path, ks[i].id>> \in places /\ ks[i].id[1] = "file"
      <3>1. ks[i] \in placed /\ ks[i].path = fs[i].path /\ ks[i].id[1] = "file"
        BY <1>4, <1>5
      <3> QED BY <1>14, <3>1
    <2> QED BY <2>1, <2>2
  <1>17. \A p, q \in places : p[1] = q[1] => p = q
    <2>1. \A i \in 1..Len(ks) : fs[i].path \notin dirs
      BY <1>1, <1>3 DEF TreeIs
    <2>2. \A i, j \in 1..Len(ks) : fs[i].path = fs[j].path => i = j
      BY <1>1, <1>3 DEF TreeIs
    <2>3. \A k \in placed : k.path \notin dirs
      BY <1>4, <1>5, <2>1
    <2>4. \A k, l \in placed : k.path = l.path => k = l
      BY <1>4, <1>5, <2>2
    <2> SUFFICES ASSUME NEW p \in places, NEW q \in places, p[1] = q[1] PROVE p = q
      OBVIOUS
    <2>5. CASE \E d \in dirs : p = <<d, objects[d]>>
      <3>1. PICK d \in dirs : p = <<d, objects[d]>>
        BY <2>5
      <3>2. \E e \in dirs : q = <<e, objects[e]>>
        BY <1>14, <2>3, <3>1
      <3> QED BY <3>1, <3>2
    <2>6. CASE \E k \in placed : p = <<k.path, k.id>>
      <3>1. PICK k \in placed : p = <<k.path, k.id>>
        BY <2>6
      <3>2. PICK l \in placed : q = <<l.path, l.id>>
        BY <1>14, <2>3, <3>1
      <3> QED BY <2>4, <3>1, <3>2
    <2> QED BY <1>14, <2>5, <2>6
  <1>18. found[depth] = {}
    <2>1. ASSUME NEW x \in At(depth) PROVE FALSE
      <3>1. CASE \E d \in dirs : Len(d) = depth
        BY <1>7, <1>11, <1>12, <3>1
      <3>2. CASE \E k \in placed : Len(k.path) = depth
        <4>1. PICK k \in placed : Len(k.path) = depth
          BY <3>2
        <4>2. PICK i \in 1..Len(ks) : k = ks[i]
          BY <1>4
        <4>3. Len(k.path) \in Nat /\ Len(k.path) <= Import!Depth(s)
          BY <1>2, <1>5, <1>11, <4>2
        <4> QED BY <1>11, <1>12, <4>1, <4>3
      <3> QED BY <2>1, <3>1, <3>2 DEF AtDepth
    <2>2. found[depth] = At(depth)
      BY <1>12, <1>13
    <2> HIDE DEF At
    <2> QED BY <2>1, <2>2
  <1> QED BY <1>16, <1>17, <1>18 DEF fs, r, depth, found, places

\* A selection that is not there yet or was refused has nothing to keep to; what a step
\* leaves alone stays as it was.
LEMMA ImportFails == ImportInv /\ Import!Fails => ImportInv'
  BY DEF ImportInv, Import!Fails, Import!File, KeptIs, PiecesAre

\* A step that changes no variable keeps the invariant.
LEMMA ImportStays == ImportInv /\ UNCHANGED <<s1, s2, s4, s5, s6>> => ImportInv'
  BY DEF ImportInv, Import!File, KeptIs, PiecesAre

\* An import starts in its invariant.
LEMMA ImportInit == Import!Init => ImportInv
  BY EmptyIsList DEF Import!Init, ImportInv

\* What is picked or handed over is at least one file, but for a tree.
LEMMA FilesArePicked ==
  ASSUME NEW s \in ImportsMade, ~Import!Refused(s)
  PROVE  /\ Len(s.files) \in Nat
         /\ s.files = <<>> => s.tree /\ Len(s.files) = 0
         /\ s.files # <<>> => 0 < Len(s.files)
  <1>1. IsList(s.files)
    BY SelectionAssumption
  <1>2. s.files = <<>> => s.tree
    BY DEF Import!Refused
  <1> QED BY <1>1, <1>2, EmptyIsList, FrontAndLast DEF IsList

\* The selection is known, or asked for.
LEMMA ImportCalls == ImportInv /\ (Import!Call \/ Import!Picks \/ Import!PickCancelled) => ImportInv'
  <1> SUFFICES ASSUME ImportInv, Import!Call \/ Import!Picks \/ Import!PickCancelled PROVE ImportInv'
    OBVIOUS
  <1>1. CASE Import!Fails
    BY <1>1, ImportFails
  <1>2. CASE s1 = "idle" /\ Import!Goes("picking") /\ s2.picker
    BY <1>2, SelectionAssumption DEF ImportInv, Import!Goes, Import!File, KeptIs
  <1>3. CASE s1 \in {"idle", "picking"} /\ ~Import!Refused(s2) /\ (s1 = "picking" \/ s2.files # <<>>) /\ Import!Goes("meta")
    <2>1. s2 \in ImportsMade /\ s4 = <<>> /\ s5 = <<>> /\ (s1 = "picking" => ~s2.tree)
      BY <1>3 DEF ImportInv
    <2>2. s2.files # <<>>
      BY <1>3, <2>1, FilesArePicked
    <2>3. Len(s4) < Len(s2.files)
      BY <1>3, <2>1, <2>2, FilesArePicked, EmptyIsList
    <2>4. s1' = "meta" /\ s2' = s2 /\ s4' = s4 /\ s5' = s5
      BY <1>3 DEF Import!Goes
    <2>5. ~Import!Refused(s2')
      BY <1>3, <2>4
    <2> QED BY <2>1, <2>3, <2>4, <2>5, EmptyIsList DEF ImportInv
  <1>4. CASE s1 = "idle" /\ ~Import!Refused(s2) /\ s2.files = <<>> /\ Import!Finish(<<>>)
    <2>1. s1' = "done" /\ s2' = s2 /\ s4' = <<>> /\ s5' = <<>> /\ s6' = Import!Registered(s2, <<>>)
      BY <1>4 DEF Import!Finish
    <2>2. s2 \in ImportsMade /\ Len(s2.files) = 0
      BY <1>4, FilesArePicked DEF ImportInv
    <2>3. ~Import!Refused(s2')
      BY <1>4, <2>1
    <2>4. s6' = Import!Registered(s2', s4')
      BY <2>1
    <2> QED BY <2>1, <2>2, <2>3, <2>4, EmptyIsList DEF ImportInv
  <1> QED BY <1>1, <1>2, <1>3, <1>4 DEF Import!Call, Import!Picks, Import!PickCancelled

\* Files of the selection that are kept whole.
KeptSoFar(ks) == IsList(ks) /\ \A i \in 1..Len(ks) : i \in 1..Len(s2.files) /\ KeptIs(s2.files[i], ks[i])

\* One more file is kept.
LEMMA OneMoreKept ==
  ASSUME ImportInv, Len(s4) < Len(s2.files), NEW k, KeptIs(Import!File, k)
  PROVE  KeptSoFar(Append(s4, k))
  <1> DEFINE ks == Append(s4, k)
  <1>1. IsList(s4) /\ Len(s4) \in Nat /\ \A i \in 1..Len(s4) : i \in 1..Len(s2.files) /\ KeptIs(s2.files[i], s4[i])
    BY DEF ImportInv, IsList
  <1>2. /\ IsList(ks) /\ Len(ks) = Len(s4) + 1
        /\ \A i \in 1..Len(s4) : ks[i] = s4[i]
        /\ ks[Len(s4) + 1] = k
    BY <1>1, ListAppend
  <1>3. Len(s2.files) \in Nat
    BY SelectionAssumption DEF ImportInv, IsList
  <1> HIDE DEF ks
  <1>4. ASSUME NEW i \in 1..Len(ks) PROVE i \in 1..Len(s2.files) /\ KeptIs(s2.files[i], ks[i])
    <2>1. CASE i \in 1..Len(s4)
      BY <1>1, <1>2, <2>1
    <2>2. CASE i = Len(s4) + 1
      BY <1>1, <1>2, <1>3, <2>2 DEF Import!File
    <2> QED BY <1>1, <1>2, <2>1, <2>2
  <1> QED BY <1>2, <1>4 DEF KeptSoFar, ks

\* After a file comes the next, or the session.
LEMMA ImportGoesOn ==
  ASSUME ImportInv, s1 \notin {"idle", "picking", "failed"}, NEW ks, KeptSoFar(ks), Import!NextFile(ks)
  PROVE  ImportInv'
  <1>1. s2 \in ImportsMade /\ ~Import!Refused(s2) /\ Len(s2.files) \in Nat
    BY FilesArePicked DEF ImportInv
  <1>2. CASE Import!Fails
    BY <1>2, ImportFails
  <1>3. CASE Len(ks) = Len(s2.files) /\ Import!Finish(ks)
    <2>1. s1' = "done" /\ s2' = s2 /\ s4' = ks /\ s5' = <<>> /\ s6' = Import!Registered(s2, ks)
      BY <1>3 DEF Import!Finish
    <2>2. ~Import!Refused(s2') /\ s6' = Import!Registered(s2', s4')
      BY <1>1, <2>1
    <2>3. \A i \in 1..Len(s4') : i \in 1..Len(s2'.files) /\ KeptIs(s2'.files[i], s4'[i])
      BY <2>1 DEF KeptSoFar
    <2> QED BY <1>1, <1>3, <2>1, <2>2, <2>3 DEF ImportInv, KeptSoFar, KeptIs
  <1>4. CASE Len(ks) # Len(s2.files) /\ s1' = "meta" /\ s4' = ks /\ s5' = <<>> /\ UNCHANGED s2
    <2>1. ~Import!Refused(s2')
      BY <1>1, <1>4
    <2>2. \A i \in 1..Len(s4') : i \in 1..Len(s2'.files) /\ KeptIs(s2'.files[i], s4'[i])
      BY <1>4 DEF KeptSoFar
    <2>3. Len(ks) < Len(s2.files)
      <3>1. Len(ks) \in Nat /\ \A i \in 1..Len(ks) : i \in 1..Len(s2.files)
        BY DEF KeptSoFar, IsList
      <3> QED BY <1>1, <1>4, <3>1
    <2> QED BY <1>1, <1>4, <2>1, <2>2, <2>3 DEF ImportInv, KeptSoFar, KeptIs
  <1> QED BY <1>2, <1>3, <1>4 DEF Import!NextFile

\* No pieces follow each other, too.
LEMMA NoPiecesYet == \A data : PiecesAre(data, <<>>)
  BY EmptyIsList DEF PiecesAre

\* The file whose turn it is has bytes in order.
LEMMA FileIsRead ==
  ASSUME ImportInv, Len(s4) < Len(s2.files)
  PROVE  IsList(Import!File.data) /\ Len(Import!File.data) \in Nat
  <1>1. Len(s4) \in Nat /\ Len(s2.files) \in Nat /\ DOMAIN s2.files = 1..Len(s2.files)
    BY SelectionAssumption DEF ImportInv, IsList
  <1>2. Len(s4) + 1 \in DOMAIN s2.files
    BY <1>1
  <1>3. IsList(s2.files[Len(s4) + 1].data)
    BY <1>2, SelectionAssumption DEF ImportInv
  <1> QED BY <1>3 DEF Import!File, IsList

\* A step within a file: the files before it stay as they were.
WithinFile ==
  /\ s1 \in {"meta", "qcid", "lookup", "hashing", "reading", "link"}
  /\ s1' \in {"qcid", "lookup", "hashing", "reading", "link"} /\ UNCHANGED <<s2, s4, s6>>

\* A file that is read on keeps what is known of it.
LEMMA ImportWithinFile ==
  ASSUME ImportInv, WithinFile,
         s1' \in {"qcid", "lookup"} => s5' = <<>>,
         s1' = "lookup" => ~(Len(Import!File.data) < LookupSize),
         PiecesAre(Import!File.data, s5'),
         s1' = "reading" => s5' = <<>> \/ Import!ReadTo(s5') < Len(Import!File.data),
         s1' = "link" => Import!AllRead(Import!File.data, s5')
  PROVE  ImportInv'
  <1>1. /\ s2' \in ImportsMade /\ ~Import!Refused(s2') /\ Len(s4') < Len(s2'.files)
        /\ s1' \in {"qcid", "lookup", "hashing", "reading", "link"}
    BY DEF ImportInv, WithinFile
  <1>2. IsList(s4') /\ \A i \in 1..Len(s4') : i \in 1..Len(s2'.files) /\ KeptIs(s2'.files[i], s4'[i])
    BY DEF ImportInv, WithinFile
  <1>3. Import!File' = Import!File
    BY DEF Import!File, WithinFile
  <1> DEFINE file == Import!File
  <1>4. file' = file
    BY <1>3
  <1>5. /\ s1' \in {"qcid", "lookup"} => s5' = <<>>
        /\ s1' = "lookup" => ~(Len(file'.data) < LookupSize)
        /\ PiecesAre(file'.data, s5')
        /\ s1' = "reading" => s5' = <<>> \/ Import!ReadTo(s5') < Len(file'.data)
        /\ s1' = "link" => Import!AllRead(file'.data, s5')
    BY <1>4
  <1> QED BY <1>1, <1>2, <1>5 DEF ImportInv, KeptIs, PiecesAre

\* What is asked of a file before it is read.
LEMMA ImportAsks == ImportInv /\ (Import!MetaRead \/ Import!QcidRead \/ Import!LookupFails) => ImportInv'
  <1> SUFFICES ASSUME ImportInv, Import!MetaRead \/ Import!QcidRead \/ Import!LookupFails PROVE ImportInv'
    OBVIOUS
  <1>1. CASE Import!Fails
    BY <1>1, ImportFails
  <1>2. CASE /\ s1 \in {"meta", "qcid", "lookup"} /\ UNCHANGED <<s2, s4, s5, s6>>
             /\ s1' \in {"qcid", "lookup", "hashing", "reading"}
             /\ s1' = "lookup" => ~(Len(Import!File.data) < LookupSize)
    <2>1. WithinFile /\ s5' = <<>>
      BY <1>2 DEF ImportInv, WithinFile
    <2> QED BY <1>2, <2>1, NoPiecesYet, ImportWithinFile
  <1>3. Import!Reading \in {"hashing", "reading"}
    BY DEF Import!Reading
  <1> QED BY <1>1, <1>2, <1>3 DEF Import!MetaRead, Import!QcidRead, Import!LookupFails, Import!Goes

\* The store has the content already, or the file is read.
LEMMA ImportLooksUp == ImportInv /\ Import!LookupAnswers => ImportInv'
  <1> SUFFICES ASSUME ImportInv, NEW a \in StoreAnswers, s1 = "lookup",
                      IF Import!Hit(a)
                      THEN IF s2.thumbnails
                           THEN /\ s1' = "thumbnail" /\ s4' = Append(s4, Import!FromHit(Import!File, a))
                                /\ UNCHANGED <<s2, s3, s5, s6>>
                           ELSE Import!NextFile(Append(s4, Import!FromHit(Import!File, a)))
                      ELSE Import!Goes(Import!Reading)
               PROVE  ImportInv'
    BY DEF Import!LookupAnswers
  <1>1. Len(s4) < Len(s2.files) /\ ~(Len(Import!File.data) < LookupSize) /\ s5 = <<>>
    BY DEF ImportInv
  <1> DEFINE k == Import!FromHit(Import!File, a)
             ks == Append(s4, k)
  <1>2. KeptIs(Import!File, k)
    BY <1>1 DEF KeptIs
  <1> HIDE DEF k
  <1>3. KeptSoFar(ks)
    BY <1>1, <1>2, OneMoreKept
  <1> HIDE DEF ks
  <1>4. CASE Import!Goes(Import!Reading)
    <2>1. Import!Reading \in {"hashing", "reading"}
      BY DEF Import!Reading
    <2>2. WithinFile /\ s5' = <<>> /\ s1' \in {"hashing", "reading"}
      BY <1>1, <1>4, <2>1 DEF WithinFile, Import!Goes
    <2> QED BY <2>2, NoPiecesYet, ImportWithinFile
  <1>5. CASE s1' = "thumbnail" /\ s4' = ks /\ UNCHANGED <<s2, s3, s5, s6>>
    <2>1. ~Import!Refused(s2') /\ s2' \in ImportsMade
      BY <1>5 DEF ImportInv
    <2>2. IsList(s4') /\ \A i \in 1..Len(s4') : i \in 1..Len(s2'.files) /\ KeptIs(s2'.files[i], s4'[i])
      BY <1>3, <1>5 DEF KeptSoFar
    <2> QED BY <1>1, <1>5, <2>1, <2>2 DEF ImportInv, KeptIs
  <1>6. CASE Import!NextFile(ks)
    BY <1>3, <1>6, ImportGoesOn
  <1> QED BY <1>4, <1>5, <1>6 DEF k, ks

\* The bytes are read, by the worker or by the page.
LEMMA ImportReads ==
  ImportInv /\ (Import!WorkerPosts \/ Import!WorkerDone \/ Import!WorkerFails \/ Import!ReadsPiece) => ImportInv'
  <1> SUFFICES ASSUME ImportInv, Import!WorkerPosts \/ Import!WorkerDone \/ Import!WorkerFails \/ Import!ReadsPiece
               PROVE  ImportInv'
    OBVIOUS
  <1> DEFINE data == Import!File.data
             ps == Append(s5, Import!Piece(data, Import!ReadTo(s5)))
  <1>0. CASE Import!Fails
    BY <1>0, ImportFails
  <1>1. s1 \in {"hashing", "reading"} => PiecesAre(data, s5) /\ IsList(data) /\ Len(data) \in Nat
    BY FileIsRead DEF ImportInv
  <1>2. CASE Import!WorkerPosts
    <2>1. s1 = "hashing" /\ Import!ReadTo(s5) < Len(data) /\ s5' = ps /\ UNCHANGED <<s1, s2, s4, s6>>
      BY <1>2 DEF Import!WorkerPosts
    <2>2. PiecesAre(data, ps)
      BY <1>1, <2>1, OneMorePiece
    <2>3. WithinFile
      BY <2>1 DEF WithinFile
    <2> HIDE DEF ps
    <2> QED BY <2>1, <2>2, <2>3, ImportWithinFile
  <1>3. CASE Import!WorkerDone
    <2>1. s1 = "hashing" /\ Import!AllRead(data, s5) /\ s1' = "link" /\ UNCHANGED <<s2, s4, s5, s6>>
      BY <1>3 DEF Import!WorkerDone, Import!Goes
    <2>2. WithinFile
      BY <2>1 DEF WithinFile
    <2>3. s5' = s5 /\ PiecesAre(data, s5)
      BY <1>1, <2>1
    <2> QED BY <2>1, <2>2, <2>3, ImportWithinFile
  <1>4. CASE Import!WorkerFails
    <2>1. s1 = "hashing" /\ s1' = "reading" /\ s5' = <<>> /\ UNCHANGED <<s2, s4, s6>>
      BY <1>4 DEF Import!WorkerFails, Import!FallsBack
    <2>2. WithinFile
      BY <2>1 DEF WithinFile
    <2> QED BY <2>1, <2>2, NoPiecesYet, ImportWithinFile
  <1>5. CASE s1 = "reading" /\ s5' = ps /\ s1' = (IF Import!AllRead(data, ps) THEN "link" ELSE "reading") /\ UNCHANGED <<s2, s4, s6>>
    <2>1. s5 = <<>> \/ Import!ReadTo(s5) < Len(data)
      BY <1>5 DEF ImportInv
    <2>2. PiecesAre(data, ps) /\ ps # <<>>
      BY <1>1, <1>5, <2>1, OneMorePiece
    <2>3. WithinFile
      BY <1>5 DEF WithinFile
    <2>4. ~Import!AllRead(data, ps) => Import!ReadTo(ps) < Len(data)
      <3>1. Import!ReadTo(ps) \in 0..Len(data) /\ Len(data) \in Nat
        BY <1>1, <1>5, <2>2, PiecesReach
      <3> HIDE DEF ps, data
      <3> QED BY <2>2, <3>1 DEF Import!AllRead
    <2> HIDE DEF ps
    <2> QED BY <1>5, <2>2, <2>3, <2>4, ImportWithinFile
  <1> QED BY <1>0, <1>2, <1>3, <1>4, <1>5, Zenon DEF Import!ReadsPiece

\* A file's object is made of what was read, and a thumbnail may follow.
LEMMA ImportLinks == ImportInv /\ (Import!Linked \/ Import!Thumbnail) => ImportInv'
  <1> SUFFICES ASSUME ImportInv, Import!Linked \/ Import!Thumbnail PROVE ImportInv'
    OBVIOUS
  <1> DEFINE k == Import!FromPieces(Import!File, s5)
             ks == Append(s4, k)
  <1>0. CASE Import!Fails
    BY <1>0, ImportFails
  <1>1. CASE Import!Thumbnail
    <2>1. s1 = "thumbnail" /\ Import!NextFile(s4)
      BY <1>1 DEF Import!Thumbnail
    <2>2. KeptSoFar(s4)
      BY DEF ImportInv, KeptSoFar
    <2> QED BY <2>1, <2>2, ImportGoesOn
  <1>2. s1 = "link" => KeptSoFar(ks)
    <2> SUFFICES ASSUME s1 = "link" PROVE KeptSoFar(ks)
      OBVIOUS
    <2>1. Len(s4) < Len(s2.files) /\ PiecesAre(Import!File.data, s5) /\ Import!AllRead(Import!File.data, s5)
      BY DEF ImportInv
    <2>2. KeptIs(Import!File, k)
      BY <2>1 DEF KeptIs
    <2> HIDE DEF k
    <2> QED BY <2>1, <2>2, OneMoreKept
  <1> HIDE DEF ks
  <1>3. CASE s1 = "link" /\ Import!NextFile(ks)
    BY <1>2, <1>3, ImportGoesOn
  <1>4. CASE s1 = "link" /\ s1' = "thumbnail" /\ s4' = ks /\ s5' = <<>> /\ UNCHANGED <<s2, s3, s6>>
    <2>1. ~Import!Refused(s2') /\ s2' \in ImportsMade
      BY <1>4 DEF ImportInv
    <2>2. IsList(s4') /\ \A i \in 1..Len(s4') : i \in 1..Len(s2'.files) /\ KeptIs(s2'.files[i], s4'[i])
      BY <1>2, <1>4 DEF KeptSoFar
    <2> QED BY <1>4, <2>1, <2>2 DEF ImportInv, KeptIs
  <1> QED BY <1>0, <1>1, <1>3, <1>4 DEF Import!Linked, ks

\* The application gives up.
LEMMA ImportAborts == ImportInv /\ Import!Aborts => ImportInv'
  <1> SUFFICES ASSUME ImportInv, Import!Aborts PROVE ImportInv'
    OBVIOUS
  <1>1. CASE s1' = s1
    BY <1>1, ImportStays DEF Import!Aborts
  <1>2. CASE s1' = "failed"
    BY <1>2 DEF Import!Aborts, ImportInv, Import!File, KeptIs, PiecesAre
  <1> QED BY <1>1, <1>2 DEF Import!Aborts

\* Every step of an import keeps its invariant.
LEMMA ImportNext == ImportInv /\ Import!Next => ImportInv'
  <1>1. ImportInv /\ Import!ReadFails => ImportInv'
    BY ImportFails DEF Import!ReadFails
  <1> QED BY <1>1, ImportCalls, ImportAsks, ImportLooksUp, ImportReads, ImportLinks, ImportAborts DEF Import!Next

\* What the run checks of an import follows from the invariant.
LEMMA ImportStates == ImportInv => Import!SelectionIsWhole
  <1> SUFFICES ASSUME ImportInv, s1 = "done"
               PROVE  /\ Len(s4) = Len(s2.files)
                      /\ \A i \in DOMAIN s4 : /\ Import!Sent(s2.files[i], s4[i])
                                              /\ s4[i].id \in s6.manifest
                                              /\ s4[i].id \in DOMAIN s6.states
                      /\ Import!Closed(s6.manifest) /\ Import!ToSet(s6.items) \subseteq s6.manifest
                      /\ s2.mode = "single_dir" => Import!PlacesAreKept
                      /\ \A l \in s6.links : \E i \in DOMAIN s4 : l = <<s4[i].path, s4[i].id[4]>>
    BY DEF Import!SelectionIsWhole
  <1>1. /\ s2 \in ImportsMade /\ ~Import!Refused(s2) /\ IsList(s4) /\ Len(s4) = Len(s2.files) /\ DOMAIN s4 = 1..Len(s4)
        /\ \A i \in 1..Len(s4) : KeptIs(s2.files[i], s4[i])
        /\ s6 = Import!Registered(s2, s4)
    BY DEF ImportInv, IsList
  <1>2. /\ \A i \in 1..Len(s4) : s4[i].id \in s6.manifest /\ s4[i].id \in DOMAIN s6.states
        /\ Import!Closed(s6.manifest) /\ Import!ToSet(s6.items) \subseteq s6.manifest
        /\ \A l \in s6.links : \E i \in 1..Len(s4) : l = <<s4[i].path, s4[i].id[4]>>
    BY <1>1, SessionIsWhole
  <1>3. \A i \in 1..Len(s4) : Import!Sent(s2.files[i], s4[i])
    <2>1. \A i \in 1..Len(s4) : IsList(s2.files[i].data)
      BY <1>1, SelectionAssumption DEF IsList
    <2> QED BY <1>1, <2>1, KeptSays
  <1>4. s2.mode = "single_dir" => Import!PlacesAreKept
    <2> SUFFICES ASSUME s2.mode = "single_dir" PROVE Import!PlacesAreKept
      OBVIOUS
    <2> DEFINE depth == Import!Depth(s2) + 1
               found == Import!FoundIn(Import!Registered(s2, s4).items[1], depth)
               places == UNION {found[n] : n \in 1..depth}
    <2>1. /\ {p \in places : p[2][1] = "file"} = {<<s2.files[i].path, s4[i].id>> : i \in 1..Len(s4)}
          /\ \A p, q \in places : p[1] = q[1] => p = q
          /\ found[depth] = {}
      <3>1. /\ s2 \in ImportsMade /\ ~Import!Refused(s2) /\ IsList(s4) /\ Len(s4) = Len(s2.files)
            /\ \A i \in 1..Len(s4) : KeptIs(s2.files[i], s4[i])
        BY <1>1
      <3> QED BY <3>1, PlacesKept, Zenon
    <2> DEFINE here == Import!FoundIn(s6.items[1], depth)
    <2>2. here = found
      BY <1>1
    <2>3. {<<s2.files[i].path, s4[i].id>> : i \in DOMAIN s4} = {<<s2.files[i].path, s4[i].id>> : i \in 1..Len(s4)}
      BY <1>1
    <2> HIDE DEF here, found, depth
    <2>4. /\ {p \in UNION {here[n] : n \in 1..depth} : p[2][1] = "file"} = {<<s2.files[i].path, s4[i].id>> : i \in DOMAIN s4}
          /\ \A p, q \in UNION {here[n] : n \in 1..depth} : p[1] = q[1] => p = q
          /\ here[depth] = {}
      BY <2>1, <2>2, <2>3
    <2> QED BY <2>4, Zenon DEF Import!PlacesAreKept, here, depth
  <1> QED BY <1>1, <1>2, <1>3, <1>4
==============================================================================
