----------------------------- MODULE CliSession -----------------------------
(***************************************************************************)
(* How the command-line tool logs in (src/cli/core/auth.ts, identity.ts,   *)
(* development_mode.ts and runtime.ts): with a token it is given, with an  *)
(* identity found on disk, or with a password; and how calls of the same   *)
(* session, which may overlap, renew the token.                            *)
(*                                                                         *)
(* External: verify-hub, which accepts an identity or not and says until   *)
(* when its token is good; the developer mode of the Zone; the files.      *)
(***************************************************************************)
EXTENDS Naturals, FiniteSets, Sequences

CONSTANTS
  Callers,      \* calls of a session that may overlap
  Operations,   \* usable identities in ~/.buckyos, in order: a sequence of DIDs
  Developers,   \* usable identities in ~/.buckycli
  Limit,        \* IDENTITY_CANDIDATE_LIMIT
  Given,        \* how the session is configured, see Init
  Rejections,   \* what a transport makes of a rejection, see IsIdentityRejection
  Lifetime,     \* of a token, in steps
  MaxTime,      \* bound: the clock
  MaxCalls      \* bound: calls

VARIABLES
  given,      \* what the session was given
  rejects,    \* what its transport makes of a rejection
  zone,       \* the Zone: the identities it accepts, and its developer mode
  session,    \* #session
  accepted,   \* #acceptedIdentity, a set of at most one
  attempts,   \* the length of #identityAttempts, of whichever search last began
  caller,     \* what each call does; tried: the DIDs it offered
  calls, now

vars == <<given, rejects, zone, session, accepted, attempts, caller, calls, now>>

-----------------------------------------------------------------------------
(* Identities.                                                             *)

Dids == {Operations[i] : i \in DOMAIN Operations} \cup {Developers[i] : i \in DOMAIN Developers}

Material(did, source) == [did |-> did, source |-> source]

\* identityRootPairs
Root(source) == IF source = "buckyos-home" THEN Operations ELSE Developers

\* Of the places S, those with fewer than n before them; and all in their turn.
Before(S, i) == Cardinality({j \in S : j < i})
FirstOf(S, n) == {i \in S : Before(S, i) < n}
InTurn(S) == [n \in 1..Cardinality(S) |-> CHOOSE i \in S : Before(S, i) = n - 1]
Candidates(S, source) == [n \in 1..Cardinality(S) |-> Material(Root(source)[InTurn(S)[n]], source)]

\* scanIdentityCandidates: where each DID is first, up to the limit.
Scanned(root) == FirstOf({i \in DOMAIN root : \A j \in 1..(i - 1) : root[j] # root[i]}, Limit)
ScanIdentityCandidates(source) == Candidates(Scanned(Root(source)), source)

Remaining == Limit - Cardinality(Scanned(Operations))

\* Developer identities after the others, without the DIDs that were tried.
OperationsDids == {Operations[i] : i \in Scanned(Operations)}
DeveloperCandidates ==
  Candidates(FirstOf({i \in Scanned(Developers) : Developers[i] \notin OperationsDids}, Remaining), "buckycli-home")

\* resolveIdentityMaterial
Resolve(did, source) == {Material(did, source) : i \in {j \in DOMAIN Root(source) : Root(source)[j] = did}}

\* An error is passed over only with a code of this module.
IsIdentityRejection(error) == error = "ToolError AUTHENTICATION_REJECTED"

-----------------------------------------------------------------------------
(* Sessions.                                                               *)

NoSession == [until |-> 0, who |-> "nobody", renewable |-> FALSE]
NoCall == [verb |-> "none", at |-> "idle", with |-> {}, left |-> <<>>, mode |-> "unread", tried |-> {},
           offered |-> 0, search |-> FALSE, again |-> FALSE, check |-> FALSE, live |-> TRUE, got |-> "none"]

Init ==
  /\ given \in Given
  /\ rejects \in Rejections
  /\ zone \in [accepts : SUBSET Dids, mode : {"enabled", "disabled", "unavailable"}]
  /\ session = NoSession /\ accepted = {} /\ attempts = 0
  /\ caller = [c \in Callers |-> NoCall]
  /\ calls = 0 /\ now = 0

Goes(c, r) == caller' = [caller EXCEPT ![c] = r]
Fails(c, code) == Goes(c, [caller[c] EXCEPT !.at = "idle", !.got = code])

\* A call has its session. ensureValid goes on: one that ends soon is refused
\* or made anew; what connect() and a renewal return is not looked at again.
Returns(c, r, s) ==
  Goes(c, IF ~r.check \/ s.until > now + 1
          THEN [r EXCEPT !.at = "idle", !.got = "session", !.live = s.until > now]
          ELSE IF s.renewable THEN [NoCall EXCEPT !.verb = r.verb, !.at = "authenticate"]
          ELSE [r EXCEPT !.at = "idle", !.got = "SESSION_EXPIRED"])

\* authenticatedSession: a token that has expired, or names nobody, is refused.
Takes(c, s) ==
  IF s.until <= now
  THEN Fails(c, "SESSION_EXPIRED") /\ UNCHANGED session
  ELSE session' = s /\ Returns(c, caller[c], s)

\* connect(), as the tool starts; ensureValid(), as every call does; reconnect().
Call(c, verb) ==
  /\ caller[c].at = "idle" /\ calls < MaxCalls
  /\ verb = "connect" => session = NoSession
  /\ calls' = calls + 1
  /\ LET r == [NoCall EXCEPT !.verb = verb, !.check = verb = "call"] IN
     IF session = NoSession \/ verb = "reconnect" THEN Goes(c, [r EXCEPT !.at = "authenticate"])
     ELSE Returns(c, r, session)
  /\ UNCHANGED <<given, rejects, zone, session, accepted, attempts, now>>

Searches == given.token = 0 /\ accepted = {} /\ given.identity = "none"
AsksMode == \E m \in accepted : m.source = "buckycli-home"

\* #authenticate: the token it was given; the identity accepted before; the
\* one that was chosen; or the identities of ~/.buckyos in turn.
Authenticate(c) ==
  LET r == caller[c] IN
  /\ r.at = "authenticate"
  /\ IF given.token > 0
     THEN Takes(c, [until |-> given.token, who |-> "token", renewable |-> FALSE])
     ELSE /\ UNCHANGED session
          /\ IF accepted # {}
             THEN Goes(c, IF AsksMode THEN [r EXCEPT !.at = "acceptedMode", !.again = TRUE]
                          ELSE [r EXCEPT !.at = "login", !.again = TRUE, !.with = accepted])
             ELSE IF given.identity # "none"
             THEN LET found == Resolve(given.identity, "buckyos-home") IN
                  Goes(c, IF found # {} THEN [r EXCEPT !.at = "login", !.with = found]
                          ELSE [r EXCEPT !.at = "chosenMode"])
             ELSE Goes(c, [r EXCEPT !.at = "next", !.search = TRUE,
                                     !.left = IF given.files THEN ScanIdentityCandidates("buckyos-home") ELSE <<>>])
  /\ attempts' = IF Searches THEN 0 ELSE attempts
  /\ UNCHANGED <<given, rejects, zone, accepted, calls, now>>

\* system.dev_mode.get; what is not a valid configuration is "unavailable".
ReadDevelopmentMode(c) ==
  LET r == [caller[c] EXCEPT !.mode = zone.mode]
      refused == IF zone.mode = "disabled" THEN "DEVELOPER_IDENTITY_DISABLED" ELSE "DEVELOPER_MODE_UNAVAILABLE" IN
  /\ r.at \in {"acceptedMode", "chosenMode", "searchMode"}
  /\ Goes(c, IF r.at = "searchMode"
             THEN [r EXCEPT !.at = "next", !.left = IF zone.mode = "enabled" /\ given.files THEN DeveloperCandidates ELSE <<>>]
             ELSE IF zone.mode # "enabled" THEN [r EXCEPT !.at = "idle", !.got = refused]
             ELSE [r EXCEPT !.at = IF r.at = "acceptedMode" THEN "useAccepted" ELSE "useChosen"])
  /\ accepted' = IF r.at # "searchMode" /\ zone.mode # "enabled" THEN {} ELSE accepted
  /\ UNCHANGED <<given, rejects, zone, session, attempts, calls, now>>

\* The identity is looked up after the mode was read: another call may have
\* forgotten it by then.
UseDeveloper(c) ==
  LET r == caller[c]
      found == IF r.at = "useAccepted" THEN accepted ELSE Resolve(given.identity, "buckycli-home") IN
  /\ r.at \in {"useAccepted", "useChosen"}
  /\ IF found = {} THEN Fails(c, IF r.at = "useAccepted" THEN "TypeError" ELSE "IDENTITY_NOT_FOUND")
     ELSE Goes(c, [r EXCEPT !.at = "login", !.with = found])
  /\ UNCHANGED <<given, rejects, zone, session, accepted, attempts, calls, now>>

\* #tryIdentityCandidates: the next one; then the developers'; then, when
\* none was tried, a password.
NextCandidate(c) ==
  LET r == caller[c] IN
  /\ r.at = "next"
  /\ Goes(c, IF r.left # <<>>
             THEN [r EXCEPT !.at = "login", !.with = {Head(r.left)}, !.left = Tail(r.left)]
             ELSE IF r.mode = "unread" THEN [r EXCEPT !.at = "searchMode"]
             ELSE IF attempts > 0 THEN [r EXCEPT !.at = "idle", !.got = "IDENTITY_CANDIDATES_REJECTED"]
             ELSE IF given.terminal THEN [r EXCEPT !.at = "password"]
             ELSE [r EXCEPT !.at = "idle", !.got = "AUTH_REQUIRED"])
  /\ UNCHANGED <<given, rejects, zone, session, accepted, attempts, calls, now>>

TriesNext(r, answered) == answered /\ r.search /\ IsIdentityRejection(rejects)

\* #loginWithIdentity: loginByJwt, under the timeout of the tool. Where the
\* identity accepted before is used again, what is accepted stays as it is.
LoginByJwt(c, answered) ==
  LET r == [caller[c] EXCEPT !.tried = @ \cup {m.did : m \in caller[c].with}, !.offered = @ + 1]
      m == CHOOSE x \in r.with : TRUE
      new == [until |-> now + Lifetime, who |-> m.did, renewable |-> TRUE] IN
  /\ r.at = "login"
  /\ IF answered /\ m.did \in zone.accepts
     THEN /\ session' = new /\ Returns(c, r, new) /\ UNCHANGED attempts
          /\ accepted' = IF r.again THEN accepted ELSE {m}
     ELSE /\ UNCHANGED <<session, accepted>>
          /\ attempts' = IF TriesNext(r, answered) THEN attempts + 1 ELSE attempts
          /\ Goes(c, IF TriesNext(r, answered) THEN [r EXCEPT !.at = "next"]
                     ELSE [r EXCEPT !.at = "idle", !.got = IF answered THEN "rejected" ELSE "TIMEOUT"])
  /\ UNCHANGED <<given, rejects, zone, calls, now>>

LoginByPassword(c, good) ==
  /\ caller[c].at = "password"
  /\ IF good THEN Takes(c, [until |-> now + Lifetime, who |-> "user", renewable |-> TRUE])
     ELSE Fails(c, "rejected") /\ UNCHANGED session
  /\ UNCHANGED <<given, rejects, zone, accepted, attempts, calls, now>>

-----------------------------------------------------------------------------
ZoneChanges ==
  /\ zone' \in [accepts : {zone.accepts, Dids}, mode : {"enabled", "disabled"}] \ {zone}
  /\ UNCHANGED <<given, rejects, session, accepted, attempts, caller, calls, now>>

Tick ==
  /\ now < MaxTime
  /\ now' = now + 1
  /\ UNCHANGED <<given, rejects, zone, session, accepted, attempts, caller, calls>>

Next ==
  \/ \E c \in Callers :
       \/ \E verb \in {"connect", "call", "reconnect"} : Call(c, verb)
       \/ Authenticate(c) \/ ReadDevelopmentMode(c) \/ UseDeveloper(c) \/ NextCandidate(c)
       \/ \E answered \in BOOLEAN : LoginByJwt(c, answered) \/ LoginByPassword(c, answered)
  \/ ZoneChanges \/ Tick

Spec == Init /\ [][Next]_vars

-----------------------------------------------------------------------------
(* Properties.                                                             *)

\* A developer's identity is offered to verify-hub only after this very login
\* read the developer mode of the Zone as enabled, however logins overlap.
DeveloperNeedsMode ==
  \A c \in Callers :
    caller[c].at = "login" /\ (\E m \in caller[c].with : m.source = "buckycli-home")
      => caller[c].mode = "enabled"

\* One login offers no identity twice, and at most Limit of them; a call that
\* is let through carries a token that is still good.
SearchIsBounded ==
  \A c \in Callers :
    /\ caller[c].offered <= Limit
    /\ Cardinality(caller[c].tried) = caller[c].offered
    /\ caller[c].got = "session" => caller[c].live
=============================================================================
