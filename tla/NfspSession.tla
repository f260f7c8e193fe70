---------------------------- MODULE NfspSession ----------------------------
(***************************************************************************)
(* NfspClient (src/src/nfsp.ts): the session of a page with the file       *)
(* service and its numbered writes.                                        *)
(*                                                                         *)
(* A write takes the next number of the session and keeps it over up to    *)
(* two repetitions; only a request that got no answer is repeated, a       *)
(* refusal is not.  A request whose sender gave up may still arrive: the   *)
(* network loses (never serves) and delays requests, and loses answers.  hello() and bye() may   *)
(* overlap each other and the writes.                                      *)
(*                                                                         *)
(* External: the service remembers, per session, the answers to the last   *)
(* Window numbers (the contract in the header of nfsp.ts) and refuses      *)
(* older ones and the numbers of sessions it does not know.                *)
(***************************************************************************)
EXTENDS Naturals, FiniteSets, FiniteSetsExt

CONSTANTS
  Calls,        \* calls made by the page
  Used,         \* the methods they may use
  Window,       \* limits.replay_window of the service
  MaxSessions,  \* bound: sessions the service opens
  MaxHellos     \* bound: hello() calls of the page

VARIABLES
  session,   \* NfspClient.session: 0 for null
  seq,       \* NfspClient.seq
  hellos,    \* sessions answered to hello() calls that have not returned
  asked,     \* hello() calls made, and those that have not been served
  byes,      \* bye() calls in flight, with the session they end
  call,      \* what each call is at
  net,       \* requests under way, of callers that may have given up
  sessions,  \* service: sessions opened so far
  ended,     \* service: sessions ended by bye
  memory,    \* service: number of a session -> the call whose answer is kept
  effects    \* service: how often each call was executed

clientVars == <<session, seq, hellos, asked, byes, call>>
serviceVars == <<sessions, ended, memory, effects>>
vars == <<clientVars, net, serviceVars>>

-----------------------------------------------------------------------------
(* The methods, by the path they take: call() or write().                  *)

StructureWrites == {"mkdir", "move", "delete", "bind_ref", "unlink"}
ContentWrites == {"open_write", "abort_write", "commit_file", "commit_object"}
TreeReads == {"bye", "resolve", "stat", "list", "batch"}
ContentReads == {"probe"}
MetaMethods == {"get_meta", "set_meta", "search"}
CollectionMethods == {"open_view", "create_collection", "open_collection", "collection_patch"}
AccessMethods == {"grant", "revoke", "get_acl", "set_acl", "list_acls"}
PreviewMethods == {"repr", "get_repr"}
\* share.operation may cancel, and is a call without a number all the same.
ShareReads == {"share.capabilities", "share.plan", "share.operation", "share.get",
               "share.list", "share.public.list", "share.stats"}
ShareWrites == {"share.create", "share.update", "share.stop", "share.hide",
                "share.app.handoff", "share.app.report"}

Writes == StructureWrites \cup ContentWrites \cup ShareWrites
            \cup {"set_meta", "create_collection", "collection_patch",
                  "grant", "revoke", "set_acl"}
Methods == Writes \cup TreeReads \cup ContentReads \cup MetaMethods
             \cup CollectionMethods \cup AccessMethods \cup PreviewMethods \cup ShareReads

Retries(m) == IF m \in Writes THEN 2 ELSE 0

-----------------------------------------------------------------------------
NoCall == [at |-> "idle", method |-> "none", session |-> 0, seq |-> 0, attempt |-> 0, of |-> {}]

Init ==
  /\ session = 0 /\ seq = 0 /\ hellos = {} /\ asked = 0 /\ byes = {}
  /\ call = [c \in Calls |-> NoCall]
  /\ net = {}
  /\ sessions = 0 /\ ended = {}
  /\ memory = {} /\ effects = [c \in Calls |-> 0]

(* hello and bye.                                                          *)

SendHello ==
  /\ asked < MaxHellos
  /\ asked' = asked + 1
  /\ UNCHANGED <<session, seq, hellos, byes, call, net, serviceVars>>

\* At most one session per hello; its answer may be lost.
OpenSession ==
  /\ sessions < asked /\ sessions < MaxSessions
  /\ sessions' = sessions + 1
  /\ hellos' \in {hellos, hellos \cup {sessions + 1}}
  /\ UNCHANGED <<session, seq, asked, byes, call, net, ended, memory, effects>>

HelloReturns(s) ==
  /\ s \in hellos
  /\ hellos' = hellos \ {s}
  /\ session' = s
  /\ seq' = 0
  /\ UNCHANGED <<asked, byes, call, net, serviceVars>>

SendBye ==
  /\ session # 0 /\ byes = {}
  /\ byes' = {session}
  /\ UNCHANGED <<session, seq, hellos, asked, call, net, serviceVars>>

\* The service ends the session bye was sent under; the page forgets the one
\* it has by now.
ByeReturns(s) ==
  /\ s \in byes
  /\ byes' = {}
  /\ ended' = ended \cup {s}
  /\ session' = 0
  /\ UNCHANGED <<seq, hellos, asked, call, net, sessions, memory, effects>>

\* No answer, whether the service saw it or not.
ByeFails(s) ==
  /\ s \in byes
  /\ byes' = {}
  /\ ended' \in {ended, ended \cup {s}}
  /\ UNCHANGED <<session, seq, hellos, asked, call, net, sessions, memory, effects>>

-----------------------------------------------------------------------------
(* Calls.                                                                  *)

\* Seeded: every repetition takes a number of its own.
Renumbered(c) == seq + 1

\* The number a repetition carries.
NumberOfRetry(c) == call[c].seq

\* The envelope is made at once; the token is awaited for each attempt.
Begin(c, m) ==
  /\ call[c].at = "idle"
  /\ seq' = IF m \in Writes THEN seq + 1 ELSE seq
  /\ call' = [call EXCEPT ![c] = [at |-> "token", method |-> m, session |-> session,
                                  seq |-> IF m \in Writes THEN seq + 1 ELSE 0,
                                  attempt |-> 0, of |-> {}]]
  /\ UNCHANGED <<session, hellos, asked, byes, net, serviceVars>>

Request(c) == [call |-> c, session |-> call[c].session, seq |-> call[c].seq, attempt |-> call[c].attempt]

Post(c) ==
  /\ call[c].at = "token"
  /\ call' = [call EXCEPT ![c].at = "waiting"]
  /\ net' = net \cup {Request(c)}
  /\ UNCHANGED <<session, seq, hellos, asked, byes, serviceVars>>

\* A repetition, with the same method, session and number, or the end.
AfterThrow(c) ==
  IF call[c].attempt < Retries(call[c].method)
  THEN [call[c] EXCEPT !.at = "token", !.attempt = call[c].attempt + 1, !.seq = NumberOfRetry(c)]
  ELSE [call[c] EXCEPT !.at = "thrown"]

\* The token provider or fetch throws.
Throws(c) ==
  /\ call[c].at \in {"token", "waiting"}
  /\ call' = [call EXCEPT ![c] = AfterThrow(c)]
  /\ seq' = IF AfterThrow(c).seq # call[c].seq THEN seq + 1 ELSE seq
  /\ UNCHANGED <<session, hellos, asked, byes, net, serviceVars>>

\* What the service does with a request: (executed, answer), where the answer
\* is the call it was made for, or {} for a refusal.
Known(r) == \E e \in memory : e.session = r.session /\ e.seq = r.seq
Kept(r) == {e.call : e \in {f \in memory : f.session = r.session /\ f.seq = r.seq}}
Newest(s) == Max({e.seq : e \in {f \in memory : f.session = s}} \cup {0})
Accepts(r) == r.session \in 1..sessions /\ r.session \notin ended

Executed(r) == ~Known(r) /\ Accepts(r) /\ r.seq + Window > Newest(r.session)

AnswerTo(r) ==
  IF ~Accepts(r) THEN {}
  ELSE IF r.seq = 0 \/ Executed(r) THEN {r.call}
  ELSE IF r.seq + Window > Newest(r.session) THEN Kept(r) ELSE {}

\* The service takes a request; the answer comes back, or is lost.
Serve(r, heard) ==
  /\ r \in net
  /\ net' = net \ {r}
  /\ IF r.seq > 0 /\ Executed(r)
     THEN /\ memory' = memory \cup {[session |-> r.session, seq |-> r.seq, call |-> r.call]}
          /\ effects' = [effects EXCEPT ![r.call] = @ + 1]
     ELSE UNCHANGED <<memory, effects>>
  /\ heard => call[r.call].at = "waiting" /\ call[r.call].attempt = r.attempt
  /\ call' = IF ~heard THEN call
             ELSE [call EXCEPT ![r.call].at = IF AnswerTo(r) = {} THEN "refused" ELSE "returned",
                               ![r.call].of = AnswerTo(r)]
  /\ UNCHANGED <<session, seq, hellos, asked, byes, sessions, ended>>

-----------------------------------------------------------------------------
Next ==
  \/ SendHello \/ OpenSession \/ SendBye
  \/ \E s \in 1..MaxSessions : HelloReturns(s) \/ ByeReturns(s) \/ ByeFails(s)
  \/ \E c \in Calls : Post(c) \/ Throws(c) \/ \E m \in Used : Begin(c, m)
  \/ \E r \in net, heard \in BOOLEAN : Serve(r, heard)

Spec == Init /\ [][Next]_vars

-----------------------------------------------------------------------------
(* Properties.                                                             *)

\* Whatever is repeated, lost or late, and however hello and bye overlap the
\* writes: a write is executed at most once, exactly once if it returned, and
\* what it returned is the answer to itself and not to another write that
\* had its number.
ExactlyOnce ==
  \A c \in Calls : call[c].method \in Writes =>
    /\ effects[c] <= 1
    /\ call[c].at = "returned" => effects[c] = 1 /\ call[c].of = {c}

\* No two writes of the page carry the same number in the same session.
NumbersAreUnique ==
  \A c, d \in Calls :
    /\ c # d
    /\ call[c].seq # 0 /\ call[c].session # 0
    /\ call[c].seq = call[d].seq
    => call[c].session # call[d].session
=============================================================================
