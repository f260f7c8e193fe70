---------------------------- MODULE Clients_proofs ----------------------------
(***************************************************************************)
(* The inductive invariants of the components of Clients, for every value  *)
(* of the constants: what each says of the slots that hold its variables.  *)
(* MCClients_proofs concludes the theorems.                                *)
(***************************************************************************)
EXTENDS Clients, SequenceTheorems, FiniteSetTheorems, WellFoundedInduction, TLAPS

-----------------------------------------------------------------------------
(* NfspSession: two writes never share a number of a session because a     *)
(* session is new to the page when it is entered (NewToPage) and the       *)
(* page's counter is ahead of all its calls (Ahead).  So what the service  *)
(* knows under a number of a session is the call itself (MemoryIsOfCalls), *)
(* which it executed once (OncePerMemory).  The session is s1, its counter *)
(* s2, hellos s3, the calls s6, requests under way s7, the sessions of the *)
(* service s8, its memory s10 and the effects of the calls s11.            *)

CallType ==
  [at : {"idle", "token", "waiting", "thrown", "returned", "refused"}, method : Used \cup {"none"},
   session : Nat, seq : Nat, attempt : Nat, of : SUBSET Calls]
RequestType == [call : Calls, session : Nat, seq : Nat, attempt : Nat]
EntryType == [session : Nat, seq : Nat, call : Calls]

NfspTypes ==
  /\ s1 \in Nat /\ s2 \in Nat /\ s8 \in Nat
  /\ s3 \subseteq 1 .. s8 /\ s1 <= s8
  /\ s6 \in [Calls -> CallType]
  /\ s7 \in SUBSET RequestType
  /\ s10 \in SUBSET EntryType
  /\ s11 \in [Calls -> Nat]

\* A session whose hello has not returned was never used, and is not current.
NewToPage ==
  /\ \A s \in s3 : s # s1 /\ \A c \in Calls : s6[c].session # s
  /\ \A c \in Calls : s6[c].session <= s8

\* The counter has reached the numbers of the session's writes.
Ahead == \A c \in Calls : s1 # 0 /\ s6[c].session = s1 => s6[c].seq <= s2

\* A write has a number, another call and one that was not made has none.
WritesAreNumbered ==
  \A c \in Calls : /\ s6[c].method \in Nfsp!Writes => s6[c].seq > 0
                   /\ s6[c].seq > 0 => s6[c].at # "idle"

\* A request carries its call's number and session, whichever attempt it is of.
RequestsOfCalls ==
  \A r \in s7 : /\ r.session = s6[r.call].session /\ r.seq = s6[r.call].seq
                /\ s6[r.call].at # "idle"

MemoryIsOfCalls ==
  \A e \in s10 : /\ e.session = s6[e.call].session /\ e.seq = s6[e.call].seq
                 /\ e.session > 0 /\ e.seq > 0

OncePerMemory ==
  \A c \in Calls : /\ s11[c] <= 1
                   /\ s11[c] = 1 <=> \E e \in s10 : e.call = c

NfspNumbers == NfspTypes /\ NewToPage /\ Ahead /\ Nfsp!NumbersAreUnique
NfspService == WritesAreNumbered /\ RequestsOfCalls /\ MemoryIsOfCalls /\ OncePerMemory
NfspInv == NfspNumbers /\ NfspService /\ Nfsp!ExactlyOnce

\* The initial state satisfies the invariant.
LEMMA NfspInit == Nfsp!Init => NfspInv
  <1> SUFFICES ASSUME Nfsp!Init PROVE NfspInv
    OBVIOUS
  <1> USE DEF Nfsp!Init, Nfsp!NoCall
  <1>1. Nfsp!NoCall \in CallType
    BY DEF CallType
  <1>2. "none" \notin Nfsp!Writes
    BY DEF Nfsp!Writes, Nfsp!StructureWrites, Nfsp!ContentWrites, Nfsp!ShareWrites
  <1>3. NfspNumbers
    BY <1>1 DEF NfspNumbers, NfspTypes, NewToPage, Ahead, Nfsp!NumbersAreUnique
  <1>4. NfspService /\ Nfsp!ExactlyOnce
    BY <1>2 DEF NfspService, WritesAreNumbered, RequestsOfCalls, MemoryIsOfCalls, OncePerMemory, Nfsp!ExactlyOnce
  <1> QED BY <1>3, <1>4 DEF NfspInv

-----------------------------------------------------------------------------
(* NfspSession: the steps.  What a step leaves alone is compared once, by  *)
(* NfspNumbers and by NfspService.                                         *)

numberVars == <<s1, s2, s3, s6, s8>>

\* hello and bye touch no call and nothing the service did.
LEMMA HelloAndBye ==
  ASSUME NfspInv,
         \/ Nfsp!SendHello \/ Nfsp!OpenSession \/ Nfsp!SendBye
         \/ \E s \in 1..MaxSessions : Nfsp!HelloReturns(s) \/ Nfsp!ByeReturns(s) \/ Nfsp!ByeFails(s)
  PROVE  NfspInv'
  <1> USE DEF NfspInv
  <1>1. s6' = s6 /\ s7' = s7 /\ s10' = s10 /\ s11' = s11
    BY DEF Nfsp!SendHello, Nfsp!OpenSession, Nfsp!SendBye, Nfsp!HelloReturns, Nfsp!ByeReturns, Nfsp!ByeFails,
      Nfsp!serviceVars
  <1>2. NfspService' /\ Nfsp!ExactlyOnce'
    BY <1>1 DEF NfspService, WritesAreNumbered, RequestsOfCalls, MemoryIsOfCalls, OncePerMemory, Nfsp!ExactlyOnce
  <1>3. Nfsp!NumbersAreUnique'
    BY <1>1 DEF NfspNumbers, Nfsp!NumbersAreUnique
  <1>4. CASE Nfsp!SendHello \/ Nfsp!SendBye \/ \E s \in 1..MaxSessions : Nfsp!ByeFails(s)
    <2>1. UNCHANGED numberVars
      BY <1>1, <1>4 DEF Nfsp!SendHello, Nfsp!SendBye, Nfsp!ByeFails, Nfsp!serviceVars, numberVars
    <2> QED BY <1>1, <1>2, <1>3, <2>1 DEF NfspNumbers, NfspTypes, NewToPage, Ahead, numberVars
  <1>5. CASE Nfsp!OpenSession
    BY <1>1, <1>2, <1>3, <1>5 DEF NfspNumbers, NfspTypes, NewToPage, Ahead, Nfsp!OpenSession, CallType
  <1>6. ASSUME NEW s \in 1..MaxSessions, Nfsp!HelloReturns(s) PROVE NfspInv'
    BY <1>1, <1>2, <1>3, <1>6 DEF NfspNumbers, NfspTypes, NewToPage, Ahead, Nfsp!HelloReturns, Nfsp!serviceVars
  <1>7. ASSUME NEW s \in 1..MaxSessions, Nfsp!ByeReturns(s) PROVE NfspInv'
    BY <1>1, <1>2, <1>3, <1>7 DEF NfspNumbers, NfspTypes, NewToPage, Ahead, Nfsp!ByeReturns, CallType
  <1> QED BY <1>4, <1>5, <1>6, <1>7

\* A write takes the number after the counter's, under the current session.
LEMMA Beginning ==
  ASSUME NfspInv, NEW c \in Calls, NEW m \in Used, Nfsp!Begin(c, m)
  PROVE  NfspInv'
  <1> DEFINE n == IF m \in Nfsp!Writes THEN s2 + 1 ELSE 0
  <1> DEFINE v == [at |-> "token", method |-> m, session |-> s1, seq |-> n, attempt |-> 0, of |-> {}]
  <1> USE DEF NfspInv
  <1>1. /\ s6[c].at = "idle"
        /\ s2' = IF m \in Nfsp!Writes THEN s2 + 1 ELSE s2
        /\ s6' = [s6 EXCEPT ![c] = v]
        /\ UNCHANGED <<s1, s3, s7, s8, s10, s11>>
    BY DEF Nfsp!Begin, Nfsp!serviceVars
  <1> HIDE DEF n, v
  <1>2. /\ n \in Nat /\ n <= s2' /\ (n > 0 => n > s2 /\ m \in Nfsp!Writes) /\ (m \in Nfsp!Writes => n > 0)
        /\ s2' \in Nat /\ s2 <= s2'
    BY <1>1 DEF n, NfspNumbers, NfspTypes
  <1>3. v \in CallType /\ v.at = "token" /\ v.method = m /\ v.session = s1 /\ v.seq = n
    BY <1>2 DEF v, CallType, NfspNumbers, NfspTypes
  <1>4. /\ s6'[c] = v
        /\ \A d \in Calls \ {c} : s6'[d] = s6[d]
        /\ s6' \in [Calls -> CallType]
    BY <1>1, <1>3 DEF NfspNumbers, NfspTypes
  <1>5. NfspTypes' /\ NewToPage' /\ Ahead'
    <2>1. NfspTypes'
      BY <1>1, <1>2, <1>4 DEF NfspNumbers, NfspTypes
    <2>2. NewToPage'
      BY <1>1, <1>3, <1>4 DEF NfspNumbers, NewToPage, NfspTypes
    <2>3. Ahead'
      BY <1>1, <1>2, <1>3, <1>4 DEF NfspNumbers, Ahead, NfspTypes, CallType
    <2> QED BY <2>1, <2>2, <2>3
  <1>6. Nfsp!NumbersAreUnique'
    <2>1. \A d \in Calls \ {c} : n > 0 /\ s1 # 0 /\ s6[d].session = s1 => s6[d].seq # n
      BY <1>2 DEF NfspNumbers, Ahead, NfspTypes, CallType
    <2> QED BY <1>1, <1>2, <1>3, <1>4, <2>1 DEF NfspNumbers, Nfsp!NumbersAreUnique
  <1>7. \A r \in s7 : r.call # c
    BY <1>1 DEF NfspService, RequestsOfCalls
  <1>8. s6[c].seq = 0
    BY <1>1 DEF NfspService, WritesAreNumbered, NfspNumbers, NfspTypes, CallType
  <1>9. \A e \in s10 : e.call # c
    BY <1>8 DEF NfspService, MemoryIsOfCalls, NfspNumbers, NfspTypes, EntryType
  <1>10. WritesAreNumbered'
    BY <1>2, <1>3, <1>4 DEF NfspService, WritesAreNumbered
  <1>11. RequestsOfCalls'
    BY <1>1, <1>4, <1>7 DEF NfspService, RequestsOfCalls, NfspNumbers, NfspTypes, RequestType
  <1>12. MemoryIsOfCalls'
    BY <1>1, <1>4, <1>9 DEF NfspService, MemoryIsOfCalls, NfspNumbers, NfspTypes, EntryType
  <1>13. OncePerMemory' /\ Nfsp!ExactlyOnce'
    BY <1>1, <1>3, <1>4 DEF NfspService, OncePerMemory, Nfsp!ExactlyOnce
  <1> QED BY <1>5, <1>6, <1>10, <1>11, <1>12, <1>13 DEF NfspNumbers, NfspService

\* A step that moves a call on without an answer: neither its method nor its
\* session nor its number changes.
LEMMA Moving ==
  ASSUME NfspInv, NEW c \in Calls, NEW v \in CallType, s6' = [s6 EXCEPT ![c] = v],
         v.method = s6[c].method, v.session = s6[c].session, v.seq = s6[c].seq,
         v.at \notin {"idle", "returned"}, s2' = s2,
         UNCHANGED <<s1, s3, s8, s10, s11>>,
         s7' \in SUBSET RequestType,
         \A r \in s7' : r \in s7 \/ (r.call = c /\ r.session = s6[c].session /\ r.seq = s6[c].seq)
  PROVE  NfspInv'
  <1> USE DEF NfspInv
  <1>1. /\ \A d \in Calls : /\ s6'[d].method = s6[d].method /\ s6'[d].session = s6[d].session
                            /\ s6'[d].seq = s6[d].seq
                            /\ s6[d].at # "idle" => s6'[d].at # "idle"
        /\ s6'[c] = v
        /\ \A d \in Calls \ {c} : s6'[d] = s6[d]
        /\ s6' \in [Calls -> CallType]
    BY DEF NfspNumbers, NfspTypes
  <1>2. NfspNumbers'
    <2>1. NfspTypes'
      BY <1>1 DEF NfspNumbers, NfspTypes
    <2>2. NewToPage' /\ Ahead' /\ Nfsp!NumbersAreUnique'
      BY <1>1 DEF NfspNumbers, NewToPage, Ahead, Nfsp!NumbersAreUnique
    <2> QED BY <2>1, <2>2 DEF NfspNumbers
  <1>3. WritesAreNumbered'
    BY <1>1 DEF NfspService, WritesAreNumbered
  <1>4. RequestsOfCalls'
    BY <1>1 DEF NfspService, RequestsOfCalls, NfspNumbers, NfspTypes, RequestType
  <1>5. MemoryIsOfCalls'
    BY <1>1 DEF NfspService, MemoryIsOfCalls, NfspNumbers, NfspTypes, EntryType
  <1>6. OncePerMemory' /\ Nfsp!ExactlyOnce'
    BY <1>1 DEF NfspService, OncePerMemory, Nfsp!ExactlyOnce
  <1> QED BY <1>2, <1>3, <1>4, <1>5, <1>6 DEF NfspService

\* Sending adds a request of its call, numbered as the call is.
LEMMA Posting ==
  ASSUME NfspInv, NEW c \in Calls, Nfsp!Post(c)
  PROVE  NfspInv'
  <1> DEFINE v == [s6[c] EXCEPT !.at = "waiting"]
  <1>1. s6[c] \in CallType
    BY DEF NfspInv, NfspNumbers, NfspTypes
  <1>2. /\ v \in CallType /\ v.at = "waiting" /\ v.method = s6[c].method
        /\ v.session = s6[c].session /\ v.seq = s6[c].seq
    BY <1>1 DEF CallType
  <1>3. Nfsp!Request(c) \in RequestType
    BY <1>1 DEF Nfsp!Request, RequestType, CallType
  <1>4. /\ s6' = [s6 EXCEPT ![c] = v]
        /\ s7' = s7 \cup {Nfsp!Request(c)}
        /\ s2' = s2
        /\ UNCHANGED <<s1, s3, s8, s10, s11>>
    BY DEF Nfsp!Post, Nfsp!serviceVars
  <1>5. s7' \in SUBSET RequestType
    BY <1>3, <1>4 DEF NfspInv, NfspNumbers, NfspTypes
  <1>6. \A r \in s7' : r \in s7 \/ (r.call = c /\ r.session = s6[c].session /\ r.seq = s6[c].seq)
    BY <1>4 DEF Nfsp!Request
  <1> HIDE DEF v
  <1> QED BY <1>2, <1>4, <1>5, <1>6, Moving

\* A call that got no answer is repeated under its number, or its caller is
\* told of the failure.
LEMMA Throwing ==
  ASSUME NfspInv, NEW c \in Calls, Nfsp!Throws(c)
  PROVE  NfspInv'
  <1> DEFINE v == Nfsp!AfterThrow(c)
  <1> DEFINE again == [at |-> "token", method |-> s6[c].method, session |-> s6[c].session,
                       seq |-> s6[c].seq, attempt |-> s6[c].attempt + 1, of |-> s6[c].of]
  <1>1. s6[c] \in CallType
    BY DEF NfspInv, NfspNumbers, NfspTypes
  <1>2. /\ v \in CallType /\ v.at \notin {"idle", "returned"} /\ v.method = s6[c].method
        /\ v.session = s6[c].session /\ v.seq = s6[c].seq
    <2>1. CASE s6[c].attempt < Nfsp!Retries(s6[c].method)
      <3>1. v = again
        BY <1>1, <2>1 DEF Nfsp!AfterThrow, Nfsp!NumberOfRetry, CallType
      <3>2. again \in CallType
        BY <1>1 DEF CallType
      <3> HIDE DEF v
      <3> QED BY <3>1, <3>2
    <2>2. CASE ~(s6[c].attempt < Nfsp!Retries(s6[c].method))
      BY <1>1, <2>2 DEF Nfsp!AfterThrow, CallType
    <2> QED BY <2>1, <2>2
  <1>3. /\ s6' = [s6 EXCEPT ![c] = v]
        /\ s2' = s2
        /\ UNCHANGED <<s1, s3, s7, s8, s10, s11>>
    BY <1>2 DEF Nfsp!Throws, Nfsp!serviceVars
  <1>4. s7' \in SUBSET RequestType /\ \A r \in s7' : r \in s7
    BY <1>3 DEF NfspInv, NfspNumbers, NfspTypes
  <1> HIDE DEF v
  <1> QED BY <1>2, <1>3, <1>4, Moving

\* What the service knows under the number of a request is its call: it
\* executes a write that it has not executed, and answers it as itself.
LEMMA Knowing ==
  ASSUME NfspInv, NEW r \in s7
  PROVE  /\ r \in RequestType
         /\ \A e \in s10 : e.call = r.call => e.session = r.session /\ e.seq = r.seq
         /\ Nfsp!Executed(r) => s11[r.call] = 0
         /\ Nfsp!Executed(r) => r.session > 0
         /\ r.seq > 0 /\ Nfsp!AnswerTo(r) # {} => Nfsp!AnswerTo(r) = {r.call}
         /\ r.seq > 0 /\ Nfsp!AnswerTo(r) # {} => Nfsp!Executed(r) \/ \E e \in s10 : e.call = r.call
  <1> USE DEF NfspInv
  <1>1. /\ r \in RequestType /\ r.call \in Calls
        /\ r.session = s6[r.call].session /\ r.seq = s6[r.call].seq
    BY DEF NfspNumbers, NfspTypes, NfspService, RequestsOfCalls, RequestType
  <1>2. \A e \in s10 : e.call = r.call => e.session = r.session /\ e.seq = r.seq
    BY <1>1 DEF NfspService, MemoryIsOfCalls
  <1>3. Nfsp!Executed(r) => s11[r.call] = 0
    <2>1. Nfsp!Executed(r) => \A e \in s10 : e.call # r.call
      BY <1>2 DEF Nfsp!Executed, Nfsp!Known
    <2> QED BY <1>1, <2>1 DEF NfspService, OncePerMemory, NfspNumbers, NfspTypes
  <1>4. Nfsp!Accepts(r) => r.session > 0
    BY <1>1 DEF Nfsp!Accepts, NfspNumbers, NfspTypes
  <1>5. ASSUME NEW e \in s10, e.session = r.session, e.seq = r.seq, r.seq > 0, r.session > 0
        PROVE  e.call = r.call
    <2>1. e.call \in Calls /\ s6[e.call].session = r.session /\ s6[e.call].seq = r.seq
      BY <1>5 DEF NfspService, MemoryIsOfCalls, NfspNumbers, NfspTypes, EntryType
    <2>2. r.seq # 0 /\ r.session # 0
      BY <1>5
    <2> QED BY <1>1, <2>1, <2>2 DEF NfspNumbers, Nfsp!NumbersAreUnique
  <1>6. ASSUME r.seq > 0, Nfsp!AnswerTo(r) # {}
        PROVE  /\ Nfsp!AnswerTo(r) = {r.call}
               /\ Nfsp!Executed(r) \/ \E e \in s10 : e.call = r.call
    <2>1. Nfsp!Accepts(r) /\ r.seq # 0
      BY <1>6 DEF Nfsp!AnswerTo
    <2>2. CASE Nfsp!Executed(r)
      BY <2>1, <2>2 DEF Nfsp!AnswerTo
    <2>3. CASE ~Nfsp!Executed(r)
      <3>1. Nfsp!AnswerTo(r) = Nfsp!Kept(r) /\ Nfsp!Known(r)
        BY <1>6, <2>1, <2>3 DEF Nfsp!AnswerTo, Nfsp!Executed
      <3>2. PICK e \in s10 : e.session = r.session /\ e.seq = r.seq
        BY <3>1 DEF Nfsp!Known
      <3>3. \A f \in s10 : f.session = r.session /\ f.seq = r.seq => f.call = r.call
        BY <1>4, <1>5, <1>6, <2>1
      <3>4. Nfsp!Kept(r) = {r.call}
        BY <3>2, <3>3 DEF Nfsp!Kept
      <3> QED BY <3>1, <3>2, <3>3, <3>4
    <2> QED BY <2>2, <2>3
  <1> QED BY <1>1, <1>2, <1>3, <1>4, <1>6 DEF Nfsp!Executed

\* The service executes a request or answers it from memory: effects stay
\* with the calls they are of.
LEMMA Serving ==
  ASSUME NfspInv, NEW r \in s7, NEW heard \in BOOLEAN, Nfsp!Serve(r, heard)
  PROVE  NfspInv'
  <1> USE DEF NfspInv
  <1> DEFINE c == r.call
  <1> DEFINE entry == [session |-> r.session, seq |-> r.seq, call |-> c]
  <1>1. /\ c \in Calls /\ r \in RequestType
        /\ r.session = s6[c].session /\ r.seq = s6[c].seq
        /\ s6[c] \in CallType
    BY Knowing DEF RequestType, NfspNumbers, NfspTypes, NfspService, RequestsOfCalls
  <1>2. /\ s6' = IF ~heard THEN s6
                 ELSE [s6 EXCEPT ![c].at = IF Nfsp!AnswerTo(r) = {} THEN "refused" ELSE "returned",
                                 ![c].of = Nfsp!AnswerTo(r)]
        /\ s7' = s7 \ {r}
        /\ UNCHANGED <<s1, s2, s3, s8>>
    BY DEF Nfsp!Serve
  <1>3. Nfsp!AnswerTo(r) \in SUBSET Calls
    BY <1>1 DEF Nfsp!AnswerTo, Nfsp!Kept, NfspNumbers, NfspTypes, EntryType
  <1>4. /\ \A d \in Calls : /\ s6'[d].method = s6[d].method /\ s6'[d].session = s6[d].session
                            /\ s6'[d].seq = s6[d].seq
                            /\ s6[d].at # "idle" => s6'[d].at # "idle"
        /\ \A d \in Calls \ {c} : s6'[d] = s6[d]
        /\ s6' \in [Calls -> CallType]
    BY <1>1, <1>2, <1>3 DEF NfspNumbers, NfspTypes, CallType
  <1>5. NfspNumbers'
    <2>1. NewToPage' /\ Ahead' /\ Nfsp!NumbersAreUnique'
      BY <1>2, <1>4 DEF NfspNumbers, NewToPage, Ahead, Nfsp!NumbersAreUnique
    <2>2. s10' \in SUBSET EntryType /\ s11' \in [Calls -> Nat]
      BY <1>1 DEF Nfsp!Serve, NfspNumbers, NfspTypes, EntryType, RequestType
    <2> QED BY <1>2, <1>4, <2>1, <2>2 DEF NfspNumbers, NfspTypes
  <1>6. WritesAreNumbered' /\ RequestsOfCalls'
    BY <1>2, <1>4 DEF NfspService, WritesAreNumbered, RequestsOfCalls, NfspNumbers, NfspTypes, RequestType
  <1>7. MemoryIsOfCalls' /\ OncePerMemory'
    <2>1. CASE r.seq > 0 /\ Nfsp!Executed(r)
      <3>1. s10' = s10 \cup {entry} /\ s11' = [s11 EXCEPT ![c] = @ + 1]
        BY <2>1 DEF Nfsp!Serve
      <3>2. s11[c] = 0 /\ r.session > 0
        BY <2>1, Knowing
      <3>3. s11'[c] = 1 /\ \A d \in Calls \ {c} : s11'[d] = s11[d]
        BY <1>1, <3>1, <3>2 DEF NfspNumbers, NfspTypes
      <3>4. MemoryIsOfCalls'
        BY <1>1, <1>4, <2>1, <3>1, <3>2 DEF NfspService, MemoryIsOfCalls, NfspNumbers, NfspTypes, EntryType
      <3>5. OncePerMemory'
        <4>1. entry \in s10' /\ entry.call = c
          BY <3>1
        <4>2. \A d \in Calls \ {c} : (\E e \in s10' : e.call = d) <=> (\E e \in s10 : e.call = d)
          BY <3>1
        <4>3. \A d \in Calls \ {c} : s11'[d] <= 1 /\ (s11'[d] = 1 <=> \E e \in s10' : e.call = d)
          BY <3>3, <4>2 DEF NfspService, OncePerMemory
        <4> QED BY <3>3, <4>1, <4>3 DEF OncePerMemory
      <3> QED BY <3>4, <3>5
    <2>2. CASE ~(r.seq > 0 /\ Nfsp!Executed(r))
      <3>1. s10' = s10 /\ s11' = s11
        BY <2>2 DEF Nfsp!Serve
      <3> QED BY <1>4, <3>1 DEF NfspService, MemoryIsOfCalls, OncePerMemory, NfspNumbers, NfspTypes, EntryType
    <2> QED BY <2>1, <2>2
  <1>8. Nfsp!ExactlyOnce'
    <2>1. s10 \subseteq s10'
      BY DEF Nfsp!Serve
    <2>2. \A d \in Calls : s11[d] = 1 => s11'[d] = 1
      BY <1>7, <2>1 DEF NfspService, OncePerMemory
    <2>3. ASSUME NEW d \in Calls, s6'[d].method \in Nfsp!Writes, s6'[d].at = "returned"
          PROVE  s11'[d] = 1 /\ s6'[d].of = {d}
      <3>1. CASE d # c \/ ~heard
        BY <1>2, <1>4, <2>2, <2>3, <3>1 DEF Nfsp!ExactlyOnce
      <3>2. CASE d = c /\ heard
        <4>1. r.seq > 0
          BY <1>1, <1>4, <2>3, <3>2 DEF NfspService, WritesAreNumbered
        <4>2. Nfsp!AnswerTo(r) # {} /\ s6'[d].of = Nfsp!AnswerTo(r)
          BY <1>1, <1>2, <2>3, <3>2 DEF NfspNumbers, NfspTypes, CallType
        <4>3. Nfsp!Executed(r) => entry \in s10'
          BY <4>1 DEF Nfsp!Serve
        <4>4. \E e \in s10' : e.call = c
          BY <2>1, <4>1, <4>2, <4>3, Knowing
        <4>5. s11'[c] = 1
          BY <1>1, <1>7, <4>4 DEF OncePerMemory
        <4> QED BY <3>2, <4>1, <4>2, <4>5, Knowing
      <3> QED BY <3>1, <3>2
    <2> QED BY <1>7, <2>3 DEF Nfsp!ExactlyOnce, OncePerMemory
  <1> QED BY <1>5, <1>6, <1>7, <1>8 DEF NfspService

\* Every step preserves the invariant.
LEMMA NfspKeeps == NfspInv /\ [Nfsp!Next]_(Nfsp!vars) => NfspInv'
  <1> SUFFICES ASSUME NfspInv, [Nfsp!Next]_(Nfsp!vars) PROVE NfspInv'
    OBVIOUS
  <1>1. ASSUME NEW r \in s7, NEW heard \in BOOLEAN, Nfsp!Serve(r, heard) PROVE NfspInv'
    BY <1>1, Serving
  <1>2. ASSUME NEW c \in Calls, Nfsp!Post(c) \/ Nfsp!Throws(c) \/ \E m \in Used : Nfsp!Begin(c, m) PROVE NfspInv'
    BY <1>2, Posting, Throwing, Beginning
  <1>3. CASE UNCHANGED Nfsp!vars
    BY <1>3 DEF Nfsp!vars, Nfsp!clientVars, Nfsp!serviceVars, NfspInv, NfspNumbers, NfspTypes, NewToPage, Ahead,
                Nfsp!NumbersAreUnique, NfspService, WritesAreNumbered, RequestsOfCalls, MemoryIsOfCalls, OncePerMemory, Nfsp!ExactlyOnce
  <1> QED BY <1>1, <1>2, <1>3, HelloAndBye DEF Nfsp!Next

\* The same, of the actions alone, and what the run checks of the session.
LEMMA NfspNext == NfspInv /\ Nfsp!Next => NfspInv'
  BY NfspKeeps
LEMMA NfspStates == NfspInv => Nfsp!ExactlyOnce /\ Nfsp!NumbersAreUnique
  BY DEF NfspInv, NfspNumbers

\* The invariant of the session, its calls and the service.
THEOREM NfspInvariant == Nfsp!Spec => []NfspInv
  BY NfspInit, NfspKeeps, PTL DEF Nfsp!Spec

\* No two writes carry the same number in the same session, however hello and
\* bye overlap them (nfsp.ts:664 and 1289).
THEOREM NoNumberTwice == Nfsp!Spec => []Nfsp!NumbersAreUnique
  <1>1. NfspInv => Nfsp!NumbersAreUnique
    BY DEF NfspInv, NfspNumbers
  <1> QED BY NfspInvariant, <1>1, PTL

\* A write is executed once at most, and exactly once when it returned, with
\* its own answer, whatever window the service keeps.
THEOREM WritesExactlyOnce == Nfsp!Spec => []Nfsp!ExactlyOnce
  <1>1. NfspInv => Nfsp!ExactlyOnce
    BY DEF NfspInv
  <1> QED BY NfspInvariant, <1>1, PTL

-----------------------------------------------------------------------------
(* NfspUpload.                                                             *)

\* The page's offset is never ahead of what the service has, and a chunk ends
\* where the content does.
Patches == [from : Nat, to : 0 .. Content, try : Nat]
UploadShape ==
  s1 = [at |-> s1.at, offset |-> s1.offset, stored |-> s1.stored, patches |-> s1.patches, tries |-> s1.tries,
        committed |-> s1.committed]
UploadFields ==
  /\ s1.offset \in Nat /\ s1.stored \in 0 .. Content /\ s1.tries \in Nat /\ s1.patches \subseteq Patches
  /\ s1.offset <= s1.stored
  /\ s1.at = "committed" => s1.committed = Content
UploadInv == UploadShape /\ UploadFields

\* An upload starts in its invariant.
LEMMA UploadInit == Upload!Init => UploadInv
  BY UploadAssumption DEF Upload!Init, UploadInv, UploadShape, UploadFields

\* Every step of an upload keeps its invariant.
LEMMA UploadNext == UploadInv /\ Upload!Next => UploadInv'
  <1> SUFFICES ASSUME UploadInv, Upload!Next PROVE UploadShape' /\ UploadFields'
    BY DEF UploadInv
  <1> USE UploadAssumption DEF UploadInv
  <1>1. CASE Upload!StartUpload
    <2>1. UploadShape'
      BY <1>1 DEF UploadShape, Upload!StartUpload
    <2>2. UploadFields'
      BY <1>1 DEF UploadShape, UploadFields, Upload!StartUpload
    <2> QED BY <2>1, <2>2
  <1>2. CASE Upload!HeadReturns
    <2>1. UploadShape'
      BY <1>2 DEF UploadShape, Upload!HeadReturns
    <2>2. UploadFields'
      BY <1>2 DEF UploadShape, UploadFields, Upload!HeadReturns
    <2> QED BY <2>1, <2>2
  <1>3. CASE Upload!SendChunk
    <2> DEFINE sent == [from |-> s1.offset, to |-> Upload!Least(s1.offset + ChunkSize, Content), try |-> s1.tries]
    <2>1. s1' = [s1 EXCEPT !.at = "patch", !.patches = @ \cup {sent}]
      BY <1>3 DEF Upload!SendChunk
    <2>2. sent \in Patches
      BY DEF UploadFields, Upload!Least, Patches
    <2> HIDE DEF sent
    <2>3. UploadShape'
      BY <2>1 DEF UploadShape
    <2>4. UploadFields'
      BY <2>1, <2>2 DEF UploadShape, UploadFields
    <2> QED BY <2>3, <2>4
  <1>4. CASE Upload!UploadThrows
    <2>1. UploadShape'
      BY <1>4 DEF UploadShape, Upload!UploadThrows
    <2>2. UploadFields'
      BY <1>4 DEF UploadShape, UploadFields, Upload!UploadThrows
    <2> QED BY <2>1, <2>2
  <1>5. CASE Upload!Commit
    <2>1. UploadShape'
      BY <1>5 DEF UploadShape, Upload!Commit
    <2>2. UploadFields'
      BY <1>5 DEF UploadShape, UploadFields, Upload!Commit, Upload!AllSent
    <2> QED BY <2>1, <2>2
  <1>6. ASSUME NEW p \in s1.patches, Upload!RefuseChunk(p) PROVE UploadShape' /\ UploadFields'
    <2>1. UploadShape'
      BY <1>6 DEF UploadShape, Upload!RefuseChunk
    <2>2. UploadFields'
      BY <1>6 DEF UploadShape, UploadFields, Upload!RefuseChunk
    <2> QED BY <2>1, <2>2
  <1>7. ASSUME NEW p \in s1.patches, NEW end \in 1 .. Content, NEW heard \in BOOLEAN,
               Upload!TakeChunk(p, end, heard)
        PROVE  UploadShape' /\ UploadFields'
    <2>1. end > s1.stored /\ (heard => s1.at = "patch")
      <3>1. p.from = s1.stored /\ end \in p.from + 1 .. p.to /\ (heard => s1.at = "patch")
        BY <1>7 DEF Upload!TakeChunk, Upload!Current
      <3>2. p.from \in Nat /\ p.to \in Nat
        BY DEF UploadFields, Patches
      <3> QED BY <3>1, <3>2
    <2>2. UploadShape'
      BY <1>7 DEF UploadShape, Upload!TakeChunk
    <2>3. UploadFields'
      BY <1>7, <2>1 DEF UploadShape, UploadFields, Upload!TakeChunk
    <2> QED BY <2>2, <2>3
  <1> QED BY <1>1, <1>2, <1>3, <1>4, <1>5, <1>6, <1>7 DEF Upload!Next

-----------------------------------------------------------------------------
(* TaskRunner.                                                             *)

\* A task as it is, or was read, and what may become of it: its revision
\* grows, and an end is the end.
TaskShape(t) ==
  t = [phase |-> t.phase, outcome |-> t.outcome, by |-> t.by, control |-> t.control, instance |-> t.instance,
       epoch |-> t.epoch, revision |-> t.revision]
ATask(t) == TaskShape(t) /\ t.revision \in Nat
Later(t, u) ==
  /\ t.revision <= u.revision
  /\ t.phase = "Terminal" => u.phase = "Terminal" /\ u.outcome = t.outcome /\ u.by = t.by

\* What a runner knows of the task t at each point of a verb.
Knows(t, c) ==
  /\ c.first \in Nat /\ c.read.revision \in Nat
  /\ c.first <= t.revision /\ c.read.revision <= t.revision
  /\ c.at \in {"report", "waiting"} => c.read.revision >= c.first
  /\ c.at = "again" => c.read.revision > c.first
  /\ c.at = "readAgain" => t.revision > c.first
  /\ c.at = "waiting" => c.verb = "wait"
  /\ c.at = "findOut" => c.verb \in {"start", "wait"}
  /\ c.at \in {"again", "readAgain"} => c.verb \in {"progress", "complete"}
Hears(t, c) ==
  c.at = "idle" =>
    /\ c.verb \in {"complete", "fail"} /\ c.got = "task"
         => c.read.phase = "Terminal" /\ t.phase = "Terminal" /\ c.read.outcome = t.outcome /\ c.read.by = t.by
    /\ c.got = "revision_conflict"
         => t.revision >= c.first + (IF c.verb \in {"complete", "progress"} THEN 2 ELSE 1)
    /\ c.verb = "start" => c.got # "revision_conflict"
RunShape(c) ==
  c = [verb |-> c.verb, at |-> c.at, read |-> c.read, first |-> c.first, calls |-> c.calls, got |-> c.got]
Runs(t, c) == RunShape(c) /\ Knows(t, c) /\ Hears(t, c)

RunnerInv ==
  /\ ATask(s1)
  /\ s2 = [r \in Runners |-> s2[r]]
  /\ \A r \in Runners : Runs(s1, s2[r])

\* A task and its runners start in their invariant.
LEMMA RunnerInit == Runner!Init => RunnerInv
  BY DEF Runner!Init, Runner!NoTask, Runner!NoRun, RunnerInv, ATask, TaskShape, Runs, RunShape, Knows, Hears

\* What a runner knows of a task stays true of every later state of the task.
LEMMA RunsOn ==
  ASSUME NEW t, NEW u, NEW c, ATask(t), ATask(u), Later(t, u), Runs(t, c)
  PROVE  Runs(u, c)
  BY DEF Runs, Knows, Hears, ATask, Later

\* A message that is a code says that code.
LEMMA CodeIsSaid ==
  ASSUME NEW code \in {"task_already_completed", "revision_conflict", "stale_runner_epoch", "invalid_task_phase", "none"}
  PROVE  Runner!TaskMgrErrorCode(Runner!Says(code)) = code
  <1> DEFINE message == Runner!Says(code)
  <1> DEFINE HasRead(x) == {i \in DOMAIN message : message[i].text = x}
  <1> DEFINE First(s) == CHOOSE i \in s : \A j \in s : i <= j
  <1> DEFINE named == {c \in DOMAIN Runner!Codes : HasRead(Runner!Codes[c]) # {} /\ message[First(HasRead(Runner!Codes[c]))].word}
  <1>0. Runner!TaskMgrErrorCode(message) = IF named = {} THEN "none" ELSE Runner!Codes[First(named)]
    BY Zenon DEF Runner!TaskMgrErrorCode
  <1> SUFFICES Runner!TaskMgrErrorCode(message) = code
    OBVIOUS
  <1>1. DOMAIN message = {1} /\ message[1].text = code /\ message[1].word = TRUE
    BY DEF Runner!Says
  <1> HIDE DEF message
  <1>2. \A x : HasRead(x) = IF x = code THEN {1} ELSE {}
    BY <1>1
  <1>3. \A n \in Nat : First({n}) = n
    OBVIOUS
  <1>4. \A x : (HasRead(x) # {} /\ message[First(HasRead(x))].word) <=> x = code
    BY <1>1, <1>2, <1>3
  <1> HIDE DEF HasRead
  <1>5. named = {c \in DOMAIN Runner!Codes : Runner!Codes[c] = code}
    BY <1>4
  <1> HIDE DEF First
  <1>6. DOMAIN Runner!Codes = 1 .. 12
    BY DEF Runner!Codes
  <1>7. CASE code = "none"
    <2>1. \A c \in 1 .. 12 : Runner!Codes[c] # "none"
      BY DEF Runner!Codes
    <2> HIDE DEF named
    <2>2. named = {}
      BY <1>5, <1>6, <1>7, <2>1
    <2> QED BY <1>0, <1>7, <2>2
  <1>8. ASSUME NEW n \in 1 .. 12, Runner!Codes[n] = code, \A c \in 1 .. 12 : Runner!Codes[c] = code => c = n
        PROVE  Runner!TaskMgrErrorCode(message) = code
    <2> HIDE DEF named
    <2>1. named = {n}
      BY <1>5, <1>6, <1>8
    <2> QED BY <1>0, <1>3, <1>8, <2>1
  <1>9. CASE code = "revision_conflict"
    BY <1>8, <1>9 DEF Runner!Codes
  <1>10. CASE code = "stale_runner_epoch"
    BY <1>8, <1>10 DEF Runner!Codes
  <1>11. CASE code = "invalid_task_phase"
    BY <1>8, <1>11 DEF Runner!Codes
  <1>12. CASE code = "task_already_completed"
    BY <1>8, <1>12 DEF Runner!Codes
  <1> QED BY <1>7, <1>9, <1>10, <1>11, <1>12

\* What is refused, and what a write makes of a task.
LEMMA RefusedIsSaid ==
  ASSUME NEW method, NEW e
  PROVE  LET code == Runner!TaskMgrErrorCode(Runner!Says(Runner!RefusedWith(method, e))) IN
         /\ code = Runner!RefusedWith(method, e)
         /\ code = "none" => Runner!Allowed(method, s1)
         /\ code = "revision_conflict" => e.revision # s1.revision
  <1>1. Runner!RefusedWith(method, e) \in
          {"task_already_completed", "revision_conflict", "stale_runner_epoch", "invalid_task_phase", "none"}
    BY DEF Runner!RefusedWith
  <1>2. Runner!RefusedWith(method, e) = "none" => Runner!Allowed(method, s1)
    BY DEF Runner!RefusedWith
  <1>3. Runner!RefusedWith(method, e) = "revision_conflict" => e.revision # s1.revision
    BY DEF Runner!RefusedWith
  <1> QED BY <1>1, <1>2, <1>3, CodeIsSaid

RunnerMethods ==
  {"report_started", "report_running", "report_progress", "report_waiting", "commit_result", "fail_task", "ack_control"}
\* A call of a runner that the task manager allows takes the task one revision further, and a
\* commit ends it.
LEMMA AppliedIsLater ==
  ASSUME NEW t, NEW by, NEW method \in RunnerMethods, ATask(t), Runner!Allowed(method, t)
  PROVE  LET u == Runner!Applied(method, t, by) IN
         /\ ATask(u) /\ Later(t, u) /\ u.revision = t.revision + 1
         /\ method \in {"commit_result", "fail_task"} => u.phase = "Terminal"
  <1> DEFINE rev == [t EXCEPT !.revision = t.revision + 1]
  <1>1. /\ rev.phase = t.phase /\ rev.outcome = t.outcome /\ rev.by = t.by /\ rev.revision = t.revision + 1
        /\ rev.revision \in Nat /\ t.revision \in Nat
    BY DEF ATask, TaskShape
  <1>2. rev = [phase |-> rev.phase, outcome |-> rev.outcome, by |-> rev.by, control |-> rev.control,
               instance |-> rev.instance, epoch |-> rev.epoch, revision |-> rev.revision]
    BY DEF ATask, TaskShape
  <1>3. t.phase # "Terminal" \/ method = "report_progress"
    BY DEF Runner!Allowed, Runner!IsTerminalTaskPhase, RunnerMethods
  <1> DEFINE u == Runner!Applied(method, t, by)
  <1>4. CASE method \in {"report_started", "report_running"}
    <2>1. u = [rev EXCEPT !.phase = "Running"]
      BY <1>4 DEF Runner!Applied
    <2> HIDE DEF rev, u
    <2>2. ATask(u)
      BY <2>1, <1>1, <1>2 DEF ATask, TaskShape
    <2>3. u.revision = t.revision + 1
      BY <2>1, <1>1, <1>2
    <2> QED BY <2>2, <2>3, <1>1, <1>3, <1>4 DEF Later, u
  <1>5. CASE method = "report_progress"
    <2>1. u = rev
      BY <1>5 DEF Runner!Applied
    <2> QED BY <2>1, <1>1, <1>2, <1>5 DEF Later, ATask, TaskShape
  <1>6. CASE method = "report_waiting"
    <2>1. u = [rev EXCEPT !.phase = "Waiting"]
      BY <1>6 DEF Runner!Applied
    <2> HIDE DEF rev, u
    <2>2. ATask(u)
      BY <2>1, <1>1, <1>2 DEF ATask, TaskShape
    <2>3. u.revision = t.revision + 1
      BY <2>1, <1>1, <1>2
    <2> QED BY <2>2, <2>3, <1>1, <1>3, <1>6 DEF Later, u
  <1>7. CASE method \in {"commit_result", "fail_task"}
    <2>1. \E outcome : u = [rev EXCEPT !.phase = "Terminal", !.outcome = outcome, !.by = by]
      BY <1>7 DEF Runner!Applied
    <2> HIDE DEF rev, u
    <2>2. ATask(u)
      BY <2>1, <1>1, <1>2 DEF ATask, TaskShape
    <2>3. u.revision = t.revision + 1 /\ u.phase = "Terminal"
      BY <2>1, <1>1, <1>2
    <2> QED BY <2>2, <2>3, <1>1, <1>3, <1>7 DEF Later, u
  <1>8. CASE method = "ack_control"
    <2>1. \E phase, outcome, by2 : u = [rev EXCEPT !.control = "none", !.phase = phase, !.outcome = outcome, !.by = by2]
      BY <1>8, Zenon DEF Runner!Applied
    <2> HIDE DEF rev, u
    <2>2. ATask(u)
      BY <2>1, <1>1, <1>2 DEF ATask, TaskShape
    <2>3. u.revision = t.revision + 1
      BY <2>1, <1>1, <1>2
    <2> QED BY <2>2, <2>3, <1>1, <1>3, <1>8 DEF Later, u
  <1> QED BY <1>4, <1>5, <1>6, <1>7, <1>8 DEF RunnerMethods

\* Changing one field of a task leaves it a task.
LEMMA TaskShapes ==
  ASSUME NEW t, TaskShape(t), NEW x
  PROVE  /\ TaskShape([t EXCEPT !.phase = x]) /\ TaskShape([t EXCEPT !.outcome = x]) /\ TaskShape([t EXCEPT !.by = x])
         /\ TaskShape([t EXCEPT !.control = x]) /\ TaskShape([t EXCEPT !.instance = x])
         /\ TaskShape([t EXCEPT !.epoch = x]) /\ TaskShape([t EXCEPT !.revision = x])
  <1> USE DEF TaskShape
  <1>1. TaskShape([t EXCEPT !.phase = x])
    OBVIOUS
  <1>2. TaskShape([t EXCEPT !.outcome = x])
    OBVIOUS
  <1>3. TaskShape([t EXCEPT !.by = x])
    OBVIOUS
  <1>4. TaskShape([t EXCEPT !.control = x])
    OBVIOUS
  <1>5. TaskShape([t EXCEPT !.instance = x])
    OBVIOUS
  <1>6. TaskShape([t EXCEPT !.epoch = x])
    OBVIOUS
  <1>7. TaskShape([t EXCEPT !.revision = x])
    OBVIOUS
  <1> HIDE DEF TaskShape
  <1> QED BY <1>1, <1>2, <1>3, <1>4, <1>5, <1>6, <1>7

\* The method a runner calls is always one of the seven that it uses.
LEMMA MethodsOfRunner == ASSUME NEW r PROVE Runner!MethodOf(r) \in RunnerMethods
  BY DEF Runner!MethodOf, RunnerMethods

\* A runner makes a step, the task changes or does not.
LEMMA RunnerGoes ==
  ASSUME RunnerInv, NEW r \in Runners, NEW n, s2' = [s2 EXCEPT ![r] = n],
         ATask(s1'), Later(s1, s1'), RunShape(n), Knows(s1', n), Hears(s1', n)
  PROVE  RunnerInv'
  <1>1. \A q \in Runners : q # r => s2'[q] = s2[q]
    BY DEF RunnerInv
  <1>2. s2'[r] = n /\ s2' = [q \in Runners |-> s2'[q]]
    BY DEF RunnerInv
  <1>3. \A q \in Runners : Runs(s1', s2[q])
    BY RunsOn DEF RunnerInv
  <1> QED BY <1>1, <1>2, <1>3 DEF RunnerInv, Runs

\* A task that goes on while the runners stand still keeps the invariant.
LEMMA TaskGoes ==
  ASSUME RunnerInv, s2' = s2, ATask(s1'), Later(s1, s1')
  PROVE  RunnerInv'
  BY RunsOn DEF RunnerInv

\* The fields of a run that a step makes.
Made(n, verb, at, read, first, got) ==
  RunShape(n) /\ n.verb = verb /\ n.at = at /\ n.read = read /\ n.first = first /\ n.got = got

\* Changing one field of a run changes that field and no other.
LEMMA RunsMade ==
  ASSUME NEW c, NEW verb, NEW at, NEW read, NEW first, NEW got, Made(c, verb, at, read, first, got), NEW x
  PROVE  /\ Made([c EXCEPT !.verb = x], x, at, read, first, got)
         /\ Made([c EXCEPT !.at = x], verb, x, read, first, got)
         /\ Made([c EXCEPT !.read = x], verb, at, x, first, got)
         /\ Made([c EXCEPT !.first = x], verb, at, read, x, got)
         /\ Made([c EXCEPT !.calls = x], verb, at, read, first, got)
         /\ Made([c EXCEPT !.got = x], verb, at, read, first, x)
  <1> USE DEF RunShape, Made
  <1>1. Made([c EXCEPT !.verb = x], x, at, read, first, got)
    OBVIOUS
  <1>2. Made([c EXCEPT !.at = x], verb, x, read, first, got)
    OBVIOUS
  <1>3. Made([c EXCEPT !.read = x], verb, at, x, first, got)
    OBVIOUS
  <1>4. Made([c EXCEPT !.first = x], verb, at, read, x, got)
    OBVIOUS
  <1>5. Made([c EXCEPT !.calls = x], verb, at, read, first, got)
    OBVIOUS
  <1>6. Made([c EXCEPT !.got = x], verb, at, read, first, x)
    OBVIOUS
  <1> HIDE DEF RunShape, Made
  <1> QED BY <1>1, <1>2, <1>3, <1>4, <1>5, <1>6

\* A run is made of its own fields.
LEMMA MadeOfItself == ASSUME NEW c, RunShape(c) PROVE Made(c, c.verb, c.at, c.read, c.first, c.got)
  BY DEF Made

\* Every step of the task, the runners and the controller keeps the invariant.
LEMMA RunnerNext == RunnerInv /\ Runner!Next => RunnerInv'
  <1> SUFFICES ASSUME RunnerInv, Runner!Next PROVE RunnerInv'
    OBVIOUS
  <1>t. ATask(s1) /\ s1.revision \in Nat /\ (s1' = s1 => ATask(s1') /\ Later(s1, s1'))
    BY DEF RunnerInv, ATask, Later
  <1>c. ASSUME NEW r \in Runners PROVE RunShape(s2[r]) /\ Knows(s1, s2[r])
    BY DEF RunnerInv, Runs
  <1>1. ASSUME NEW r \in Runners, NEW verb \in Runner!Verbs, Runner!Begin(r, verb) PROVE RunnerInv'
    <2> DEFINE n == [Runner!NoRun EXCEPT !.verb = verb, !.at = "read", !.calls = s2[r].calls + 1]
    <2>1. s2' = [s2 EXCEPT ![r] = n] /\ s1' = s1
      BY <1>1 DEF Runner!Begin
    <2>2. n.verb = verb /\ n.at = "read" /\ n.read.revision = 0 /\ n.first = 0
      BY DEF Runner!NoRun, Runner!NoTask
    <2>3. RunShape(n)
      <3>1. Made(Runner!NoRun, "none", "idle", Runner!NoTask, 0, "none")
        BY DEF Made, RunShape, Runner!NoRun
      <3>2. Made(n, verb, "read", Runner!NoTask, 0, "none")
        BY <3>1, RunsMade
      <3> QED BY <3>2 DEF Made
    <2> HIDE DEF n
    <2>4. Knows(s1, n) /\ Hears(s1, n)
      BY <2>2, <1>t DEF Knows, Hears
    <2> QED BY <2>1, <2>3, <2>4, <1>t, RunnerGoes
  <1>2. ASSUME NEW r \in Runners, Runner!Read(r) PROVE RunnerInv'
    <2> DEFINE seen == [s2[r] EXCEPT !.read = s1, !.first = s1.revision]
    <2>0. Made(seen, s2[r].verb, s2[r].at, s1, s1.revision, s2[r].got)
      BY <1>c, RunsMade, MadeOfItself
    <2> DEFINE report == [seen EXCEPT !.at = "report"]
               waiting == [seen EXCEPT !.at = "waiting"]
               over == [seen EXCEPT !.at = "idle", !.got = "task"]
    <2>1. \/ s2' = [s2 EXCEPT ![r] = report]
          \/ s2' = [s2 EXCEPT ![r] = waiting] /\ s2[r].verb = "wait"
          \/ /\ s2' = [s2 EXCEPT ![r] = over]
             /\ s2[r].verb \in {"progress", "complete", "fail"} => s1.phase = "Terminal"
      BY <1>2, Zenon DEF Runner!Read, Runner!IsTerminalTaskPhase
    <2>2. s1' = s1
      BY <1>2 DEF Runner!Read
    <2> HIDE DEF seen
    <2>4. /\ Made(report, s2[r].verb, "report", s1, s1.revision, s2[r].got)
          /\ Made(waiting, s2[r].verb, "waiting", s1, s1.revision, s2[r].got)
          /\ Made(over, s2[r].verb, "idle", s1, s1.revision, "task")
      <3>1. Made(report, s2[r].verb, "report", s1, s1.revision, s2[r].got)
        BY <2>0, RunsMade
      <3>2. Made(waiting, s2[r].verb, "waiting", s1, s1.revision, s2[r].got)
        BY <2>0, RunsMade
      <3>3. Made(over, s2[r].verb, "idle", s1, s1.revision, "task")
        <4>1. Made([seen EXCEPT !.at = "idle"], s2[r].verb, "idle", s1, s1.revision, s2[r].got)
          BY <2>0, RunsMade
        <4> QED BY <4>1, RunsMade
      <3> QED BY <3>1, <3>2, <3>3
    <2> HIDE DEF report, waiting, over
    <2>5. CASE s2' = [s2 EXCEPT ![r] = report]
      <3>1. Knows(s1, report) /\ Hears(s1, report)
        BY <2>4, <1>t DEF Made, Knows, Hears
      <3> QED BY <2>5, <2>2, <2>4, <3>1, <1>t, RunnerGoes DEF Made
    <2>6. CASE s2' = [s2 EXCEPT ![r] = waiting] /\ s2[r].verb = "wait"
      <3>1. Knows(s1, waiting) /\ Hears(s1, waiting)
        BY <2>4, <2>6, <1>t DEF Made, Knows, Hears
      <3> QED BY <2>6, <2>2, <2>4, <3>1, <1>t, RunnerGoes DEF Made
    <2>7. CASE /\ s2' = [s2 EXCEPT ![r] = over]
               /\ s2[r].verb \in {"progress", "complete", "fail"} => s1.phase = "Terminal"
      <3>1. Knows(s1, over) /\ Hears(s1, over)
        BY <2>4, <2>7, <1>t DEF Made, Knows, Hears
      <3> QED BY <2>7, <2>2, <2>4, <3>1, <1>t, RunnerGoes DEF Made
    <2> QED BY <2>1, <2>5, <2>6, <2>7
  <1>e. ASSUME NEW r \in Runners, NEW got
        PROVE  Made(Runner!Ends(r, got), s2[r].verb, "idle", Runner!NoTask, s2[r].first, got)
    <2>1. Made([s2[r] EXCEPT !.at = "idle"], s2[r].verb, "idle", s2[r].read, s2[r].first, s2[r].got)
      BY <1>c, RunsMade, MadeOfItself
    <2>2. Made([s2[r] EXCEPT !.at = "idle", !.got = got], s2[r].verb, "idle", s2[r].read, s2[r].first, got)
      BY <2>1, RunsMade
    <2> QED BY <2>2, RunsMade DEF Runner!Ends
  <1>f. ASSUME NEW r \in Runners, NEW t
        PROVE  Made(Runner!EndsWith(r, t), s2[r].verb, "idle", t, s2[r].first, "task")
    <2>1. Made([s2[r] EXCEPT !.at = "idle"], s2[r].verb, "idle", s2[r].read, s2[r].first, s2[r].got)
      BY <1>c, RunsMade, MadeOfItself
    <2>2. Made([s2[r] EXCEPT !.at = "idle", !.got = "task"], s2[r].verb, "idle", s2[r].read, s2[r].first, "task")
      BY <2>1, RunsMade
    <2> QED BY <2>2, RunsMade DEF Runner!EndsWith
  <1>g. ASSUME NEW r \in Runners, NEW at, NEW t
        PROVE  Made([s2[r] EXCEPT !.at = at, !.read = t], s2[r].verb, at, t, s2[r].first, s2[r].got)
    <2>1. Made([s2[r] EXCEPT !.at = at], s2[r].verb, at, s2[r].read, s2[r].first, s2[r].got)
      BY <1>c, RunsMade, MadeOfItself
    <2> QED BY <2>1, RunsMade
  <1>h. Runner!NoTask.revision = 0
    BY DEF Runner!NoTask
  <1>3. ASSUME NEW r \in Runners, Runner!Write(r) PROVE RunnerInv'
    <2> DEFINE method == Runner!MethodOf(r)
               e == Runner!SnapshotEnvelope(s2[r].read)
               code == Runner!TaskMgrErrorCode(Runner!Says(Runner!RefusedWith(method, e)))
               waiting == [s2[r] EXCEPT !.at = "waiting", !.read = s1']
               finds == [s2[r] EXCEPT !.at = "findOut"]
               again == [s2[r] EXCEPT !.at = "readAgain"]
    <2>1. s2[r].at \in {"report", "again", "waiting"}
      BY <1>3 DEF Runner!Write
    <2>2. CASE code = "none"
      <3>1. s1' = Runner!Applied(method, s1, r)
        BY <1>3, <2>2, Zenon DEF Runner!Write
      <3>2. \/ s2[r].verb = "wait" /\ s2' = [s2 EXCEPT ![r] = waiting]
            \/ ~(s2[r].verb = "wait" /\ s2[r].at = "report") /\ s2' = [s2 EXCEPT ![r] = Runner!EndsWith(r, s1')]
        BY <1>3, <2>2, Zenon DEF Runner!Write
      <3>3. Runner!Allowed(method, s1) /\ method \in RunnerMethods
        BY <2>2, RefusedIsSaid, MethodsOfRunner
      <3>4. /\ ATask(s1') /\ Later(s1, s1') /\ s1'.revision = s1.revision + 1
            /\ method \in {"commit_result", "fail_task"} => s1'.phase = "Terminal"
        BY <3>1, <3>3, <1>t, AppliedIsLater
      <3>5. s2[r].verb \in {"complete", "fail"} => method \in {"commit_result", "fail_task"}
        BY <1>c DEF Runner!MethodOf, Knows
      <3> HIDE DEF code, method, e, waiting
      <3>6. CASE s2[r].verb = "wait" /\ s2' = [s2 EXCEPT ![r] = waiting]
        <4>1. Made(waiting, s2[r].verb, "waiting", s1', s2[r].first, s2[r].got)
          BY <1>g DEF waiting
        <4>2. Knows(s1', waiting) /\ Hears(s1', waiting)
          BY <4>1, <3>4, <3>6, <1>c, <1>t DEF Made, Knows, Hears
        <4> QED BY <3>4, <3>6, <4>1, <4>2, RunnerGoes DEF Made
      <3>7. CASE s2' = [s2 EXCEPT ![r] = Runner!EndsWith(r, s1')]
        <4> DEFINE n == Runner!EndsWith(r, s1')
        <4>1. Made(n, s2[r].verb, "idle", s1', s2[r].first, "task")
          BY <1>f
        <4> HIDE DEF n
        <4>2. Knows(s1', n) /\ Hears(s1', n)
          BY <4>1, <3>4, <3>5, <1>c, <1>t DEF Made, Knows, Hears
        <4> QED BY <3>4, <3>7, <4>1, <4>2, RunnerGoes DEF Made, n
      <3> QED BY <3>2, <3>6, <3>7
    <2>3. CASE code # "none"
      <3>1. s1' = s1
        BY <1>3, <2>3, Zenon DEF Runner!Write
      <3>2. \/ Runner!FindsOut(r, code) /\ s2' = [s2 EXCEPT ![r] = finds]
            \/ Runner!TriesAgain(r, code) /\ s2' = [s2 EXCEPT ![r] = again]
            \/ /\ ~Runner!FindsOut(r, code) /\ ~Runner!TriesAgain(r, code)
               /\ s2' = [s2 EXCEPT ![r] = Runner!Ends(r, code)]
        BY <1>3, <2>3, Zenon DEF Runner!Write
      <3>3. code \in {"task_already_completed", "revision_conflict", "stale_runner_epoch", "invalid_task_phase"}
        BY <2>3, RefusedIsSaid DEF Runner!RefusedWith
      <3>4. code = "revision_conflict" => s2[r].read.revision # s1.revision
        BY RefusedIsSaid DEF Runner!SnapshotEnvelope
      <3> HIDE DEF code, finds, again
      <3>5. CASE Runner!FindsOut(r, code) /\ s2' = [s2 EXCEPT ![r] = finds]
        <4>1. Made(finds, s2[r].verb, "findOut", s2[r].read, s2[r].first, s2[r].got)
          BY <1>c, RunsMade, MadeOfItself DEF finds
        <4>2. Knows(s1', finds) /\ Hears(s1', finds)
          BY <4>1, <3>1, <3>5, <1>c, <1>t DEF Made, Knows, Hears, Runner!FindsOut
        <4> QED BY <3>1, <3>5, <4>1, <4>2, <1>t, RunnerGoes DEF Made
      <3>6. CASE Runner!TriesAgain(r, code) /\ s2' = [s2 EXCEPT ![r] = again]
        <4>1. Made(again, s2[r].verb, "readAgain", s2[r].read, s2[r].first, s2[r].got)
          BY <1>c, RunsMade, MadeOfItself DEF again
        <4>2. Knows(s1', again) /\ Hears(s1', again)
          BY <4>1, <3>1, <3>4, <3>6, <1>c, <1>t DEF Made, Knows, Hears, Runner!TriesAgain
        <4> QED BY <3>1, <3>6, <4>1, <4>2, <1>t, RunnerGoes DEF Made
      <3>7. CASE /\ ~Runner!FindsOut(r, code) /\ ~Runner!TriesAgain(r, code)
                 /\ s2' = [s2 EXCEPT ![r] = Runner!Ends(r, code)]
        <4> DEFINE n == Runner!Ends(r, code)
        <4>1. Made(n, s2[r].verb, "idle", Runner!NoTask, s2[r].first, code)
          BY <1>e
        <4> HIDE DEF n
        <4>2. Knows(s1', n)
          BY <4>1, <3>1, <1>c, <1>t, <1>h DEF Made, Knows
        <4>3. Hears(s1', n)
          BY <4>1, <3>1, <3>3, <3>4, <3>7, <2>1, <1>c, <1>t DEF Made, Knows, Hears, Runner!FindsOut, Runner!TriesAgain
        <4> QED BY <3>1, <3>7, <4>1, <4>2, <4>3, <1>t, RunnerGoes DEF Made, n
      <3> QED BY <3>2, <3>5, <3>6, <3>7
    <2> QED BY <2>2, <2>3
  <1>4. ASSUME NEW r \in Runners, Runner!ReadAgain(r) PROVE RunnerInv'
    <2> DEFINE waiting == [s2[r] EXCEPT !.at = "waiting", !.read = s1]
               again == [s2[r] EXCEPT !.at = "again", !.read = s1]
               over == Runner!EndsWith(r, s1)
    <2>1. s1' = s1 /\ s2[r].at \in {"findOut", "readAgain"}
      BY <1>4 DEF Runner!ReadAgain
    <2>2. \/ s2[r].verb = "wait" /\ s2' = [s2 EXCEPT ![r] = waiting]
          \/ /\ s2[r].at = "findOut" \/ (s2[r].verb = "complete" /\ Runner!IsTerminalTaskPhase(s1.phase))
             /\ s2' = [s2 EXCEPT ![r] = over]
          \/ s2[r].at = "readAgain" /\ s2' = [s2 EXCEPT ![r] = again]
      BY <1>4, <2>1, Zenon DEF Runner!ReadAgain
    <2>3. /\ Made(waiting, s2[r].verb, "waiting", s1, s2[r].first, s2[r].got)
          /\ Made(again, s2[r].verb, "again", s1, s2[r].first, s2[r].got)
          /\ Made(over, s2[r].verb, "idle", s1, s2[r].first, "task")
      BY <1>f, <1>g
    <2> HIDE DEF waiting, again, over
    <2>4. CASE s2[r].verb = "wait" /\ s2' = [s2 EXCEPT ![r] = waiting]
      <3>1. Knows(s1', waiting) /\ Hears(s1', waiting)
        BY <2>1, <2>3, <2>4, <1>c, <1>t DEF Made, Knows, Hears
      <3> QED BY <2>1, <2>3, <2>4, <3>1, <1>t, RunnerGoes DEF Made
    <2>5. CASE /\ s2[r].at = "findOut" \/ (s2[r].verb = "complete" /\ Runner!IsTerminalTaskPhase(s1.phase))
               /\ s2' = [s2 EXCEPT ![r] = over]
      <3>1. Knows(s1', over) /\ Hears(s1', over)
        BY <2>1, <2>3, <2>5, <1>c, <1>t DEF Made, Knows, Hears, Runner!IsTerminalTaskPhase
      <3> QED BY <2>1, <2>3, <2>5, <3>1, <1>t, RunnerGoes DEF Made
    <2>6. CASE s2[r].at = "readAgain" /\ s2' = [s2 EXCEPT ![r] = again]
      <3>1. Knows(s1', again) /\ Hears(s1', again)
        BY <2>1, <2>3, <2>6, <1>c, <1>t DEF Made, Knows, Hears
      <3> QED BY <2>1, <2>3, <2>6, <3>1, <1>t, RunnerGoes DEF Made
    <2> QED BY <2>2, <2>4, <2>5, <2>6
  <1>5. ASSUME NEW r \in Runners, NEW executed \in BOOLEAN, NEW got, Runner!CallFails(r, executed, got)
        PROVE  RunnerInv'
    <2> DEFINE n == Runner!Ends(r, "lost")
    <2>1. s2' = [s2 EXCEPT ![r] = n]
      BY <1>5 DEF Runner!CallFails
    <2>2. ATask(s1') /\ Later(s1, s1')
      <3>1. CASE s1' = s1
        BY <3>1, <1>t
      <3>2. ASSUME s1' # s1 PROVE ATask(s1') /\ Later(s1, s1')
        <4> DEFINE method == Runner!MethodOf(r)
        <4>1. /\ s1' = Runner!Applied(method, s1, r)
              /\ Runner!RefusedWith(method, Runner!SnapshotEnvelope(s2[r].read)) = "none"
          BY <1>5, <3>2, Zenon DEF Runner!CallFails
        <4>2. Runner!Allowed(method, s1)
          BY <4>1 DEF Runner!RefusedWith
        <4> QED BY <4>1, <4>2, <1>t, AppliedIsLater, MethodsOfRunner
      <3> QED BY <3>1, <3>2
    <2>3. Made(n, s2[r].verb, "idle", Runner!NoTask, s2[r].first, "lost")
      BY <1>e
    <2> HIDE DEF n
    <2>4. Knows(s1', n) /\ Hears(s1', n)
      BY <2>2, <2>3, <1>c, <1>t, <1>h DEF Made, Knows, Hears, ATask, Later
    <2> QED BY <2>1, <2>2, <2>3, <2>4, RunnerGoes DEF Made
  <1>6. ASSUME NEW r \in Runners, Runner!Bind(r) PROVE RunnerInv'
    <2>1. ATask(s1')
      <3>1. TaskShape(s1')
        BY <1>6, <1>t, TaskShapes DEF Runner!Bind, ATask
      <3>2. s1'.revision \in Nat
        BY <1>6, <1>t DEF Runner!Bind, ATask, TaskShape
      <3> QED BY <3>1, <3>2 DEF ATask
    <2>2. Later(s1, s1')
      BY <1>6, <1>t DEF Runner!Bind, ATask, TaskShape, Later
    <2> QED BY <1>6, <2>1, <2>2, TaskGoes DEF Runner!Bind
  <1>7. ASSUME Runner!Release PROVE RunnerInv'
    <2>1. ATask(s1')
      <3>1. TaskShape(s1')
        BY <1>7, <1>t, TaskShapes DEF Runner!Release, ATask
      <3>2. s1'.revision \in Nat
        BY <1>7, <1>t DEF Runner!Release, ATask, TaskShape
      <3> QED BY <3>1, <3>2 DEF ATask
    <2>2. Later(s1, s1')
      BY <1>7, <1>t DEF Runner!Release, Runner!IsTerminalTaskPhase, ATask, TaskShape, Later
    <2> QED BY <1>7, <2>1, <2>2, TaskGoes DEF Runner!Release
  <1>8. ASSUME NEW outcome, Runner!PromiseEnds(outcome) PROVE RunnerInv'
    <2>1. ATask(s1')
      <3>1. TaskShape(s1')
        BY <1>8, <1>t, TaskShapes DEF Runner!PromiseEnds, ATask
      <3>2. s1'.revision \in Nat
        BY <1>8, <1>t DEF Runner!PromiseEnds, ATask, TaskShape
      <3> QED BY <3>1, <3>2 DEF ATask
    <2>2. Later(s1, s1')
      BY <1>8, <1>t DEF Runner!PromiseEnds, ATask, TaskShape, Later
    <2> QED BY <1>8, <2>1, <2>2, TaskGoes DEF Runner!PromiseEnds
  <1>9. ASSUME NEW control, Runner!UserChanges(control) PROVE RunnerInv'
    <2>1. ATask(s1')
      <3>1. TaskShape(s1')
        BY <1>9, <1>t, TaskShapes DEF Runner!UserChanges, ATask
      <3>2. s1'.revision \in Nat
        BY <1>9, <1>t DEF Runner!UserChanges, ATask, TaskShape
      <3> QED BY <3>1, <3>2 DEF ATask
    <2>2. Later(s1, s1')
      BY <1>9, <1>t DEF Runner!UserChanges, ATask, TaskShape, Later
    <2> QED BY <1>9, <2>1, <2>2, TaskGoes DEF Runner!UserChanges
  <1> QED BY <1>1, <1>2, <1>3, <1>4, <1>5, <1>6, <1>7, <1>8, <1>9 DEF Runner!Next, Runner!Runner

\* What the run checks of the runners follows from their invariant.
LEMMA RunnerStates == RunnerInv => Runner!EndIsHeard
  BY DEF RunnerInv, Runs, Hears, Runner!EndIsHeard, Runner!IsTerminalTaskPhase

\* A step that changes no variable keeps the runners' invariant.
LEMMA RunnerStays == RunnerInv /\ UNCHANGED all => RunnerInv'
  BY DEF all, from2, RunnerInv

-----------------------------------------------------------------------------
(* NotifyAnswer.                                                           *)

AQuestion(t) ==
  /\ DOMAIN t = {"status", "by", "revision"}
  /\ t.status \in Answer!Open \cup Answer!Closed /\ t.revision \in Nat
Ended(t) == t.status \notin Answer!Open
\* What may become of the task t: its end is the end.
Goes(t, u) ==
  /\ AQuestion(u) /\ t.revision <= u.revision
  /\ Ended(t) => u.status = t.status /\ u.by = t.by

UserShape(c) == DOMAIN c = {"answer", "at", "attempt", "revision", "first", "got"}

\* What a user's call knows of the input t at each of its points.
Settles(t, c) ==
  /\ c.first \in Nat /\ c.attempt \in Nat /\ c.revision \in Nat
  /\ c.at \notin {"idle", "view", "done"} => Answer!ValidateNotifyAnswer(c.answer)
  /\ c.at # "mark"
  /\ c.at = "view" => c.attempt = 0
  /\ c.at \in {"readClosed", "lastView"} => Ended(t)
  /\ c.at = "read" => c.attempt <= 2 /\ t.revision >= c.first + c.attempt
  /\ c.at = "commit" => c.attempt <= 2 /\ c.revision <= t.revision /\ c.revision >= c.first + c.attempt
  /\ c.at = "lastRead" => t.revision >= c.first + 3
  /\ c.at = "done" =>
       /\ c.got \in {"invalid", "failed", "keepsChanging"} \/ (c.got = t.status /\ Ended(t))
       /\ c.got = "keepsChanging" => t.revision >= c.first + 3
\* The result is the answer of the user it is of.
IsResult(t, c) ==
  /\ c.at # "idle" /\ Ended(t)
  /\ Answer!ValidateNotifyAnswer(c.answer) /\ Answer!Result(c.answer) = t.status

AnswerTypes ==
  /\ AQuestion(s2)
  /\ s3 = [u \in Users |-> s3[u]]
  /\ \A u \in Users : UserShape(s3[u])
AllSettle == \A u \in Users : Settles(s2, s3[u]) /\ (s2.by = u => IsResult(s2, s3[u]))
AnswerInv == AnswerTypes /\ (s1.kind = "input" => AllSettle) /\ Answer!RepliesAreTyped

\* A question or a task of the message centre starts in the invariant.
LEMMA AnswerInit == Answer!Init => AnswerInv
  <1> SUFFICES ASSUME Answer!Init PROVE AnswerInv
    OBVIOUS
  <1> USE DEF Answer!Init
  <1>1. AQuestion(s2)
    BY DEF AQuestion, Answer!Open
  <1>2. s3 = [u \in Users |-> s3[u]]
    BY DEF Answer!NoUser
  <1>3. ASSUME NEW u \in Users PROVE UserShape(s3[u]) /\ Settles(s2, s3[u])
    BY DEF UserShape, Settles, Answer!NoUser
  <1>4. ASSUME NEW u \in Users PROVE s2.by # u
    BY AnswerAssumption
  <1>5. Answer!RepliesAreTyped
    BY DEF Answer!RepliesAreTyped
  <1> QED BY <1>1, <1>2, <1>3, <1>4, <1>5 DEF AnswerInv, AnswerTypes, AllSettle

\* Any other method returns only an answer of its shape, and touches neither the question nor its
\* users.
LEMMA AsksTyped == Answer!Asks => Answer!RepliesAreTyped' /\ UNCHANGED <<s1, s2, s3>>
  <1> SUFFICES ASSUME NEW kind, NEW got \in Answer!Shapes, Answer!Ask(kind, got)
               PROVE  Answer!RepliesAreTyped' /\ UNCHANGED <<s1, s2, s3>>
    BY DEF Answer!Asks
  <1>1. s6' = [kind |-> kind, value |-> Answer!Returned(kind, got)] /\ Answer!Taken(kind, got) /\ UNCHANGED <<s1, s2, s3>>
    BY DEF Answer!Ask
  <1>2. got \in [shape : {"null", "string", "array", "scalar", "object"}, typed : BOOLEAN, list : BOOLEAN]
    BY DEF Answer!Shapes
  <1> DEFINE value == Answer!Returned(kind, got)
  <1>3. /\ value.shape = "null" => kind \in {"optionalRecord", "optionalString"}
        /\ kind = "page" => value.shape = "object" /\ value.list
        /\ kind \in {"array", "optionalPage"} => value.shape = "array"
        /\ kind \in {"typed", "recordWithList"} => value.typed
        /\ kind \in {"string", "optionalString"} => value.shape \in {"string", "null"}
    BY <1>1, <1>2 DEF Answer!Taken, Answer!Returned
  <1> HIDE DEF value
  <1>4. s6'.kind = kind /\ s6'.value = value
    BY <1>1 DEF value
  <1> QED BY <1>1, <1>3, <1>4 DEF Answer!RepliesAreTyped

\* A user's call goes on, the task changes or does not.
LEMMA UserGoesOn ==
  ASSUME AnswerInv, NEW u \in Users, NEW n, s3' = [s3 EXCEPT ![u] = n], UNCHANGED <<s1, s6>>, Goes(s2, s2'),
         UserShape(n),
         s1.kind = "input" => /\ Settles(s2', n)
                              /\ s2'.by = u => IsResult(s2', n)
                              /\ \A v \in Users \ {u} : s2'.by = v => s2.by = v
  PROVE  AnswerInv'
  <1>1. \A v \in Users : v # u => s3'[v] = s3[v]
    BY DEF AnswerInv, AnswerTypes, AllSettle
  <1>2. s3'[u] = n /\ s3' = [v \in Users |-> s3'[v]]
    BY DEF AnswerInv, AnswerTypes, AllSettle
  <1>3. ASSUME s1.kind = "input", NEW v \in Users, v # u
        PROVE  Settles(s2', s3[v]) /\ (s2'.by = v => IsResult(s2', s3[v]))
    BY <1>3 DEF AnswerInv, AnswerTypes, AllSettle, Settles, IsResult, Goes, AQuestion, Ended
  <1>4. Answer!RepliesAreTyped' /\ (\A v \in Users : UserShape(s3'[v])) /\ AQuestion(s2')
    BY <1>1, <1>2 DEF AnswerInv, AnswerTypes, Answer!RepliesAreTyped, Goes
  <1>5. ASSUME s1.kind = "input", NEW v \in Users
        PROVE  Settles(s2', s3'[v]) /\ (s2'.by = v => IsResult(s2', s3'[v]))
    BY <1>1, <1>2, <1>3, <1>5
  <1>6. AnswerTypes'
    BY <1>2, <1>4 DEF AnswerTypes
  <1>7. s1'.kind = "input" => AllSettle'
    BY <1>5 DEF AllSettle, Settles, IsResult, Answer!ValidateNotifyAnswer
  <1> QED BY <1>4, <1>6, <1>7 DEF AnswerInv

\* A question that goes on while its users stand still keeps the invariant.
LEMMA QuestionGoesOn ==
  ASSUME AnswerInv, UNCHANGED <<s1, s3, s6>>, Goes(s2, s2'), \A v \in Users : s2'.by = v => s2.by = v
  PROVE  AnswerInv'
  <1>1. ASSUME s1.kind = "input", NEW v \in Users
        PROVE  Settles(s2', s3[v]) /\ (s2'.by = v => IsResult(s2', s3[v]))
    BY <1>1 DEF AnswerInv, AnswerTypes, AllSettle, Settles, IsResult, Goes, AQuestion, Ended
  <1>2. Answer!RepliesAreTyped' /\ AnswerTypes'
    BY DEF AnswerInv, AnswerTypes, Answer!RepliesAreTyped, Goes
  <1>3. s1'.kind = "input" => AllSettle'
    BY <1>1 DEF AllSettle, Settles, IsResult, Answer!ValidateNotifyAnswer
  <1> QED BY <1>2, <1>3 DEF AnswerInv

\* Every step of the users, the waiter and the service keeps the invariant.
LEMMA AnswerSteps == AnswerInv /\ AnswerNext => AnswerInv'
  <1> SUFFICES ASSUME AnswerInv, AnswerNext PROVE AnswerInv'
    OBVIOUS
  <1>t. AQuestion(s2) /\ s2.revision \in Nat /\ Goes(s2, s2)
    BY DEF AnswerInv, AnswerTypes, AQuestion, Goes
  <1>c. ASSUME NEW u \in Users
        PROVE  /\ UserShape(s3[u])
               /\ s1.kind = "input" => Settles(s2, s3[u]) /\ (s2.by = u => IsResult(s2, s3[u]))
    BY DEF AnswerInv, AnswerTypes, AllSettle
  <1>1. CASE Answer!Asks
    <2>1. Answer!RepliesAreTyped' /\ UNCHANGED <<s1, s2, s3>>
      BY <1>1, AsksTyped
    <2>2. AnswerTypes'
      BY <2>1 DEF AnswerInv, AnswerTypes
    <2>3. s1'.kind = "input" => AllSettle'
      BY <2>1 DEF AnswerInv, AllSettle, Settles, IsResult, Answer!ValidateNotifyAnswer
    <2> QED BY <2>1, <2>2, <2>3 DEF AnswerInv
  <1>2. CASE Answer!TaskChanges
    <2>1. Goes(s2, s2') /\ s2'.by = s2.by
      BY <1>2, <1>t DEF Answer!TaskChanges, Goes, AQuestion
    <2> QED BY <1>2, <2>1, QuestionGoesOn DEF Answer!TaskChanges
  <1>3. ASSUME NEW status \in {"expired", "canceled"}, Answer!TaskEnds(status) PROVE AnswerInv'
    <2>1. Goes(s2, s2') /\ s2'.by = "other"
      BY <1>3, <1>t DEF Answer!TaskEnds, Answer!IsNotifyClosed, Answer!Closed, Goes, AQuestion, Ended
    <2> QED BY <1>3, <2>1, QuestionGoesOn, AnswerAssumption DEF Answer!TaskEnds
  <1>4. ASSUME NEW u \in Users, NEW a, Answer!AnswerNotify(u, a) PROVE AnswerInv'
    <2> DEFINE n == [Answer!NoUser EXCEPT !.answer = a, !.at = "view"]
    <2>1. s3' = [s3 EXCEPT ![u] = n] /\ UNCHANGED <<s1, s2, s6>> /\ s3[u].at = "idle"
      BY <1>4 DEF Answer!AnswerNotify, Answer!UserGoes
    <2>2. UserShape(n) /\ n.at = "view" /\ n.first = 0 /\ n.attempt = 0 /\ n.revision = 0
      BY DEF UserShape, Answer!NoUser
    <2> HIDE DEF n
    <2>3. Settles(s2, n)
      BY <2>2 DEF Settles
    <2>4. s1.kind = "input" => s2.by # u
      BY <2>1, <1>c DEF IsResult
    <2> QED BY <2>1, <2>2, <2>3, <2>4, <1>t, UserGoesOn
  <1>m. ASSUME NEW u \in Users, NEW n, s3' = [s3 EXCEPT ![u] = n], UNCHANGED <<s1, s2, s6>>, UserShape(n),
               s1.kind = "input" => Settles(s2, n), n.answer = s3[u].answer, s3[u].at # "idle" => n.at # "idle"
        PROVE  AnswerInv'
    <2>1. s1.kind = "input" /\ s2.by = u => IsResult(s2, n)
      BY <1>m, <1>c DEF IsResult
    <2> QED BY <2>1, <1>m, <1>t, UserGoesOn
  <1>r. ASSUME NEW u \in Users, NEW got
        PROVE  LET n == Answer!Returns(u, got) IN
               /\ UserShape(n) /\ n.at = "done" /\ n.got = got /\ n.answer = s3[u].answer /\ n.first = s3[u].first
               /\ n.attempt = s3[u].attempt /\ n.revision = s3[u].revision
    BY <1>c DEF UserShape, Answer!Returns
  <1>5. ASSUME NEW u \in Users, Answer!ReadView(u) PROVE AnswerInv'
    <2> DEFINE read == [s3[u] EXCEPT !.at = "read", !.first = s2.revision]
               mark == [s3[u] EXCEPT !.at = "mark"]
    <2>1. UNCHANGED <<s1, s2, s6>> /\ s3[u].at = "view"
      BY <1>5 DEF Answer!ReadView, Answer!UserGoes
    <2>2. \/ s1.kind # "input" /\ s3' = [s3 EXCEPT ![u] = mark]
          \/ Answer!IsNotifyClosed(s2.status) /\ s3' = [s3 EXCEPT ![u] = Answer!Returns(u, s2.status)]
          \/ s3' = [s3 EXCEPT ![u] = Answer!Returns(u, "invalid")]
          \/ Answer!ValidateNotifyAnswer(s3[u].answer) /\ s3' = [s3 EXCEPT ![u] = read]
      BY <1>5 DEF Answer!ReadView, Answer!UserGoes
    <2>3. CASE s1.kind # "input" /\ s3' = [s3 EXCEPT ![u] = mark]
      <3>1. UserShape(mark) /\ mark.answer = s3[u].answer /\ mark.at = "mark"
        BY <1>c DEF UserShape
      <3> HIDE DEF mark
      <3> QED BY <2>1, <2>3, <3>1, <1>m
    <2>4. CASE Answer!IsNotifyClosed(s2.status) /\ s3' = [s3 EXCEPT ![u] = Answer!Returns(u, s2.status)]
      <3>1. Ended(s2) /\ s2.status \in Answer!Open \cup Answer!Closed
        BY <2>4, <1>t DEF Ended, Answer!IsNotifyClosed, AQuestion
      <3>2. s1.kind = "input" => Settles(s2, Answer!Returns(u, s2.status))
        BY <3>1, <1>c, <1>r DEF Settles, Answer!Open, Answer!Closed
      <3> QED BY <2>1, <2>4, <3>2, <1>m, <1>r
    <2>5. CASE s3' = [s3 EXCEPT ![u] = Answer!Returns(u, "invalid")]
      <3>1. s1.kind = "input" => Settles(s2, Answer!Returns(u, "invalid"))
        BY <1>c, <1>r DEF Settles
      <3> QED BY <2>1, <2>5, <3>1, <1>m, <1>r
    <2>6. CASE Answer!ValidateNotifyAnswer(s3[u].answer) /\ s3' = [s3 EXCEPT ![u] = read]
      <3>1. UserShape(read) /\ read.answer = s3[u].answer /\ read.at = "read" /\ read.first = s2.revision
            /\ read.attempt = s3[u].attempt /\ read.revision = s3[u].revision
        BY <1>c DEF UserShape
      <3> HIDE DEF read
      <3>2. s1.kind = "input" => s3[u].attempt = 0
        BY <2>1, <1>c DEF Settles
      <3>3. s1.kind = "input" => Settles(s2, read)
        BY <2>6, <3>1, <3>2, <1>c, <1>t DEF Settles
      <3> QED BY <2>1, <2>6, <3>1, <3>3, <1>m
    <2> QED BY <2>2, <2>3, <2>4, <2>5, <2>6
  <1>6. ASSUME NEW u \in Users, Answer!MarkNotice(u) PROVE AnswerInv'
    <2> DEFINE n == Answer!Returns(u, s2'.status)
               marked == [s2 EXCEPT !.status = IF s3[u].answer.dismiss THEN "dismissed" ELSE "read", !.by = u]
    <2>1. UNCHANGED <<s1, s6>> /\ s3[u].at = "mark" /\ s3' = [s3 EXCEPT ![u] = n]
      BY <1>6 DEF Answer!MarkNotice, Answer!UserGoes
    <2>2. s2' = s2 \/ (~Ended(s2) /\ s2' = marked)
      BY <1>6 DEF Answer!MarkNotice, Answer!IsNotifyClosed, Ended
    <2>3. Goes(s2, marked) \/ Ended(s2)
      BY <1>t DEF Goes, AQuestion, Ended, Answer!Open, Answer!Closed
    <2>4. s1.kind # "input"
      BY <2>1, <1>c DEF Settles
    <2>5. UserShape(n)
      BY <1>r
    <2> HIDE DEF n, marked
    <2> QED BY <2>1, <2>2, <2>3, <2>4, <2>5, <1>t, UserGoesOn
  <1>a. ASSUME NEW u \in Users, NEW at
        PROVE  LET n == [s3[u] EXCEPT !.at = at] IN
               /\ UserShape(n) /\ n.at = at /\ n.answer = s3[u].answer /\ n.first = s3[u].first
               /\ n.attempt = s3[u].attempt /\ n.revision = s3[u].revision
    BY <1>c DEF UserShape
  <1>7. ASSUME NEW u \in Users, Answer!ReadTask(u) PROVE AnswerInv'
    <2> DEFINE last == [s3[u] EXCEPT !.at = "lastView"]
               commit == [s3[u] EXCEPT !.at = "commit", !.revision = s2.revision]
    <2>1. UNCHANGED <<s1, s2, s6>> /\ s3[u].at = "read"
      BY <1>7 DEF Answer!ReadTask, Answer!UserGoes
    <2>2. (Ended(s2) /\ s3' = [s3 EXCEPT ![u] = last]) \/ s3' = [s3 EXCEPT ![u] = commit]
      BY <1>7 DEF Answer!ReadTask, Answer!UserGoes, Ended, Answer!IsNotifyClosed
    <2>3. UserShape(last) /\ last.at = "lastView" /\ last.answer = s3[u].answer /\ last.first = s3[u].first
          /\ last.attempt = s3[u].attempt /\ last.revision = s3[u].revision
      BY <1>a
    <2>4. UserShape(commit) /\ commit.at = "commit" /\ commit.answer = s3[u].answer /\ commit.first = s3[u].first
          /\ commit.attempt = s3[u].attempt /\ commit.revision = s2.revision
      BY <1>c DEF UserShape
    <2> HIDE DEF last, commit
    <2>5. CASE Ended(s2) /\ s3' = [s3 EXCEPT ![u] = last]
      <3>1. s1.kind = "input" => Settles(s2, last)
        BY <2>1, <2>3, <2>5, <1>c DEF Settles
      <3> QED BY <2>1, <2>3, <2>5, <3>1, <1>m
    <2>6. CASE s3' = [s3 EXCEPT ![u] = commit]
      <3>1. s1.kind = "input" => Settles(s2, commit)
        BY <2>1, <2>4, <1>c, <1>t DEF Settles
      <3> QED BY <2>1, <2>4, <2>6, <3>1, <1>m
    <2> QED BY <2>2, <2>5, <2>6
  <1>k. ASSUME NEW u \in Users, NEW n, s3' = [s3 EXCEPT ![u] = n], UNCHANGED <<s1, s6>>,
               Answer!Committed(s2, s3[u].revision, Answer!Result(s3[u].answer), u) = "none",
               s2' = [status |-> Answer!Result(s3[u].answer), by |-> u, revision |-> s2.revision + 1],
               UserShape(n), n.answer = s3[u].answer, n.at # "idle", s3[u].at = "commit",
               s1.kind = "input" => (Goes(s2, s2') /\ Ended(s2') => Settles(s2', n))
        PROVE  AnswerInv'
    <2>1. s2'.status \in {"answered", "dismissed"} /\ s2'.by = u /\ s2'.revision = s2.revision + 1
      BY <1>k DEF Answer!Result
    <2>2. Ended(s2') /\ ~Ended(s2)
      BY <2>1, <1>k DEF Ended, Answer!Open, Answer!Committed, Answer!IsNotifyClosed
    <2>3. Goes(s2, s2')
      <3>1. DOMAIN s2' = {"status", "by", "revision"}
        BY <1>k
      <3> QED BY <2>1, <2>2, <3>1, <1>t DEF Goes, AQuestion, Answer!Closed
    <2>4. s1.kind = "input" => IsResult(s2', n)
      BY <2>1, <2>2, <1>k, <1>c DEF IsResult, Settles
    <2> QED BY <2>1, <2>2, <2>3, <2>4, <1>k, UserGoesOn
  <1>8. ASSUME NEW u \in Users, Answer!Commit(u) PROVE AnswerInv'
    <2> DEFINE code == Answer!Committed(s2, s3[u].revision, Answer!Result(s3[u].answer), u)
               last == [s3[u] EXCEPT !.at = "lastView"]
               closed == [s3[u] EXCEPT !.at = "readClosed"]
               next == IF s3[u].attempt + 1 < Answer!Attempts THEN "read" ELSE "lastRead"
               again == [s3[u] EXCEPT !.attempt = @ + 1, !.at = next]
    <2>1. UNCHANGED <<s1, s6>> /\ s3[u].at = "commit"
      BY <1>8 DEF Answer!Commit, Answer!UserGoes
    <2>2. \/ /\ code = "none"
             /\ s2' = [status |-> Answer!Result(s3[u].answer), by |-> u, revision |-> s2.revision + 1]
             /\ s3' = [s3 EXCEPT ![u] = last]
          \/ code = "task_already_completed" /\ s2' = s2 /\ s3' = [s3 EXCEPT ![u] = closed]
          \/ code = "revision_conflict" /\ s2' = s2 /\ s3' = [s3 EXCEPT ![u] = again]
      <3>1. code \in {"none", "task_already_completed", "revision_conflict"}
        BY DEF Answer!Committed
      <3>2. s2' = IF code = "none"
                  THEN [status |-> Answer!Result(s3[u].answer), by |-> u, revision |-> s2.revision + 1] ELSE s2
        BY <1>8, Zenon DEF Answer!Commit
      <3>3. s3' = [s3 EXCEPT ![u] = CASE code = "none" -> last [] code = "task_already_completed" -> closed
                                      [] OTHER -> again]
        BY <1>8, Zenon DEF Answer!Commit, Answer!UserGoes
      <3> HIDE DEF code, last, closed, again
      <3> QED BY <3>1, <3>2, <3>3
    <2>3. CASE /\ code = "none"
               /\ s2' = [status |-> Answer!Result(s3[u].answer), by |-> u, revision |-> s2.revision + 1]
               /\ s3' = [s3 EXCEPT ![u] = last]
      <3>1. UserShape(last) /\ last.at = "lastView" /\ last.answer = s3[u].answer /\ last.first = s3[u].first
            /\ last.attempt = s3[u].attempt /\ last.revision = s3[u].revision
        BY <1>a
      <3> HIDE DEF last
      <3>2. s1.kind = "input" => (Ended(s2') => Settles(s2', last))
        BY <2>1, <3>1, <1>c DEF Settles
      <3> QED BY <2>1, <2>3, <3>1, <3>2, <1>k
    <2>4. CASE code = "task_already_completed" /\ s2' = s2 /\ s3' = [s3 EXCEPT ![u] = closed]
      <3>1. UserShape(closed) /\ closed.at = "readClosed" /\ closed.answer = s3[u].answer
            /\ closed.first = s3[u].first /\ closed.attempt = s3[u].attempt /\ closed.revision = s3[u].revision
        BY <1>a
      <3>2. Ended(s2)
        BY <2>4 DEF Answer!Committed, Answer!IsNotifyClosed, Ended
      <3> HIDE DEF closed
      <3>3. s1.kind = "input" => Settles(s2, closed)
        BY <2>1, <3>1, <3>2, <1>c DEF Settles
      <3> QED BY <2>1, <2>4, <3>1, <3>3, <1>m
    <2>5. CASE code = "revision_conflict" /\ s2' = s2 /\ s3' = [s3 EXCEPT ![u] = again]
      <3>1. UserShape(again) /\ again.at = next /\ again.answer = s3[u].answer
            /\ again.first = s3[u].first /\ again.attempt = s3[u].attempt + 1 /\ again.revision = s3[u].revision
        BY <1>c DEF UserShape
      <3>2. s2.revision # s3[u].revision
        BY <2>5 DEF Answer!Committed
      <3>3. next = IF s3[u].attempt + 1 < 3 THEN "read" ELSE "lastRead"
        BY DEF Answer!Attempts
      <3> HIDE DEF again, next
      <3>4. s1.kind = "input" => Settles(s2, again)
        BY <2>1, <3>1, <3>2, <3>3, <1>c, <1>t DEF Settles
      <3> QED BY <2>1, <2>5, <3>1, <3>3, <3>4, <1>m
    <2> QED BY <2>2, <2>3, <2>4, <2>5
  <1>9. ASSUME NEW u \in Users, Answer!ReadClosed(u) PROVE AnswerInv'
    <2> DEFINE last == [s3[u] EXCEPT !.at = "lastView"]
    <2>1. UNCHANGED <<s1, s2, s6>> /\ s3[u].at \in {"readClosed", "lastRead"}
      BY <1>9 DEF Answer!ReadClosed, Answer!UserGoes
    <2>2. \/ s3[u].at = "readClosed" /\ s3' = [s3 EXCEPT ![u] = last]
          \/ Ended(s2) /\ s3' = [s3 EXCEPT ![u] = last]
          \/ s3[u].at = "lastRead" /\ s3' = [s3 EXCEPT ![u] = Answer!Returns(u, "keepsChanging")]
      BY <1>9 DEF Answer!ReadClosed, Answer!UserGoes, Answer!IsNotifyClosed, Ended
    <2>3. UserShape(last) /\ last.at = "lastView" /\ last.answer = s3[u].answer /\ last.first = s3[u].first
          /\ last.attempt = s3[u].attempt /\ last.revision = s3[u].revision
      BY <1>a
    <2> HIDE DEF last
    <2>4. CASE (s3[u].at = "readClosed" \/ Ended(s2)) /\ s3' = [s3 EXCEPT ![u] = last]
      <3>1. s1.kind = "input" => Settles(s2, last)
        BY <2>1, <2>3, <2>4, <1>c DEF Settles
      <3> QED BY <2>1, <2>3, <2>4, <3>1, <1>m
    <2>5. CASE s3[u].at = "lastRead" /\ s3' = [s3 EXCEPT ![u] = Answer!Returns(u, "keepsChanging")]
      <3>1. s1.kind = "input" => Settles(s2, Answer!Returns(u, "keepsChanging"))
        BY <2>5, <1>c, <1>r DEF Settles
      <3> QED BY <2>1, <2>5, <3>1, <1>m, <1>r
    <2> QED BY <2>2, <2>4, <2>5
  <1>10. ASSUME NEW u \in Users, Answer!LastView(u) PROVE AnswerInv'
    <2>1. UNCHANGED <<s1, s2, s6>> /\ s3[u].at = "lastView" /\ s3' = [s3 EXCEPT ![u] = Answer!Returns(u, s2.status)]
      BY <1>10 DEF Answer!LastView, Answer!UserGoes
    <2>2. s1.kind = "input" => Settles(s2, Answer!Returns(u, s2.status))
      BY <2>1, <1>c, <1>r, <1>t DEF Settles, AQuestion, Answer!Open, Answer!Closed
    <2> QED BY <2>1, <2>2, <1>m, <1>r
  <1>11. ASSUME NEW u \in Users, NEW served, Answer!CallFails(u, served) PROVE AnswerInv'
    <2> DEFINE n == Answer!Returns(u, "failed")
    <2>1. UNCHANGED <<s1, s6>> /\ s3[u].at \notin {"idle", "done"} /\ s3' = [s3 EXCEPT ![u] = n]
      BY <1>11 DEF Answer!CallFails, Answer!UserGoes
    <2>2. \/ s2' = s2
          \/ /\ Answer!Committed(s2, s3[u].revision, Answer!Result(s3[u].answer), u) = "none"
             /\ s3[u].at = "commit"
             /\ s2' = [status |-> Answer!Result(s3[u].answer), by |-> u, revision |-> s2.revision + 1]
      BY <1>11, Zenon DEF Answer!CallFails
    <2>3. UserShape(n) /\ n.at = "done" /\ n.answer = s3[u].answer
      BY <1>r
    <2>4. \A t : s1.kind = "input" => Settles(t, n)
      BY <1>c, <1>r DEF Settles
    <2> HIDE DEF n
    <2> QED BY <2>1, <2>2, <2>3, <2>4, <1>m, <1>k
  <1> QED BY <1>1, <1>2, <1>3, <1>4, <1>5, <1>6, <1>7, <1>8, <1>9, <1>10, <1>11 DEF AnswerNext, Answer!User

\* What the run checks of notifications follows from their invariant.
LEMMA AnswerStates == AnswerInv => Answer!AnswersSettle /\ Answer!RepliesAreTyped
  <1> SUFFICES ASSUME AnswerInv PROVE Answer!AnswersSettle
    BY DEF AnswerInv
  <1> QED BY DEF AnswerInv, AllSettle, Settles, IsResult, Ended, Answer!IsNotifyClosed, Answer!AnswersSettle

\* A step that changes no variable keeps the invariant of notifications.
LEMMA AnswerStays == AnswerInv /\ UNCHANGED all => AnswerInv'
  <1> SUFFICES ASSUME AnswerInv, UNCHANGED <<s1, s2, s3, s6>> PROVE AnswerInv'
    BY DEF all, from2
  <1> QED BY DEF AnswerInv, AnswerTypes, AllSettle, Settles, IsResult, Answer!ValidateNotifyAnswer, Answer!RepliesAreTyped

-----------------------------------------------------------------------------
(* ExecutorStream.                                                         *)

\* What may be on the way in the stream st while the files fs are on disk: a
\* message has a number that was given, and the operation of the request that
\* waits under that number, if one does.
Ops == Operations \cup {"none"}
OfRequest(st, id, op) == id <= st.sequence /\ (id \in DOMAIN st.pending => st.pending[id].op = op)
Outs(st, fs) ==
  {m \in [id : Nat, verb : {"login", "exec", "query"}, op : Ops] :
     OfRequest(st, m.id, m.op) /\ (m.verb = "exec" => m.op \in fs)}
Ins(st) == {p \in [of : [id : Nat, op : Ops, ok : BOOLEAN], half : {1, 2}] : OfRequest(st, p.of.id, p.of.op)}

StreamShape(st) ==
  /\ DOMAIN st = {"stage", "sequence", "pending", "buffer"}
  /\ st.sequence \in Nat /\ DOMAIN st.pending \subseteq 1 .. st.sequence
InStream(st, fs, socket) ==
  /\ st.buffer \in Seq(Ins(st))
  /\ DOMAIN socket = {"out", "in"} /\ socket.out \in Seq(Outs(st, fs)) /\ socket.in \in Seq(Ins(st))
Honest(h) ==
  /\ h.said \in {"unknown", "invalid", "closing", "reply", "error"}
  /\ h.said \in {"reply", "error"} => h.of = h.op

ExecutorInv ==
  /\ StreamShape(s2) /\ InStream(s2, s1, s4)
  /\ s5 \subseteq s1
  /\ \A h \in s6 : Honest(h)

\* An empty buffer holds no reply that could be taken for another's.
LEMMA NothingInStream ==
  ASSUME NEW st, NEW fs, st.buffer = <<>>
  PROVE  InStream(st, fs, Executor!Quiet)
  <1>1. \A S : <<>> \in Seq(S)
    OBVIOUS
  <1>2. DOMAIN Executor!Quiet = {"out", "in"} /\ Executor!Quiet.out = <<>> /\ Executor!Quiet.in = <<>>
    BY DEF Executor!Quiet
  <1> QED BY <1>1, <1>2 DEF InStream

\* Before the first connection there is a stream of the right shape, with nothing buffered.
LEMMA NoStreamHolds == StreamShape(Executor!NoStream) /\ Executor!NoStream.buffer = <<>>
  BY DEF StreamShape, Executor!NoStream

\* The executor's two ends start in their invariant.
LEMMA ExecutorInit == Executor!Init => ExecutorInv
  BY NothingInStream, NoStreamHolds DEF Executor!Init, ExecutorInv

\* Requests are added under new numbers, and end.
Follows(st, su) ==
  /\ st.sequence <= su.sequence
  /\ \A i \in DOMAIN su.pending : i <= st.sequence => i \in DOMAIN st.pending /\ su.pending[i] = st.pending[i]

\* What may be on the wire of a stream may be on it at any later time.
LEMMA StreamFollows ==
  ASSUME NEW st, NEW su, NEW fs, NEW ft, StreamShape(st), StreamShape(su), Follows(st, su), fs \subseteq ft
  PROVE  Seq(Outs(st, fs)) \subseteq Seq(Outs(su, ft)) /\ Seq(Ins(st)) \subseteq Seq(Ins(su))
  <1>1. ASSUME NEW id \in Nat, NEW op, OfRequest(st, id, op) PROVE OfRequest(su, id, op)
    BY <1>1 DEF OfRequest, Follows, StreamShape
  <1>2. Outs(st, fs) \subseteq Outs(su, ft)
    BY <1>1 DEF Outs
  <1>3. Ins(st) \subseteq Ins(su)
    BY <1>1 DEF Ins
  <1> QED BY <1>2, <1>3, SeqMonotonic

\* What is on the wire stays well formed when the stream goes on.
LEMMA StillInStream ==
  ASSUME NEW st, NEW su, NEW fs, NEW ft, NEW socket, StreamShape(st), StreamShape(su), Follows(st, su), fs \subseteq ft,
         InStream(st, fs, socket), su.buffer = st.buffer
  PROVE  InStream(su, ft, socket)
  BY StreamFollows DEF InStream

\* A request: registered, and sent.
LEMMA RequestedKeeps ==
  ASSUME ExecutorInv, NEW r \in [verb : {"login", "exec", "query"}, op : Ops], Executor!Requested(r),
         r.verb = "exec" => r.op \in s1
  PROVE  StreamShape(s2') /\ InStream(s2', s1, s4')
  <1> DEFINE id == s2.sequence + 1
             pending == [j \in DOMAIN s2.pending \cup {id} |-> IF j = id THEN r ELSE s2.pending[j]]
             stage == IF r.verb = "login" THEN "loggingIn" ELSE s2.stage
             m == [id |-> id, verb |-> r.verb, op |-> r.op]
  <1>1. /\ s2' = [s2 EXCEPT !.sequence = id, !.pending = pending, !.stage = stage]
        /\ s4' = [s4 EXCEPT !.out = Append(s4.out, m)]
    BY DEF Executor!Requested, Executor!NextNumber, Executor!Ids
  <1>2. StreamShape(s2) /\ InStream(s2, s1, s4) /\ s2.sequence \in Nat
    BY DEF ExecutorInv, StreamShape
  <1>3. DOMAIN pending = DOMAIN s2.pending \cup {id} /\ pending[id] = r /\ \A j \in DOMAIN s2.pending : j # id => pending[j] = s2.pending[j]
    OBVIOUS
  <1> HIDE DEF pending, stage, m
  <1>4. s2'.sequence = id /\ s2'.pending = pending /\ s2'.buffer = s2.buffer
        /\ DOMAIN s2' = {"stage", "sequence", "pending", "buffer"}
    BY <1>1, <1>2 DEF StreamShape
  <1>5. StreamShape(s2') /\ Follows(s2, s2')
    BY <1>2, <1>3, <1>4 DEF StreamShape, Follows
  <1>6. InStream(s2', s1, s4)
    BY <1>2, <1>4, <1>5, StillInStream
  <1>7. m \in Outs(s2', s1)
    BY <1>2, <1>3, <1>4 DEF Outs, OfRequest, m
  <1>8. DOMAIN s4' = {"out", "in"} /\ s4'.in = s4.in /\ s4'.out = Append(s4.out, m)
    BY <1>1, <1>6 DEF InStream
  <1>9. s4'.out \in Seq(Outs(s2', s1))
    BY <1>6, <1>7, <1>8, AppendProperties DEF InStream
  <1> QED BY <1>5, <1>6, <1>8, <1>9 DEF InStream

\* The stream loses what waited, or is another one, and the socket is as empty.
LEMMA FailsKeeps ==
  ASSUME NEW s, StreamShape(s), s.buffer \in Seq(Ins(s)), NEW says \in {"unknown", "invalid", "closing"},
         ExecutorInv, Executor!Fails(says, s)
  PROVE  /\ StreamShape(s2') /\ Follows(s, s2') /\ s2'.buffer = s.buffer
         /\ \A h \in s6' : Honest(h)
  <1>1. s2' = [s EXCEPT !.stage = "closed", !.pending = <<>>]
        /\ s6' = s6 \cup {Executor!Outcome(s.pending[i], i, says, "none") : i \in DOMAIN s.pending}
    BY DEF Executor!Fails
  <1>2. DOMAIN s2' = {"stage", "sequence", "pending", "buffer"} /\ s2'.pending = <<>> /\ s2'.sequence = s.sequence
        /\ s2'.buffer = s.buffer
    BY <1>1 DEF StreamShape
  <1>3. \A i : Honest(Executor!Outcome(s.pending[i], i, says, "none"))
    BY DEF Honest, Executor!Outcome
  <1> QED BY <1>1, <1>2, <1>3 DEF StreamShape, Follows, ExecutorInv

\* Every step of the command, its socket and the executor keeps the invariant.
LEMMA ExecutorNext == ExecutorInv /\ Executor!Next => ExecutorInv'
  <1> SUFFICES ASSUME ExecutorInv, Executor!Next PROVE ExecutorInv'
    OBVIOUS
  <1>i. /\ StreamShape(s2) /\ InStream(s2, s1, s4) /\ s2.sequence \in Nat
        /\ s5 \subseteq s1 /\ (\A h \in s6 : Honest(h))
    BY DEF ExecutorInv, StreamShape
  <1>q. ASSUME s4' = Executor!Quiet, s2'.buffer = <<>>, StreamShape(s2'), s5' \subseteq s1', \A h \in s6' : Honest(h)
        PROVE  ExecutorInv'
    BY <1>q, NothingInStream DEF ExecutorInv
  <1>g. ASSUME NEW stage, Executor!Goes(stage)
        PROVE  StreamShape(s2') /\ Follows(s2, s2') /\ s2'.buffer = s2.buffer
    <2>1. /\ DOMAIN s2' = {"stage", "sequence", "pending", "buffer"} /\ s2'.sequence = s2.sequence
          /\ s2'.pending = s2.pending /\ s2'.buffer = s2.buffer
      BY <1>g, <1>i DEF Executor!Goes, StreamShape
    <2> QED BY <2>1, <1>i DEF StreamShape, Follows
  <1>1. ASSUME NEW op \in Operations, Executor!SaveLocator(op) PROVE ExecutorInv'
    <2>1. Follows(s2, s2)
      BY <1>i DEF Follows
    <2> QED BY <1>1, <2>1, <1>i, StillInStream DEF Executor!SaveLocator, ExecutorInv
  <1>2. ASSUME NEW matches \in BOOLEAN, Executor!Connect(matches) PROVE ExecutorInv'
    <2>1. s2' = [Executor!NoStream EXCEPT !.stage = "opening"] \/ s2' = Executor!NoStream
      BY <1>2 DEF Executor!Connect
    <2>2. StreamShape(s2') /\ s2'.buffer = <<>>
      BY <2>1 DEF StreamShape, Executor!NoStream
    <2> QED BY <1>2, <2>2, <1>i, <1>q DEF Executor!Connect
  <1>3. ASSUME NEW ok \in BOOLEAN, Executor!Ready(ok) PROVE ExecutorInv'
    <2>1. (\E stage : Executor!Goes(stage)) /\ UNCHANGED <<s1, s3, s4, s5, s6>>
      BY <1>3 DEF Executor!Ready
    <2> QED BY <2>1, <1>g, <1>i, StillInStream DEF ExecutorInv
  <1>4. CASE Executor!Login
    <2>1. Executor!Requested([verb |-> "login", op |-> "none"]) /\ UNCHANGED <<s1, s3, s5, s6>>
      BY <1>4 DEF Executor!Login
    <2> DEFINE r == [verb |-> "login", op |-> "none"]
    <2>2. r \in [verb : {"login", "exec", "query"}, op : Ops] /\ r.verb # "exec"
      BY DEF Ops
    <2> QED BY <2>1, <2>2, <1>i, RequestedKeeps DEF ExecutorInv
  <1>5. ASSUME NEW op \in Operations, Executor!Dispatch(op) PROVE ExecutorInv'
    <2> DEFINE r == [verb |-> "exec", op |-> op]
    <2>1. Executor!Requested(r) /\ op \in s1 /\ UNCHANGED <<s1, s3, s5, s6>>
      BY <1>5 DEF Executor!Dispatch
    <2>2. r \in [verb : {"login", "exec", "query"}, op : Ops] /\ r.op = op
      BY DEF Ops
    <2> QED BY <2>1, <2>2, <1>i, RequestedKeeps DEF ExecutorInv
  <1>6. ASSUME NEW op \in Operations, Executor!Query(op) PROVE ExecutorInv'
    <2> DEFINE r == [verb |-> "query", op |-> op]
    <2>1. Executor!Requested(r) /\ UNCHANGED <<s1, s3, s5, s6>>
      BY <1>6 DEF Executor!Query
    <2>2. r \in [verb : {"login", "exec", "query"}, op : Ops] /\ r.verb # "exec"
      BY DEF Ops
    <2> QED BY <2>1, <2>2, <1>i, RequestedKeeps DEF ExecutorInv
  <1>w. ASSUME NEW f, NEW id PROVE LET g == Executor!Without(f, id) IN
          DOMAIN g \subseteq DOMAIN f /\ \A j \in DOMAIN g : g[j] = f[j]
    BY DEF Executor!Without
  <1>7. ASSUME NEW id \in Executor!Ids, Executor!Timeout(id) PROVE ExecutorInv'
    <2> DEFINE pending == Executor!Without(s2.pending, id)
               stage == IF s2.stage = "loggingIn" THEN "none" ELSE s2.stage
               h == Executor!Outcome(s2.pending[id], id, "unknown", "none")
    <2>1. s2' = [s2 EXCEPT !.pending = pending, !.stage = stage] /\ s6' = s6 \cup {h} /\ UNCHANGED <<s1, s4, s5>>
      BY <1>7 DEF Executor!Timeout
    <2>2. Honest(h)
      BY DEF Honest, Executor!Outcome
    <2>3. DOMAIN pending \subseteq DOMAIN s2.pending /\ \A j \in DOMAIN pending : pending[j] = s2.pending[j]
      BY <1>w
    <2> HIDE DEF pending, stage, h
    <2>4. /\ DOMAIN s2' = {"stage", "sequence", "pending", "buffer"} /\ s2'.sequence = s2.sequence
          /\ s2'.pending = pending /\ s2'.buffer = s2.buffer
      BY <2>1, <1>i DEF StreamShape
    <2>5. StreamShape(s2') /\ Follows(s2, s2')
      BY <2>3, <2>4, <1>i DEF StreamShape, Follows
    <2> QED BY <2>1, <2>2, <2>4, <2>5, <1>i, StillInStream DEF ExecutorInv
  <1>8. CASE Executor!SocketCloses \/ Executor!InvalidFrame
    <2>1. PICK says \in {"unknown", "invalid", "closing"} : Executor!Fails(says, s2)
      BY <1>8 DEF Executor!SocketCloses, Executor!InvalidFrame
    <2>2. s4' = Executor!Quiet /\ UNCHANGED <<s1, s3, s5>>
      BY <1>8 DEF Executor!SocketCloses, Executor!InvalidFrame
    <2>3. /\ StreamShape(s2') /\ Follows(s2, s2') /\ s2'.buffer = s2.buffer
          /\ \A h \in s6' : Honest(h)
      BY <2>1, <1>i, FailsKeeps DEF InStream
    <2> DEFINE Q == Executor!Quiet
    <2>4. InStream(s2, s1, Q)
      <3>1. Q.out = <<>> /\ Q.in = <<>> /\ DOMAIN Q = {"out", "in"}
        BY DEF Executor!Quiet
      <3>2. \A S : <<>> \in Seq(S)
        OBVIOUS
      <3> QED BY <3>1, <3>2, <1>i DEF InStream
    <2> HIDE DEF Q
    <2>5. InStream(s2', s1, Q)
      BY <2>3, <2>4, <1>i, StillInStream
    <2> QED BY <2>2, <2>3, <2>5, <1>i DEF ExecutorInv, Q
  <1>9. CASE Executor!Ends
    BY <1>9, <1>i, <1>q, NoStreamHolds DEF Executor!Ends
  <1>r. ASSUME NEW n \in 1 .. Len(s4.in), Executor!Receive(n) PROVE ExecutorInv'
    <2> DEFINE head == SubSeq(s4.in, 1, n)
               b == s2.buffer \o head
               rest == SubSeq(s4.in, n + 1, Len(s4.in))
               left == IF Len(b) < 2 THEN b ELSE SubSeq(b, 3, Len(b))
               s == [s2 EXCEPT !.buffer = left]
    <2>1. /\ s4' = [s4 EXCEPT !.in = rest] /\ UNCHANGED <<s1, s3, s5>>
          /\ IF Len(b) < 2 THEN s2' = s /\ s6' = s6
             ELSE IF b[1].of.id = 0 THEN Executor!Fails("closing", s)
             ELSE s2' = Executor!Take(s, b[1].of, s6).stream /\ s6' = Executor!Take(s, b[1].of, s6).heard
      BY <1>r, Zenon DEF Executor!Receive
    <2>2. s4.in \in Seq(Ins(s2)) /\ Len(s4.in) \in Nat /\ n \in Nat /\ n >= 1 /\ n <= Len(s4.in)
      BY <1>i DEF InStream
    <2>3. head \in Seq(Ins(s2)) /\ rest \in Seq(Ins(s2))
      <3>1. \A j \in 1 .. Len(s4.in) : s4.in[j] \in Ins(s2)
        BY <2>2, ElementOfSeq
      <3>2. \A j \in 1 .. n : s4.in[j] \in Ins(s2)
        BY <3>1, <2>2
      <3>3. \A j \in n + 1 .. Len(s4.in) : s4.in[j] \in Ins(s2)
        BY <3>1, <2>2
      <3>4. head \in Seq(Ins(s2))
        BY <3>2, <2>2, SubSeqProperties
      <3>5. rest \in Seq(Ins(s2))
        BY <3>3, <2>2, SubSeqProperties
      <3> QED BY <3>4, <3>5
    <2>4. b \in Seq(Ins(s2)) /\ Len(b) \in Nat
      BY <2>3, <1>i, ConcatProperties DEF InStream
    <2>5. left \in Seq(Ins(s2))
      <3>1. \A j \in 3 .. Len(b) : b[j] \in Ins(s2)
        BY <2>4, ElementOfSeq
      <3>2. SubSeq(b, 3, Len(b)) \in Seq(Ins(s2))
        BY <3>1, <2>4, SubSeqProperties
      <3> QED BY <3>2, <2>4
    <2>6. Len(b) >= 2 => b[1] \in Ins(s2)
      BY <2>4, ElementOfSeq
    <2> HIDE DEF head, b, rest, left
    <2>7. /\ DOMAIN s = {"stage", "sequence", "pending", "buffer"} /\ s.sequence = s2.sequence
          /\ s.pending = s2.pending /\ s.buffer = left
      BY <1>i DEF StreamShape
    <2>8. StreamShape(s) /\ Follows(s2, s)
      BY <2>7, <1>i DEF StreamShape, Follows
    <2> HIDE DEF s
    <2>9. s.buffer \in Seq(Ins(s)) /\ rest \in Seq(Ins(s)) /\ s4.out \in Seq(Outs(s, s1))
      BY <2>3, <2>5, <2>7, <2>8, <1>i, StreamFollows DEF InStream
    <2>10. DOMAIN s4' = {"out", "in"} /\ s4'.out = s4.out /\ s4'.in = rest
      BY <2>1, <1>i DEF InStream
    <2>11. ASSUME StreamShape(s2'), Follows(s, s2'), s2'.buffer = s.buffer, \A h \in s6' : Honest(h)
           PROVE  ExecutorInv'
      BY <2>1, <2>8, <2>9, <2>10, <2>11, <1>i, StreamFollows DEF ExecutorInv, InStream
    <2>12. CASE Len(b) < 2
      <3>1. Follows(s, s)
        BY <2>8 DEF Follows, StreamShape
      <3> QED BY <2>1, <2>8, <2>11, <2>12, <3>1, <1>i
    <2>13. CASE Len(b) >= 2 /\ b[1].of.id = 0
      BY <2>1, <2>4, <2>8, <2>9, <2>11, <2>13, FailsKeeps
    <2>14. CASE Len(b) >= 2 /\ b[1].of.id # 0
      <3> DEFINE f == b[1].of
                 r == s.pending[f.id]
                 pending == Executor!Without(s.pending, f.id)
                 stage == IF r.verb # "login" THEN s.stage ELSE IF f.ok THEN "open" ELSE "closed"
                 h == Executor!Outcome(r, f.id, IF f.ok THEN "reply" ELSE "error", f.op)
      <3>1. s2' = Executor!Take(s, f, s6).stream /\ s6' = Executor!Take(s, f, s6).heard
        BY <2>1, <2>4, <2>14
      <3>2. CASE f.id \notin DOMAIN s.pending
        <4>1. s2' = s /\ s6' = s6
          BY <3>1, <3>2 DEF Executor!Take
        <4>2. Follows(s, s)
          BY <2>8 DEF Follows, StreamShape
        <4> QED BY <4>1, <4>2, <2>8, <2>11, <1>i
      <3>3. CASE f.id \in DOMAIN s.pending
        <4>1. s2' = [s EXCEPT !.pending = pending, !.stage = stage] /\ s6' = s6 \cup {h}
          BY <3>1, <3>3 DEF Executor!Take
        <4>2. r.op = f.op
          BY <2>6, <2>7, <2>14, <3>3 DEF Ins, OfRequest
        <4>3. Honest(h)
          BY <4>2 DEF Honest, Executor!Outcome
        <4>4. DOMAIN pending \subseteq DOMAIN s.pending /\ \A j \in DOMAIN pending : pending[j] = s.pending[j]
          BY <1>w
        <4> HIDE DEF pending, stage, h
        <4>5. /\ DOMAIN s2' = {"stage", "sequence", "pending", "buffer"} /\ s2'.sequence = s.sequence
              /\ s2'.pending = pending /\ s2'.buffer = s.buffer
          BY <4>1, <2>8 DEF StreamShape
        <4>6. StreamShape(s2') /\ Follows(s, s2')
          BY <4>4, <4>5, <2>8 DEF StreamShape, Follows
        <4> QED BY <4>1, <4>3, <4>5, <4>6, <2>11, <1>i
      <3> QED BY <3>2, <3>3
    <2> QED BY <2>4, <2>12, <2>13, <2>14
  <1>f. ASSUME NEW frame \in [id : Nat, op : Ops, ok : BOOLEAN], OfRequest(s2, frame.id, frame.op)
        PROVE  s4.in \o Executor!Frame(frame) \in Seq(Ins(s2))
    <2>1. \A k \in {1, 2} : [of |-> frame, half |-> k] \in Ins(s2)
      BY <1>f DEF Ins
    <2>2. Executor!Frame(frame) \in Seq(Ins(s2))
      BY <2>1 DEF Executor!Frame
    <2> QED BY <2>2, <1>i, ConcatProperties DEF InStream
  <1>10. ASSUME NEW ok \in BOOLEAN, NEW k \in 1 .. Len(s4.out), Executor!Serve(k, ok) PROVE ExecutorInv'
    <2> DEFINE q == s4.out[k]
               frame == [id |-> q.id, op |-> q.op, ok |-> ok]
               out == SubSeq(s4.out, 1, k - 1) \o SubSeq(s4.out, k + 1, Len(s4.out))
    <2>1. /\ s4' = [out |-> out, in |-> s4.in \o Executor!Frame(frame)] /\ UNCHANGED <<s1, s2, s3, s6>>
          /\ s5' = s5 \/ (q.verb = "exec" /\ s5' = s5 \cup {q.op})
      BY <1>10 DEF Executor!Serve, Executor!Answered
    <2>2. \A j \in 1 .. Len(s4.out) : s4.out[j] \in Outs(s2, s1)
      BY <1>i, ElementOfSeq DEF InStream
    <2>3. Len(s4.out) \in Nat /\ k \in Nat
      BY <1>i DEF InStream
    <2>4. out \in Seq(Outs(s2, s1))
      <3>1. \A j \in 1 .. k - 1 : s4.out[j] \in Outs(s2, s1)
        BY <2>2, <2>3
      <3>2. \A j \in k + 1 .. Len(s4.out) : s4.out[j] \in Outs(s2, s1)
        BY <2>2, <2>3
      <3>3. SubSeq(s4.out, 1, k - 1) \in Seq(Outs(s2, s1))
        BY <3>1, <2>3, SubSeqProperties
      <3>4. SubSeq(s4.out, k + 1, Len(s4.out)) \in Seq(Outs(s2, s1))
        BY <3>2, <2>3, SubSeqProperties
      <3> QED BY <3>3, <3>4, ConcatProperties
    <2>5. q \in Outs(s2, s1)
      BY <2>2
    <2>6. s4.in \o Executor!Frame(frame) \in Seq(Ins(s2))
      <3>1. frame \in [id : Nat, op : Ops, ok : BOOLEAN] /\ OfRequest(s2, frame.id, frame.op)
        BY <2>5 DEF Outs
      <3> HIDE DEF frame
      <3> QED BY <3>1, <1>f
    <2>7. s5' \subseteq s1
      BY <2>1, <2>5, <1>i DEF Outs
    <2> DEFINE in == s4.in \o Executor!Frame(frame)
    <2> HIDE DEF in, out
    <2>8. s4' = [out |-> out, in |-> in]
      BY <2>1 DEF in
    <2>9. in \in Seq(Ins(s2))
      BY <2>6 DEF in
    <2>10. DOMAIN s4' = {"out", "in"} /\ s4'.out = out /\ s4'.in = in
      BY <2>8
    <2> QED BY <2>1, <2>4, <2>7, <2>9, <2>10, <1>i DEF ExecutorInv, InStream
  <1>11. CASE Executor!Dies
    <2>1. /\ s4.out # <<>> /\ s4' = [s4 EXCEPT !.out = Tail(s4.out)] /\ UNCHANGED <<s1, s2, s3, s6>>
          /\ s5' = s5 \/ (s4.out[1].verb = "exec" /\ s5' = s5 \cup {s4.out[1].op})
      BY <1>11 DEF Executor!Dies
    <2>2. s4.out \in Seq(Outs(s2, s1)) /\ Tail(s4.out) \in Seq(Outs(s2, s1))
      BY <2>1, <1>i, HeadTailProperties DEF InStream
    <2>3. s4.out[1] \in Outs(s2, s1)
      BY <2>1, <2>2
    <2>4. s5' \subseteq s1
      BY <2>1, <2>3, <1>i DEF Outs
    <2>5. DOMAIN s4' = {"out", "in"} /\ s4'.out = Tail(s4.out) /\ s4'.in = s4.in
      BY <2>1, <1>i DEF InStream
    <2> QED BY <2>1, <2>2, <2>4, <2>5, <1>i DEF ExecutorInv, InStream
  <1>12. CASE Executor!Closing
    <2> DEFINE frame == [id |-> 0, op |-> "none", ok |-> FALSE]
               in == s4.in \o Executor!Frame(frame)
    <2>1. s4' = [s4 EXCEPT !.in = in] /\ UNCHANGED <<s1, s2, s3, s5, s6>>
      BY <1>12 DEF Executor!Closing
    <2>2. frame \in [id : Nat, op : Ops, ok : BOOLEAN] /\ OfRequest(s2, frame.id, frame.op)
      BY <1>i DEF Ops, OfRequest, StreamShape
    <2> HIDE DEF frame
    <2>3. in \in Seq(Ins(s2))
      BY <2>2, <1>f
    <2> HIDE DEF in
    <2>4. DOMAIN s4' = {"out", "in"} /\ s4'.out = s4.out /\ s4'.in = in
      BY <2>1, <1>i DEF InStream
    <2> QED BY <2>1, <2>3, <2>4, <1>i DEF ExecutorInv, InStream
  <1> QED BY <1>1, <1>2, <1>3, <1>4, <1>5, <1>6, <1>7, <1>8, <1>9, <1>r, <1>10, <1>11, <1>12 DEF Executor!Next

\* Each request of a stream waits, or was heard of, once; nobody waits before the login is
\* asked for, or on a closed stream, and only the login waits before the stream is open.
Settled(st, hs) ==
  /\ DOMAIN st.pending \cup {h.id : h \in hs} = 1 .. st.sequence
  /\ \A h \in hs : h.id \notin DOMAIN st.pending /\ \A g \in hs : g.id = h.id => g = h
  /\ st.stage \in {"opening", "login"} => st.sequence = 0
  /\ st.stage = "loggingIn" => DOMAIN st.pending \subseteq {1}
  /\ st.stage = "open" => \A i \in DOMAIN st.pending : st.pending[i].verb # "login"
  /\ st.stage \notin {"loggingIn", "open"} => DOMAIN st.pending = {}
SettledInv == StreamShape(s2) /\ Settled(s2, s6)

\* A stream begins with nothing asked.
LEMMA SettlesAtFirst ==
  ASSUME NEW st, st.sequence = 0, st.pending = <<>>, st.stage \notin {"loggingIn", "open"}
  PROVE  Settled(st, {})
  <1>1. DOMAIN st.pending = {} /\ 1 .. st.sequence = {}
    OBVIOUS
  <1> QED BY <1>1 DEF Settled

\* The executor's two ends start with nothing asked.
LEMMA SettledInit == Executor!Init => SettledInv
  BY NoStreamHolds, SettlesAtFirst DEF Executor!Init, Executor!NoStream, SettledInv

\* A request waits under a number that was not given before.
LEMMA RequestedSettles ==
  ASSUME SettledInv, NEW r, Executor!Requested(r), s6' = s6,
         (r.verb = "login" /\ s2.stage = "login") \/ (r.verb # "login" /\ s2.stage = "open")
  PROVE  Settled(s2', s6')
  <1> DEFINE id == s2.sequence + 1
             pending == [j \in DOMAIN s2.pending \cup {id} |-> IF j = id THEN r ELSE s2.pending[j]]
             stage == IF r.verb = "login" THEN "loggingIn" ELSE s2.stage
  <1>1. s2' = [s2 EXCEPT !.sequence = id, !.pending = pending, !.stage = stage]
    BY DEF Executor!Requested, Executor!NextNumber, Executor!Ids
  <1>2. StreamShape(s2) /\ Settled(s2, s6) /\ s2.sequence \in Nat
    BY DEF SettledInv, StreamShape
  <1>3. /\ DOMAIN pending = DOMAIN s2.pending \cup {id} /\ pending[id] = r
        /\ \A j \in DOMAIN s2.pending : j # id => pending[j] = s2.pending[j]
    OBVIOUS
  <1>4. s2'.sequence = id /\ s2'.pending = pending /\ s2'.stage = stage
    BY <1>1, <1>2 DEF StreamShape
  <1> HIDE DEF pending
  <1>5. DOMAIN s2'.pending \cup {h.id : h \in s6'} = 1 .. s2'.sequence
    <2>1. 1 .. id = 1 .. s2.sequence \cup {id}
      BY <1>2
    <2> QED BY <1>2, <1>3, <1>4, <2>1 DEF Settled
  <1>6. \A h \in s6' : h.id \notin DOMAIN s2'.pending /\ \A g \in s6' : g.id = h.id => g = h
    <2>1. \A h \in s6 : h.id \in 1 .. s2.sequence
      BY <1>2 DEF Settled
    <2>2. \A h \in s6 : h.id # id
      BY <2>1, <1>2
    <2> QED BY <1>2, <1>3, <1>4, <2>2 DEF Settled
  <1>7. CASE r.verb = "login" /\ s2.stage = "login"
    <2>1. s2.sequence = 0 /\ DOMAIN s2.pending = {} /\ stage = "loggingIn" /\ id = 1
      BY <1>2, <1>7 DEF Settled
    <2> QED BY <1>3, <1>4, <1>5, <1>6, <2>1 DEF Settled
  <1>8. CASE r.verb # "login" /\ s2.stage = "open"
    <2>1. stage = "open" /\ \A i \in DOMAIN s2.pending : s2.pending[i].verb # "login"
      BY <1>2, <1>8 DEF Settled
    <2> QED BY <1>3, <1>4, <1>5, <1>6, <1>8, <2>1 DEF Settled
  <1> QED BY <1>7, <1>8

\* One request is settled.
LEMMA OneSettles ==
  ASSUME NEW st, NEW hs, Settled(st, hs), NEW id \in DOMAIN st.pending,
         NEW su, NEW h, h.id = id, su.pending = Executor!Without(st.pending, id), su.sequence = st.sequence,
         \/ su.stage = st.stage
         \/ st.stage = "loggingIn" /\ su.stage \in {"none", "open", "closed"}
  PROVE  Settled(su, hs \cup {h})
  <1>1. /\ DOMAIN su.pending = DOMAIN st.pending \ {id}
        /\ \A j \in DOMAIN su.pending : su.pending[j] = st.pending[j]
    BY DEF Executor!Without
  <1>2. DOMAIN su.pending \cup {g.id : g \in hs \cup {h}} = 1 .. su.sequence
    <2>1. {g.id : g \in hs \cup {h}} = {g.id : g \in hs} \cup {id}
      OBVIOUS
    <2> QED BY <1>1, <2>1 DEF Settled
  <1>3. \A g \in hs \cup {h} : g.id \notin DOMAIN su.pending /\ \A k \in hs \cup {h} : k.id = g.id => k = g
    <2>1. \A g \in hs : g.id # id
      BY DEF Settled
    <2> QED BY <1>1, <2>1 DEF Settled
  <1>4. CASE su.stage = st.stage
    BY <1>1, <1>2, <1>3, <1>4 DEF Settled
  <1>5. CASE st.stage = "loggingIn" /\ su.stage \in {"none", "open", "closed"}
    <2>1. DOMAIN su.pending = {}
      BY <1>1, <1>5 DEF Settled
    <2> QED BY <1>2, <1>3, <1>5, <2>1 DEF Settled
  <1> QED BY <1>4, <1>5

\* All that wait are settled, and the stream is closed.
LEMMA EverybodySettles ==
  ASSUME NEW s, StreamShape(s), Settled(s, s6), NEW says, Executor!Fails(says, s)
  PROVE  StreamShape(s2') /\ Settled(s2', s6')
  <1> DEFINE O(i) == Executor!Outcome(s.pending[i], i, says, "none")
             told == {O(i) : i \in DOMAIN s.pending}
  <1>1. s2' = [s EXCEPT !.stage = "closed", !.pending = <<>>] /\ s6' = s6 \cup told
    BY DEF Executor!Fails
  <1>2. DOMAIN s2' = {"stage", "sequence", "pending", "buffer"} /\ s2'.pending = <<>> /\ s2'.sequence = s.sequence
        /\ s2'.stage = "closed"
    BY <1>1 DEF StreamShape
  <1>0. \A i : O(i).id = i
    BY DEF Executor!Outcome
  <1> HIDE DEF O
  <1>3. {h.id : h \in told} = DOMAIN s.pending
    BY <1>0
  <1>4. \A g, h \in told : g.id = h.id => g = h
    BY <1>0
  <1> HIDE DEF told
  <1>5. DOMAIN s2'.pending = {}
    BY <1>2
  <1>6. {h.id : h \in s6'} = DOMAIN s.pending \cup {h.id : h \in s6}
    BY <1>1, <1>3
  <1>7. \A g, h \in s6' : g.id = h.id => g = h
    <2>1. \A g \in s6, h \in told : g.id # h.id
      BY <1>3 DEF Settled
    <2> QED BY <1>1, <1>4, <2>1 DEF Settled
  <1>8. DOMAIN s2'.pending \cup {h.id : h \in s6'} = 1 .. s2'.sequence
    BY <1>2, <1>5, <1>6 DEF Settled
  <1>9. Settled(s2', s6')
    BY <1>2, <1>5, <1>7, <1>8 DEF Settled
  <1>10. s2'.sequence \in Nat
    BY <1>2 DEF StreamShape
  <1>11. StreamShape(s2')
    <2>1. DOMAIN s2'.pending \subseteq 1 .. s2'.sequence
      BY <1>5
    <2> QED BY <1>2, <1>10, <2>1 DEF StreamShape
  <1> QED BY <1>9, <1>11

\* Every step of the command, its socket and the executor settles what it ends, once.
LEMMA SettledNext == ExecutorInv /\ SettledInv /\ Executor!Next => SettledInv'
  <1> SUFFICES ASSUME ExecutorInv, SettledInv, Executor!Next, ExecutorInv' PROVE Settled(s2', s6')
    BY ExecutorNext DEF SettledInv, ExecutorInv
  <1>i. StreamShape(s2) /\ Settled(s2, s6) /\ DOMAIN s2 = {"stage", "sequence", "pending", "buffer"}
    BY DEF SettledInv, StreamShape
  <1>1. ASSUME UNCHANGED <<s2, s6>> PROVE Settled(s2', s6')
    BY <1>1, <1>i
  <1>2. ASSUME NEW matches \in BOOLEAN, Executor!Connect(matches) PROVE Settled(s2', s6')
    <2>1. s2' = [Executor!NoStream EXCEPT !.stage = "opening"] \/ s2' = Executor!NoStream
      BY <1>2 DEF Executor!Connect
    <2>2. s2'.sequence = 0 /\ s2'.pending = <<>> /\ s2'.stage \in {"opening", "none"}
      BY <2>1 DEF Executor!NoStream
    <2> QED BY <1>2, <2>2, SettlesAtFirst DEF Executor!Connect
  <1>3. ASSUME NEW ok \in BOOLEAN, Executor!Ready(ok) PROVE Settled(s2', s6')
    <2> DEFINE stage == IF ok THEN "login" ELSE "none"
    <2>1. s2.stage = "opening" /\ s2' = [s2 EXCEPT !.stage = stage] /\ s6' = s6
      BY <1>3 DEF Executor!Ready, Executor!Goes
    <2>2. s2'.stage \in {"login", "none"} /\ s2'.sequence = s2.sequence /\ s2'.pending = s2.pending
      BY <2>1, <1>i
    <2> QED BY <2>1, <2>2, <1>i DEF Settled
  <1>4. CASE Executor!Login
    BY <1>4, RequestedSettles DEF Executor!Login
  <1>5. ASSUME NEW op \in Operations, Executor!Dispatch(op) PROVE Settled(s2', s6')
    BY <1>5, RequestedSettles DEF Executor!Dispatch
  <1>6. ASSUME NEW op \in Operations, Executor!Query(op) PROVE Settled(s2', s6')
    BY <1>6, RequestedSettles DEF Executor!Query
  <1>7. ASSUME NEW id \in Executor!Ids, Executor!Timeout(id) PROVE Settled(s2', s6')
    <2> DEFINE pending == Executor!Without(s2.pending, id)
               stage == IF s2.stage = "loggingIn" THEN "none" ELSE s2.stage
               h == Executor!Outcome(s2.pending[id], id, "unknown", "none")
    <2>1. s2' = [s2 EXCEPT !.pending = pending, !.stage = stage] /\ s6' = s6 \cup {h}
      BY <1>7 DEF Executor!Timeout
    <2>2. h.id = id /\ id \in DOMAIN s2.pending
      BY <1>7 DEF Executor!Outcome, Executor!Ids
    <2> HIDE DEF h
    <2>3. s2'.sequence = s2.sequence /\ s2'.pending = Executor!Without(s2.pending, id) /\ s2'.stage = stage
      BY <2>1, <1>i
    <2>4. s2'.stage = s2.stage \/ (s2.stage = "loggingIn" /\ s2'.stage \in {"none", "open", "closed"})
      BY <2>3
    <2>5. Settled(s2', s6 \cup {h})
      BY <2>2, <2>3, <2>4, <1>i, OneSettles
    <2> QED BY <2>1, <2>5
  <1>8. CASE Executor!SocketCloses \/ Executor!InvalidFrame
    <2>1. PICK says : Executor!Fails(says, s2)
      BY <1>8 DEF Executor!SocketCloses, Executor!InvalidFrame
    <2> QED BY <2>1, <1>i, EverybodySettles
  <1>9. CASE Executor!Ends
    BY <1>9, SettlesAtFirst DEF Executor!Ends, Executor!NoStream
  <1>r. ASSUME NEW n \in 1 .. Len(s4.in), Executor!Receive(n) PROVE Settled(s2', s6')
    <2> DEFINE b == s2.buffer \o SubSeq(s4.in, 1, n)
               left == IF Len(b) < 2 THEN b ELSE SubSeq(b, 3, Len(b))
               s == [s2 EXCEPT !.buffer = left]
    <2>1. IF Len(b) < 2 THEN s2' = s /\ s6' = s6
          ELSE IF b[1].of.id = 0 THEN Executor!Fails("closing", s)
          ELSE s2' = Executor!Take(s, b[1].of, s6).stream /\ s6' = Executor!Take(s, b[1].of, s6).heard
      BY <1>r, Zenon DEF Executor!Receive
    <2> HIDE DEF b, left
    <2>2. DOMAIN s = {"stage", "sequence", "pending", "buffer"} /\ s.sequence = s2.sequence /\ s.pending = s2.pending
          /\ s.stage = s2.stage
      BY <1>i
    <2> HIDE DEF s
    <2>3. StreamShape(s) /\ Settled(s, s6)
      BY <2>2, <1>i DEF StreamShape, Settled
    <2>4. CASE s2' = s /\ s6' = s6
      BY <2>3, <2>4
    <2>5. CASE Executor!Fails("closing", s)
      <3> HIDE DEF SettledInv
      <3> QED BY <2>3, <2>5, EverybodySettles
    <2>6. CASE s2' = Executor!Take(s, b[1].of, s6).stream /\ s6' = Executor!Take(s, b[1].of, s6).heard
      <3> DEFINE f == b[1].of
                 r == s.pending[f.id]
                 stage == IF r.verb # "login" THEN s.stage ELSE IF f.ok THEN "open" ELSE "closed"
                 h == Executor!Outcome(r, f.id, IF f.ok THEN "reply" ELSE "error", f.op)
      <3>1. CASE f.id \notin DOMAIN s.pending
        BY <2>3, <2>6, <3>1 DEF Executor!Take
      <3>2. CASE f.id \in DOMAIN s.pending
        <4>1. s2' = [s EXCEPT !.pending = Executor!Without(s.pending, f.id), !.stage = stage] /\ s6' = s6 \cup {h}
          BY <2>6, <3>2 DEF Executor!Take
        <4>2. h.id = f.id
          BY DEF Executor!Outcome
        <4> HIDE DEF h
        <4>3. s2'.sequence = s.sequence /\ s2'.pending = Executor!Without(s.pending, f.id) /\ s2'.stage = stage
          BY <4>1, <2>2
        <4>4. s.stage \in {"loggingIn", "open"}
          BY <1>r, <2>2 DEF Executor!Receive
        <4>5. r.verb = "login" => s.stage = "loggingIn"
          BY <3>2, <4>4, <2>3 DEF Settled
        <4>6. s2'.stage = s.stage \/ (s.stage = "loggingIn" /\ s2'.stage \in {"none", "open", "closed"})
          BY <4>3, <4>5
        <4> HIDE DEF f
        <4>7. Settled(s2', s6 \cup {h})
          BY <2>3, <3>2, <4>2, <4>3, <4>6, OneSettles
        <4> QED BY <4>1, <4>7
      <3> QED BY <3>1, <3>2
    <2> QED BY <2>1, <2>4, <2>5, <2>6
  <1>s. ASSUME \/ \E op \in Operations : Executor!SaveLocator(op)
               \/ \E ok \in BOOLEAN : \E k \in 1 .. Len(s4.out) : Executor!Serve(k, ok)
               \/ Executor!Dies \/ Executor!Closing
        PROVE  UNCHANGED <<s2, s6>>
    BY <1>s DEF Executor!SaveLocator, Executor!Serve, Executor!Dies, Executor!Closing
  <1> QED BY <1>1, <1>2, <1>3, <1>4, <1>5, <1>6, <1>7, <1>8, <1>9, <1>r, <1>s DEF Executor!Next

\* What the run checks of the executor's stream follows from the two invariants.
LEMMA ExecutorStates == ExecutorInv /\ SettledInv => Executor!OutcomesAreHonest
  BY DEF ExecutorInv, SettledInv, Settled, Honest, Executor!OutcomesAreHonest, Executor!Ids

\* A step that changes no variable keeps the executor's invariants.
LEMMA ExecutorStays == UNCHANGED all => (ExecutorInv => ExecutorInv') /\ (SettledInv => SettledInv')
  BY DEF all, from2, ExecutorInv, SettledInv

-----------------------------------------------------------------------------
(* AppInstall.                                                             *)

CommandFields ==
  {"n", "verb", "how", "plan", "at", "from", "digest", "staged", "present", "inspection", "shown", "sent", "approved",
   "kept", "warned", "result"}
Afterwards == {"wait", "release", "done"}

\* What install submits was inspected, is the plan it was given if any, and
\* was shown as it is; a package is inspected by its digest.
CommandShows(c) ==
  /\ c.at \notin Afterwards => c.sent = {}
  /\ c.at \in {"snapshot", "stage"} => c.inspection = {} /\ ~c.staged
  /\ c.verb = "install" =>
       /\ c.at \notin {"check", "status"}
       /\ c.at # "done" => c.from \in {"pikg", "url", "catalog"}
       /\ c.at = "again" => c.plan = {}
       /\ c.at \in {"confirm", "submit"} => c.plan = {} \/ c.plan = c.inspection
       /\ c.at = "submit" => c.shown = c.inspection
       /\ c.from # "catalog" => \A p \in c.inspection : p.version = c.digest
       /\ c.sent # {} => /\ c.sent = c.shown /\ c.approved = c.shown
                         /\ c.from # "catalog" => \A p \in c.sent : p.version = c.digest

\* A package is held from when it is staged until it is let go of.
CommandHolds(c, held) ==
  /\ \A l \in held : l \in Nat /\ l <= c.n
  /\ c.at # "done" => (c.staged <=> c.n \in held)
  /\ c.at \notin {"done", "wait"} => ~c.kept
  /\ c.at = "done" /\ c.n \in held => c.kept \/ c.warned \/ c.result \in {"unanswered", "PIKG_DIGEST_MISMATCH"}

\* A copy is of the command that takes it, and there is one at most.
CommandCopies(c, copies) ==
  \/ copies = {}
  \/ /\ c.at \in {"snapshot", "stage"} /\ (c.at = "snapshot" => c.digest # 0)
     /\ \E place : copies = {[n |-> c.n, place |-> place]}

InstallInv ==
  /\ s2 \in Nat \ {0}
  /\ DOMAIN s9 = CommandFields /\ s9.n \in Nat
  /\ CommandShows(s9) /\ CommandHolds(s9, s5) /\ CommandCopies(s9, s7)

\* What stays of a command when it goes on.
SameCommand(n, c) ==
  /\ DOMAIN n = CommandFields /\ n.n = c.n /\ n.verb = c.verb /\ n.plan = c.plan
  /\ n.staged = c.staged /\ n.kept = c.kept /\ n.sent = c.sent /\ n.approved = c.approved

\* A source is one of four kinds.
LEMMA SourceKinds ==
  ASSUME NEW a
  PROVE  Install!ClassifySource(a).kind \in {"catalog", "url", "pikg", "error"}
  <1> DEFINE raw == IF a.pikg # "" THEN a.pikg ELSE a.source
  <1>1. Install!ClassifySource(a) \in {Install!Failure("ARGUMENT_CONFLICT"), Install!Failure("MISSING_ARGUMENT"),
          Install!ParsePikgUrl(raw), [kind |-> "pikg", is |-> raw], Install!NormalizeCatalogIdentifier(raw),
          Install!Failure("INVALID_PIKG_SOURCE"), Install!Failure("PIKG_NOT_FOUND")}
    BY DEF Install!ClassifySource
  <1>2. Install!NormalizeCatalogIdentifier(raw).kind \in {"catalog", "error"}
    BY DEF Install!NormalizeCatalogIdentifier, Install!Failure
  <1>3. Install!ParsePikgUrl(raw).kind \in {"url", "error"}
    BY DEF Install!ParsePikgUrl, Install!Failure
  <1> HIDE DEF raw
  <1> QED BY <1>1, <1>2, <1>3 DEF Install!Failure

\* The commands about Apps start in their invariant.
LEMMA InstallInit == Install!Init => InstallInv
  <1> SUFFICES ASSUME Install!Init PROVE InstallInv
    OBVIOUS
  <1>1. /\ DOMAIN s9 = CommandFields /\ s9.n = 0 /\ s9.verb = "none" /\ s9.at = "done" /\ s9.inspection = {}
        /\ s9.sent = {}
    BY DEF Install!Init, Install!NoCommand, CommandFields
  <1>2. s2 = 1 /\ s5 = {} /\ s7 = {}
    BY DEF Install!Init
  <1> QED BY <1>1, <1>2 DEF InstallInv, CommandShows, CommandHolds, CommandCopies, Afterwards

\* The copies that are left go with the command's last one.
LEMMA LastCopyGoes == InstallInv => s7 \ Install!LastCopy = {}
  <1> SUFFICES ASSUME InstallInv, s7 # {} PROVE s7 \ Install!LastCopy = {}
    OBVIOUS
  <1>1. PICK place : s7 = {[n |-> s9.n, place |-> place]}
    BY DEF InstallInv, CommandCopies
  <1>2. CASE Install!Own \in s7
    BY <1>1, <1>2 DEF Install!LastCopy
  <1>3. CASE Install!Own \notin s7
    <2>1. Install!LastCopy = {s \in s7 : s.n = s9.n}
      BY <1>3 DEF Install!LastCopy
    <2> QED BY <1>1, <2>1
  <1> QED BY <1>2, <1>3

-----------------------------------------------------------------------------
\* A command that begins keeps the invariant.
LEMMA CommandBegins ==
  ASSUME InstallInv, s9.at = "done", UNCHANGED <<s2, s5, s7>>,
         NEW n, s9' = n, DOMAIN n = CommandFields, n.n = s9.n + 1, n.sent = {}, n.inspection = {}, n.staged = FALSE,
         n.kept = FALSE, n.at \in {"done", "snapshot", "inspect", "check", "status", "submit"},
         n.verb = "install" =>
           n.at = "done" \/ (n.at \in {"snapshot", "inspect"} /\ n.from \in {"pikg", "url", "catalog"})
  PROVE  InstallInv'
  <1>1. s7 = {} /\ s9.n \in Nat /\ \A l \in s5 : l \in Nat /\ l <= s9.n
    BY DEF InstallInv, CommandCopies, CommandHolds
  <1>2. n.n \notin s5 /\ \A l \in s5 : l <= n.n
    BY <1>1
  <1>3. CommandShows(n)
    BY DEF CommandShows, Afterwards
  <1>4. CommandHolds(n, s5)
    BY <1>1, <1>2 DEF CommandHolds
  <1> QED BY <1>1, <1>3, <1>4 DEF InstallInv, CommandCopies

\* It goes on, with what was staged and nothing submitted.
LEMMA CommandGoesOn ==
  ASSUME InstallInv, s9.at \notin Afterwards, UNCHANGED <<s2, s5>>, NEW n, s9' = n, SameCommand(n, s9),
         n.at \notin Afterwards, CommandShows(n), CommandCopies(n, s7')
  PROVE  InstallInv'
  BY DEF InstallInv, CommandHolds, SameCommand, Afterwards

\* It ends: what was staged is yet to be let go of.
LEMMA CommandEnds ==
  ASSUME InstallInv, s9.at \notin Afterwards, UNCHANGED <<s2, s5>>, s7' = {}, NEW n, s9' = n, SameCommand(n, s9),
         n.at = IF s9.staged /\ ~s9.kept THEN "release" ELSE "done",
         n.from = s9.from, n.digest = s9.digest, n.inspection = s9.inspection
  PROVE  InstallInv'
  <1>1. CommandShows(n)
    BY DEF InstallInv, CommandShows, SameCommand, Afterwards
  <1>2. CommandHolds(n, s5)
    BY DEF InstallInv, CommandHolds, SameCommand, Afterwards
  <1> QED BY <1>1, <1>2 DEF InstallInv, CommandCopies, SameCommand

\* How a command ends: the package it staged and did not use is let go first.
LEMMA EndIs ==
  ASSUME InstallInv, NEW result, NEW n, n = Install!End(result)
  PROVE  /\ SameCommand(n, s9) /\ n.at = (IF s9.staged /\ ~s9.kept THEN "release" ELSE "done")
         /\ n.from = s9.from /\ n.digest = s9.digest /\ n.inspection = s9.inspection
         /\ n.shown = s9.shown /\ n.result = result /\ n.warned = s9.warned
  <1>1. DOMAIN s9 = CommandFields
    BY DEF InstallInv
  <1>2. n = [s9 EXCEPT !.at = IF s9.staged /\ ~s9.kept THEN "release" ELSE "done", !.result = result]
    BY Zenon DEF Install!End
  <1> QED BY <1>1, <1>2 DEF SameCommand, CommandFields

\* A step of the command that ends it where nothing is copied.
LEMMA CommandIsOver ==
  ASSUME InstallInv, s9.at \notin Afterwards, UNCHANGED <<s2, s5>>, s7' = {}, NEW result, s9' = Install!End(result)
  PROVE  InstallInv'
  <1> DEFINE n == Install!End(result)
  <1>1. /\ SameCommand(n, s9) /\ n.at = (IF s9.staged /\ ~s9.kept THEN "release" ELSE "done")
        /\ n.from = s9.from /\ n.digest = s9.digest /\ n.inspection = s9.inspection
    BY EndIs
  <1>2. s9' = n
    OBVIOUS
  <1> HIDE DEF n
  <1> QED BY <1>1, <1>2, CommandEnds

\* Only a command that copies or stages a package has a copy of it.
LEMMA NoCopies == InstallInv /\ s9.at \notin {"snapshot", "stage"} => s7 = {}
  BY DEF InstallInv, CommandCopies

\* A fetch or an install that begins keeps the invariant.
LEMMA InstallStartsSourced ==
  ASSUME InstallInv, NEW verb \in {"fetch", "install"}, NEW how, NEW a, NEW withPlan \in BOOLEAN,
         Install!StartSourced(verb, how, a, withPlan)
  PROVE  InstallInv'
  <1> DEFINE s == Install!ClassifySource(a)
             c == [Install!NoCommand EXCEPT !.n = s9.n + 1, !.verb = verb, !.how = how, !.from = s.kind]
  <1>1. s9.at = "done" /\ UNCHANGED <<s2, s5, s7>>
    BY DEF Install!StartSourced, Install!serviceAndDisk, Install!world
  <1>2. \/ \E result : s9' = [c EXCEPT !.result = result]
        \/ \E plan : s.kind # "error" /\ s9' = [c EXCEPT !.plan = plan, !.at = Install!AfterSource(c)]
        \/ s.kind # "error" /\ s9' = [c EXCEPT !.at = Install!AfterSource(c)]
    BY Zenon DEF Install!StartSourced
  <1>3. /\ DOMAIN c = CommandFields /\ c.n = s9.n + 1 /\ c.sent = {} /\ c.inspection = {} /\ c.staged = FALSE
        /\ c.kept = FALSE /\ c.at = "done" /\ c.from = s.kind
    BY DEF Install!NoCommand, CommandFields
  <1>4. s.kind # "error" => c.from \in {"pikg", "url", "catalog"}
    BY <1>3, SourceKinds
  <1>5. Install!AfterSource(c) \in {"snapshot", "inspect"}
    BY DEF Install!AfterSource
  <1> HIDE DEF c, s
  <1>6. ASSUME NEW n, s9' = n, DOMAIN n = CommandFields, n.n = c.n, n.sent = c.sent, n.inspection = c.inspection,
               n.staged = c.staged, n.kept = c.kept, n.from = c.from,
               n.at = "done" \/ (s.kind # "error" /\ n.at = Install!AfterSource(c))
        PROVE  InstallInv'
    <2>1. /\ n.at \in {"done", "snapshot", "inspect"}
          /\ n.at = "done" \/ (n.at \in {"snapshot", "inspect"} /\ n.from \in {"pikg", "url", "catalog"})
      BY <1>4, <1>5, <1>6
    <2> QED BY <1>1, <1>3, <1>6, <2>1, CommandBegins
  <1>7. ASSUME NEW result, s9' = [c EXCEPT !.result = result] PROVE InstallInv'
    <2> DEFINE n == [c EXCEPT !.result = result]
    <2>1. /\ DOMAIN n = CommandFields /\ n.n = c.n /\ n.sent = c.sent /\ n.inspection = c.inspection
          /\ n.staged = c.staged /\ n.kept = c.kept /\ n.from = c.from /\ n.at = "done"
      BY <1>3 DEF CommandFields
    <2>2. s9' = n
      BY <1>7
    <2> HIDE DEF n
    <2> QED BY <1>6, <2>1, <2>2
  <1>8. ASSUME NEW plan, s.kind # "error", s9' = [c EXCEPT !.plan = plan, !.at = Install!AfterSource(c)] PROVE InstallInv'
    <2> DEFINE n == [c EXCEPT !.plan = plan, !.at = Install!AfterSource(c)]
    <2>1. /\ DOMAIN n = CommandFields /\ n.n = c.n /\ n.sent = c.sent /\ n.inspection = c.inspection
          /\ n.staged = c.staged /\ n.kept = c.kept /\ n.from = c.from /\ n.at = Install!AfterSource(c)
      BY <1>3 DEF CommandFields
    <2>2. s9' = n
      BY <1>8
    <2> HIDE DEF n
    <2> QED BY <1>6, <1>8, <2>1, <2>2
  <1>9. CASE s.kind # "error" /\ s9' = [c EXCEPT !.at = Install!AfterSource(c)]
    <2> DEFINE n == [c EXCEPT !.at = Install!AfterSource(c)]
    <2>1. /\ DOMAIN n = CommandFields /\ n.n = c.n /\ n.sent = c.sent /\ n.inspection = c.inspection
          /\ n.staged = c.staged /\ n.kept = c.kept /\ n.from = c.from /\ n.at = Install!AfterSource(c)
      BY <1>3 DEF CommandFields
    <2>2. s9' = n
      BY <1>9
    <2> HIDE DEF n
    <2> QED BY <1>6, <1>9, <2>1, <2>2
  <1> QED BY <1>2, <1>7, <1>8, <1>9

\* Any other command that begins keeps the invariant.
LEMMA InstallStartsOther ==
  ASSUME InstallInv, NEW verb \in Install!Verbs \ {"fetch", "install"}, NEW how, Install!StartOther(verb, how)
  PROVE  InstallInv'
  <1> DEFINE at == CASE verb \in {"upgrade", "upgrade_all"} -> "check"
                     [] verb = "uninstall" -> "status"
                     [] OTHER -> "submit"
             n == [Install!NoCommand EXCEPT !.n = s9.n + 1, !.verb = verb, !.how = how, !.at = at]
  <1>1. s9.at = "done" /\ UNCHANGED <<s2, s5, s7>>
    BY DEF Install!StartOther, Install!serviceAndDisk, Install!world
  <1>2. s9' = n
    BY Zenon DEF Install!StartOther
  <1>3. at \in {"check", "status", "submit"}
    OBVIOUS
  <1> HIDE DEF at
  <1>4. /\ DOMAIN n = CommandFields /\ n.n = s9.n + 1 /\ n.sent = {} /\ n.inspection = {} /\ n.staged = FALSE
        /\ n.kept = FALSE /\ n.at = at /\ n.verb = verb
    BY DEF Install!NoCommand, CommandFields
  <1> HIDE DEF n
  <1> QED BY <1>1, <1>2, <1>3, <1>4, CommandBegins

\* A call that fails ends its command and keeps the invariant.
LEMMA InstallCallFails ==
  ASSUME InstallInv, Install!CallFails PROVE InstallInv'
  <1>1. UNCHANGED <<s2, s5, s7>> /\ s9.at \in {"inspect", "find", "again", "check", "status", "submit"}
    BY DEF Install!CallFails, Install!serviceAndDisk, Install!world
  <1>2. s9.at \notin Afterwards /\ s7' = {}
    BY <1>1, NoCopies DEF Afterwards
  <1>3. \E result : s9' = Install!End(result)
    BY Zenon DEF Install!CallFails, Install!Ends
  <1> QED BY <1>1, <1>2, <1>3, CommandIsOver

-----------------------------------------------------------------------------
(* AppInstall: copies.                                                     *)

LEMMA InstallCopies ==
  ASSUME InstallInv, (\E place : Install!OpenPackage(place)) \/ Install!PermissionDenied
  PROVE  InstallInv'
  <1> DEFINE n == [s9 EXCEPT !.digest = s2]
  <1>1. UNCHANGED <<s2, s5>> /\ s9' = n /\ s9.at = "snapshot"
    BY DEF Install!OpenPackage, Install!PermissionDenied, Install!world
  <1>2. \E place : s7' = {[n |-> s9.n, place |-> place]}
    <2>1. CASE Install!PermissionDenied
      BY <2>1 DEF Install!PermissionDenied, Install!OwnCopy, Install!Own
    <2>2. ASSUME NEW place, Install!OpenPackage(place) PROVE s7' = {[n |-> s9.n, place |-> place]}
      <3>1. s7 = {}
        BY <2>2 DEF Install!OpenPackage, InstallInv, CommandCopies
      <3> QED BY <2>2, <3>1 DEF Install!OpenPackage
    <2> QED BY <2>1, <2>2
  <1>3. DOMAIN s9 = CommandFields /\ s2 # 0 /\ s9.inspection = {} /\ CommandShows(s9)
    BY <1>1 DEF InstallInv, CommandShows
  <1>4. /\ SameCommand(n, s9) /\ n.at = s9.at /\ n.digest = s2 /\ n.inspection = s9.inspection /\ n.from = s9.from
        /\ n.shown = s9.shown
    BY <1>3 DEF SameCommand, CommandFields
  <1> HIDE DEF n
  <1>5. CommandShows(n)
    BY <1>1, <1>3, <1>4 DEF CommandShows, SameCommand, Afterwards
  <1>6. CommandCopies(n, s7')
    BY <1>1, <1>2, <1>3, <1>4 DEF CommandCopies, SameCommand
  <1>7. s9.at \notin Afterwards /\ n.at \notin Afterwards
    BY <1>1, <1>4 DEF Afterwards
  <1> QED BY <1>1, <1>4, <1>5, <1>6, <1>7, CommandGoesOn

\* A copy of the package that was made, or could not be made, keeps the invariant.
LEMMA InstallCopied ==
  ASSUME InstallInv, Install!SnapshotDone \/ Install!SnapshotFails PROVE InstallInv'
  <1>1. UNCHANGED <<s2, s5>> /\ s9.at = "snapshot" /\ s9.at \notin Afterwards
    BY DEF Install!SnapshotDone, Install!SnapshotFails, Install!serviceAndDisk, Install!world, Afterwards
  <1>2. CASE Install!SnapshotDone
    <2> DEFINE n == [s9 EXCEPT !.at = "stage"]
    <2>1. s9' = n /\ s7' = s7 /\ DOMAIN s9 = CommandFields /\ CommandShows(s9) /\ CommandCopies(s9, s7)
      BY <1>2 DEF Install!SnapshotDone, Install!Goes, Install!serviceAndDisk, InstallInv
    <2>2. /\ SameCommand(n, s9) /\ n.at = "stage" /\ n.digest = s9.digest /\ n.inspection = s9.inspection
          /\ n.from = s9.from /\ n.shown = s9.shown
      BY <2>1 DEF SameCommand, CommandFields
    <2> HIDE DEF n
    <2>3. CommandShows(n) /\ CommandCopies(n, s7') /\ n.at \notin Afterwards
      BY <1>1, <2>1, <2>2 DEF CommandShows, CommandCopies, SameCommand, Afterwards
    <2> QED BY <1>1, <2>1, <2>2, <2>3, CommandGoesOn
  <1>3. CASE Install!SnapshotFails
    <2>1. s7' = {}
      BY <1>3, LastCopyGoes DEF Install!SnapshotFails
    <2>2. \E result : s9' = Install!End(result)
      BY <1>3, Zenon DEF Install!SnapshotFails, Install!Ends
    <2> QED BY <1>1, <2>1, <2>2, CommandIsOver
  <1> QED BY <1>2, <1>3

\* Every answer to a staging keeps the invariant.
LEMMA InstallStages ==
  ASSUME InstallInv, NEW answer \in {"staged", "unserved", "unanswered"} \cup Install!Refused, Install!Stage(answer)
  PROVE  InstallInv'
  <1>1. s9.at = "stage" /\ UNCHANGED s2 /\ s7' = {}
    BY LastCopyGoes DEF Install!Stage, Install!world
  <1>2. DOMAIN s9 = CommandFields /\ s9.n \in Nat /\ CommandShows(s9) /\ CommandHolds(s9, s5) /\ s2 \in Nat \ {0}
    BY DEF InstallInv
  <1>3. s5' = IF answer = "unserved" THEN s5 ELSE s5 \cup {s9.n}
    BY DEF Install!Stage
  <1>4. CASE answer = "staged"
    <2> DEFINE n == [s9 EXCEPT !.at = "inspect", !.staged = TRUE]
    <2>1. s9' = n
      BY <1>4, Zenon DEF Install!Stage
    <2>2. /\ DOMAIN n = CommandFields /\ n.n = s9.n /\ n.verb = s9.verb /\ n.plan = s9.plan /\ n.at = "inspect"
          /\ n.staged = TRUE /\ n.kept = s9.kept /\ n.sent = s9.sent /\ n.inspection = s9.inspection /\ n.from = s9.from
      BY <1>2 DEF CommandFields
    <2> HIDE DEF n
    <2>3. CommandShows(n)
      BY <1>1, <1>2, <2>2 DEF CommandShows, Afterwards
    <2>4. CommandHolds(n, s5')
      BY <1>1, <1>2, <1>3, <1>4, <2>2 DEF CommandHolds
    <2> QED BY <1>1, <1>2, <2>1, <2>2, <2>3, <2>4 DEF InstallInv, CommandCopies
  <1>5. CASE answer # "staged"
    <2> DEFINE n == [s9 EXCEPT !.at = "done", !.result = answer]
    <2>1. s9' = n
      BY <1>5, Zenon DEF Install!Stage
    <2>2. /\ DOMAIN n = CommandFields /\ n.n = s9.n /\ n.verb = s9.verb /\ n.plan = s9.plan /\ n.at = "done"
          /\ n.staged = s9.staged /\ n.kept = s9.kept /\ n.sent = s9.sent /\ n.inspection = s9.inspection
          /\ n.from = s9.from /\ n.result = answer
      BY <1>2 DEF CommandFields
    <2> HIDE DEF n
    <2>3. CommandShows(n)
      BY <1>1, <1>2, <2>2 DEF CommandShows, Afterwards
    <2>4. answer = "unserved" \/ answer \in {"unanswered", "PIKG_DIGEST_MISMATCH"}
      BY <1>5 DEF Install!Refused
    <2>5. answer = "unserved" => s9.n \notin s5
      BY <1>1, <1>2 DEF CommandHolds, CommandShows
    <2>6. \A l \in s5' : l \in Nat /\ l <= n.n
      BY <1>2, <1>3, <2>2 DEF CommandHolds
    <2>7. n.n \in s5' => n.result \in {"unanswered", "PIKG_DIGEST_MISMATCH"}
      BY <1>3, <2>2, <2>4, <2>5
    <2>8. CommandHolds(n, s5')
      BY <2>2, <2>6, <2>7 DEF CommandHolds
    <2> QED BY <1>1, <1>2, <2>1, <2>2, <2>3, <2>8 DEF InstallInv, CommandCopies
  <1> QED BY <1>4, <1>5

-----------------------------------------------------------------------------
(* AppInstall: inspection, confirmation and submission.                    *)

Inspects == {"inspect", "find", "again", "choose", "write", "check", "status", "confirm", "submit"}

\* It goes on where no copy is.
LEMMA CommandInspects ==
  ASSUME InstallInv, s9.at \in Inspects, UNCHANGED <<s2, s5, s7>>, NEW n, s9' = n, SameCommand(n, s9),
         n.at \in Inspects, CommandShows(n)
  PROVE  InstallInv'
  <1>1. s7' = {} /\ s9.at \notin Afterwards /\ n.at \notin Afterwards
    BY NoCopies DEF Inspects, Afterwards
  <1> QED BY <1>1, CommandGoesOn DEF CommandCopies

\* A command that stops before its plan is shown keeps the invariant.
LEMMA CommandStops ==
  ASSUME InstallInv, s9.at \in Inspects, UNCHANGED <<s2, s5, s7>>, NEW result, s9' = Install!End(result)
  PROVE  InstallInv'
  <1>1. s7' = {} /\ s9.at \notin Afterwards
    BY NoCopies DEF Inspects, Afterwards
  <1> QED BY <1>1, CommandIsOver

\* What it inspects is what it was told to, by its digest.
LEMMA CommandLooks ==
  ASSUME InstallInv, s9.at \in {"inspect", "again", "choose"}, UNCHANGED <<s2, s5, s7>>,
         NEW over, NEW portable, NEW p, p = Install!PlanFor(Install!SourceVersion, over, portable),
         NEW to \in Inspects, s9' = [s9 EXCEPT !.inspection = {p}, !.at = to],
         s9.verb = "install" => (s9.at = "again" /\ to = "confirm") \/ to \in {"choose", "find", "write"}
  PROVE  InstallInv'
  <1> DEFINE n == [s9 EXCEPT !.inspection = {p}, !.at = to]
  <1>1. DOMAIN s9 = CommandFields /\ CommandShows(s9)
    BY DEF InstallInv
  <1>2. /\ SameCommand(n, s9) /\ n.at = to /\ n.inspection = {p} /\ n.digest = s9.digest /\ n.from = s9.from
        /\ n.shown = s9.shown
    BY <1>1 DEF SameCommand, CommandFields
  <1>3. s9' = n
    OBVIOUS
  <1> HIDE DEF n
  <1>4. p.version = Install!SourceVersion
    BY DEF Install!PlanFor
  <1>5. s9.verb = "install" /\ s9.from # "catalog" => p.version = s9.digest
    BY <1>1, <1>4 DEF CommandShows, Install!SourceVersion
  <1>6. CommandShows(n)
    BY <1>1, <1>2, <1>5 DEF CommandShows, SameCommand, Afterwards, Inspects
  <1> QED BY <1>2, <1>3, <1>6, CommandInspects DEF Inspects

\* Nothing of it changes but where it is.
LEMMA CommandMoves ==
  ASSUME InstallInv, s9.at \in Inspects, UNCHANGED <<s2, s5, s7>>, NEW to \in Inspects, s9' = [s9 EXCEPT !.at = to],
         s9.verb = "install" =>
           \/ to = "again" /\ s9.plan = {}
           \/ to = "confirm" /\ s9.plan = s9.inspection
           \/ to \in {"choose", "write", "find"}
  PROVE  InstallInv'
  <1> DEFINE n == [s9 EXCEPT !.at = to]
  <1>1. DOMAIN s9 = CommandFields /\ CommandShows(s9)
    BY DEF InstallInv
  <1>2. /\ SameCommand(n, s9) /\ n.at = to /\ n.inspection = s9.inspection /\ n.digest = s9.digest
        /\ n.from = s9.from /\ n.shown = s9.shown
    BY <1>1 DEF SameCommand, CommandFields
  <1>3. s9' = n
    OBVIOUS
  <1> HIDE DEF n
  <1>4. CommandShows(n)
    BY <1>1, <1>2 DEF CommandShows, SameCommand, Afterwards, Inspects
  <1> QED BY <1>2, <1>3, <1>4, CommandInspects

\* A plan that is shown is the plan of what was inspected.
LEMMA InstallLooks ==
  ASSUME InstallInv, NEW p, Install!InspectSource(p) \/ Install!InspectUpgrade(p)
  PROVE  InstallInv'
  <1>1. UNCHANGED <<s2, s5, s7>>
    BY DEF Install!InspectSource, Install!InspectUpgrade, Install!serviceAndDisk, Install!world
  <1>2. s9.at \in {"inspect", "again"} /\ s9.at \in Inspects
    BY DEF Install!InspectSource, Install!InspectUpgrade, Inspects
  <1>3. ASSUME NEW result, s9' = Install!End(result) PROVE InstallInv'
    BY <1>1, <1>2, <1>3, CommandStops
  <1>4. CASE Install!InspectSource(p)
    <2>1. /\ p = Install!PlanFor(Install!SourceVersion, 0, p.portable)
          /\ \/ \E result : s9' = Install!End(result)
             \/ \E to \in {"choose", "find"} : s9' = [s9 EXCEPT !.inspection = {p}, !.at = to]
      BY <1>4, Zenon DEF Install!InspectSource, Install!Ends
    <2>2. ASSUME NEW to \in {"choose", "find"}, s9' = [s9 EXCEPT !.inspection = {p}, !.at = to] PROVE InstallInv'
      <3>1. to \in Inspects /\ to \in {"choose", "find", "write"}
        BY DEF Inspects
      <3> QED BY <1>1, <1>2, <2>1, <2>2, <3>1, CommandLooks
    <2> QED BY <1>3, <2>1, <2>2
  <1>5. CASE Install!InspectUpgrade(p)
    <2>1. /\ p = Install!PlanFor(Install!SourceVersion, s3, p.portable) /\ s9.at = "again"
          /\ \/ \E result : s9' = Install!End(result)
             \/ s9.verb = "upgrade" /\ s9' = [s9 EXCEPT !.inspection = {p}, !.at = "submit"]
             \/ s9' = [s9 EXCEPT !.inspection = {p}, !.at = "confirm"]
      BY <1>5, Zenon DEF Install!InspectUpgrade
    <2>2. "submit" \in Inspects /\ "confirm" \in Inspects
      BY DEF Inspects
    <2>3. CASE s9.verb = "upgrade" /\ s9' = [s9 EXCEPT !.inspection = {p}, !.at = "submit"]
      <3>1. s9.verb # "install"
        BY <2>3
      <3> QED BY <1>1, <1>2, <2>1, <2>2, <2>3, <3>1, CommandLooks
    <2>4. CASE s9' = [s9 EXCEPT !.inspection = {p}, !.at = "confirm"]
      BY <1>1, <1>2, <2>1, <2>2, <2>4, CommandLooks
    <2> QED BY <1>3, <2>1, <2>3, <2>4
  <1> QED BY <1>4, <1>5

\* Looking for the installed App keeps the invariant.
LEMMA InstallFinds ==
  ASSUME InstallInv, Install!FindInstalled PROVE InstallInv'
  <1>1. UNCHANGED <<s2, s5, s7>> /\ s9.at = "find" /\ s9.at \in Inspects
    BY DEF Install!FindInstalled, Install!serviceAndDisk, Install!world, Inspects
  <1>2. \/ \E result : s9' = Install!End(result)
        \/ s9.plan = s9.inspection /\ s9' = [s9 EXCEPT !.at = "confirm"]
        \/ s9.plan = {} /\ s9' = [s9 EXCEPT !.at = "again"]
    BY Zenon DEF Install!FindInstalled, Install!PlanMatches
  <1> QED BY <1>1, <1>2, CommandStops, CommandMoves DEF Inspects

\* Looking for newer versions, or at the state of an App to be removed, keeps the invariant.
LEMMA InstallChecks ==
  ASSUME InstallInv, Install!CheckUpgrades \/ Install!UninstallStatus PROVE InstallInv'
  <1>1. UNCHANGED <<s2, s5, s7>> /\ s9.at \in {"check", "status"} /\ s9.at \in Inspects
    BY DEF Install!CheckUpgrades, Install!UninstallStatus, Install!serviceAndDisk, Install!world, Inspects
  <1>2. \/ \E result : s9' = Install!End(result)
        \/ \E p : s9' = [s9 EXCEPT !.inspection = {p}, !.at = "confirm", !.from = "catalog"]
        \/ s9' = [s9 EXCEPT !.at = "confirm"]
    BY Zenon DEF Install!CheckUpgrades, Install!UninstallStatus, Install!Ends, Install!Goes
  <1>3. DOMAIN s9 = CommandFields /\ CommandShows(s9) /\ s9.verb # "install"
    BY <1>1 DEF InstallInv, CommandShows
  <1>4. ASSUME NEW p, s9' = [s9 EXCEPT !.inspection = {p}, !.at = "confirm", !.from = "catalog"] PROVE InstallInv'
    <2> DEFINE n == [s9 EXCEPT !.inspection = {p}, !.at = "confirm", !.from = "catalog"]
    <2>1. SameCommand(n, s9) /\ n.at = "confirm"
      BY <1>3 DEF SameCommand, CommandFields
    <2>2. s9' = n
      BY <1>4
    <2> HIDE DEF n
    <2>3. CommandShows(n)
      BY <1>1, <1>3, <2>1 DEF CommandShows, SameCommand, Afterwards
    <2> QED BY <1>1, <2>1, <2>2, <2>3, CommandInspects DEF Inspects
  <1> QED BY <1>1, <1>2, <1>3, <1>4, CommandStops, CommandMoves DEF Inspects

\* What the user chooses in a plan keeps the invariant.
LEMMA InstallChooses ==
  ASSUME InstallInv, NEW answer, NEW p, Install!FinalizePlanChoices(answer, p) PROVE InstallInv'
  <1>1. UNCHANGED <<s2, s5, s7>> /\ s9.at = "choose" /\ s9.at \in Inspects
    BY DEF Install!FinalizePlanChoices, Install!serviceAndDisk, Install!world, Inspects
  <1>2. p = Install!PlanFor(Install!SourceVersion, 0, p.portable)
    BY DEF Install!FinalizePlanChoices
  <1>3. \/ \E result : s9' = Install!End(result)
        \/ s9' = [s9 EXCEPT !.inspection = {p}, !.at = "write"]
        \/ s9' = [s9 EXCEPT !.at = "write"]
    BY Zenon DEF Install!FinalizePlanChoices
  <1>4. "write" \in Inspects /\ s9.at \in {"inspect", "again", "choose"} /\ "write" \in {"choose", "find", "write"}
    BY <1>1 DEF Inspects
  <1>5. CASE s9' = [s9 EXCEPT !.inspection = {p}, !.at = "write"]
    BY <1>1, <1>2, <1>4, <1>5, CommandLooks
  <1>6. CASE s9' = [s9 EXCEPT !.at = "write"]
    BY <1>1, <1>4, <1>6, CommandMoves
  <1> QED BY <1>1, <1>3, <1>5, <1>6, CommandStops

\* Writing a plan to a file keeps the invariant.
LEMMA InstallWrites ==
  ASSUME InstallInv, NEW agrees, NEW written, Install!WritePlanFile(agrees, written) PROVE InstallInv'
  <1>1. UNCHANGED <<s2, s5, s7>> /\ s9.at \in Inspects
    BY DEF Install!WritePlanFile, Install!world, Inspects
  <1>2. \E result : s9' = Install!End(result)
    BY Zenon DEF Install!WritePlanFile, Install!Ends
  <1> QED BY <1>1, <1>2, CommandStops

\* The user's word on a plan keeps the invariant.
LEMMA InstallConfirms ==
  ASSUME InstallInv, NEW yes, Install!ConfirmChange(yes) PROVE InstallInv'
  <1>1. UNCHANGED <<s2, s5, s7>> /\ s9.at = "confirm" /\ s9.at \in Inspects
    BY DEF Install!ConfirmChange, Install!serviceAndDisk, Install!world, Inspects
  <1>2. DOMAIN s9 = CommandFields /\ CommandShows(s9)
    BY DEF InstallInv
  <1>3. \/ s9' = [Install!End("CONFIRMATION_DECLINED") EXCEPT !.shown = s9.inspection]
        \/ \E to \in {"find", "submit"} :
             (s9.verb = "install" => to = "submit") /\ s9' = [s9 EXCEPT !.shown = s9.inspection, !.at = to]
    BY Zenon DEF Install!ConfirmChange
  <1>4. CASE s9' = [Install!End("CONFIRMATION_DECLINED") EXCEPT !.shown = s9.inspection]
    <2> DEFINE e == Install!End("CONFIRMATION_DECLINED")
               n == [e EXCEPT !.shown = s9.inspection]
    <2>1. /\ SameCommand(e, s9) /\ e.at = (IF s9.staged /\ ~s9.kept THEN "release" ELSE "done")
          /\ e.from = s9.from /\ e.digest = s9.digest /\ e.inspection = s9.inspection
      BY EndIs
    <2>2. s9' = n
      BY <1>4
    <2> HIDE DEF e
    <2>3. /\ SameCommand(n, s9) /\ n.at = (IF s9.staged /\ ~s9.kept THEN "release" ELSE "done")
          /\ n.from = s9.from /\ n.digest = s9.digest /\ n.inspection = s9.inspection
      BY <2>1 DEF SameCommand, CommandFields
    <2> HIDE DEF n
    <2>4. s7' = {} /\ s9.at \notin Afterwards
      BY <1>1, NoCopies DEF Afterwards
    <2> QED BY <1>1, <2>2, <2>3, <2>4, CommandEnds
  <1>5. ASSUME NEW to \in {"find", "submit"}, s9.verb = "install" => to = "submit",
               s9' = [s9 EXCEPT !.shown = s9.inspection, !.at = to]
        PROVE  InstallInv'
    <2> DEFINE n == [s9 EXCEPT !.shown = s9.inspection, !.at = to]
    <2>1. /\ SameCommand(n, s9) /\ n.at = to /\ n.inspection = s9.inspection /\ n.shown = s9.inspection
          /\ n.from = s9.from /\ n.digest = s9.digest
      BY <1>2 DEF SameCommand, CommandFields
    <2>2. s9' = n
      BY <1>5
    <2> HIDE DEF n
    <2>3. CommandShows(n)
      BY <1>1, <1>2, <1>5, <2>1 DEF CommandShows, SameCommand, Afterwards
    <2>4. n.at \in Inspects
      BY <1>5, <2>1 DEF Inspects
    <2> QED BY <1>1, <2>1, <2>2, <2>3, <2>4, CommandInspects
  <1> QED BY <1>3, <1>4, <1>5

\* What is submitted is what was shown.
LEMMA InstallSubmits ==
  ASSUME InstallInv, NEW answer, Install!Submit(answer) PROVE InstallInv'
  <1> DEFINE heard == IF Install!Planned /\ ~Install!Current(Install!Submitted) THEN "refused" ELSE Install!Heard(answer)
             e == Install!End(heard)
             n == [e EXCEPT !.sent = IF Install!Planned THEN Install!Submitted ELSE {},
                            !.approved = IF Install!Planned THEN s9.inspection ELSE {},
                            !.kept = heard \in {"started", "waits"},
                            !.at = CASE heard = "started" -> "done"
                                     [] heard = "waits" -> "wait"
                                     [] OTHER -> e.at]
  <1>1. UNCHANGED <<s2, s5, s7>> /\ s9.at = "submit"
    BY DEF Install!Submit, Install!world
  <1>2. s9' = n
    BY DEF Install!Submit
  <1>3. DOMAIN s9 = CommandFields /\ s9.n \in Nat /\ CommandShows(s9) /\ CommandHolds(s9, s5) /\ s2 \in Nat \ {0} /\ s7 = {}
    BY <1>1, NoCopies DEF InstallInv
  <1>4. /\ SameCommand(e, s9) /\ e.at = (IF s9.staged /\ ~s9.kept THEN "release" ELSE "done")
        /\ e.from = s9.from /\ e.digest = s9.digest /\ e.inspection = s9.inspection /\ e.shown = s9.shown
    BY EndIs
  <1> HIDE DEF heard, e
  <1>5. /\ DOMAIN n = CommandFields /\ n.n = s9.n /\ n.verb = s9.verb /\ n.staged = s9.staged
        /\ n.from = s9.from /\ n.digest = s9.digest /\ n.inspection = s9.inspection /\ n.shown = s9.shown
        /\ n.sent = (IF Install!Planned THEN Install!Submitted ELSE {})
        /\ n.approved = (IF Install!Planned THEN s9.inspection ELSE {})
        /\ n.kept = (heard \in {"started", "waits"})
        /\ n.at = CASE heard = "started" -> "done" [] heard = "waits" -> "wait" [] OTHER -> e.at
    BY <1>4 DEF SameCommand, CommandFields
  <1> HIDE DEF n
  <1>6. CommandShows(n)
    <2>1. n.at \in Afterwards
      BY <1>3, <1>4, <1>5 DEF Afterwards
    <2>2. n.verb = "install" => n.sent = s9.inspection /\ n.approved = s9.inspection /\ s9.shown = s9.inspection
      BY <1>1, <1>3, <1>5 DEF CommandShows, Install!Planned, Install!Submitted
    <2>3. n.verb = "install" => s9.from \in {"pikg", "url", "catalog"}
                                /\ (s9.from # "catalog" => \A p \in s9.inspection : p.version = s9.digest)
      BY <1>1, <1>3, <1>5 DEF CommandShows
    <2> QED BY <1>5, <2>1, <2>2, <2>3 DEF CommandShows, Afterwards
  <1>7. CommandHolds(n, s5)
    <2>1. ~s9.kept /\ (s9.staged <=> s9.n \in s5) /\ \A l \in s5 : l \in Nat /\ l <= s9.n
      BY <1>1, <1>3 DEF CommandHolds
    <2>2. CASE heard = "started"
      BY <1>5, <2>1, <2>2 DEF CommandHolds
    <2>3. CASE heard = "waits"
      BY <1>5, <2>1, <2>3 DEF CommandHolds
    <2>4. CASE heard \notin {"started", "waits"}
      BY <1>4, <1>5, <2>1, <2>4 DEF CommandHolds
    <2> QED BY <2>2, <2>3, <2>4
  <1>8. n.at \notin {"snapshot", "stage"}
    BY <1>4, <1>5
  <1> QED BY <1>1, <1>2, <1>3, <1>5, <1>6, <1>7, <1>8 DEF InstallInv, CommandCopies

\* The end of a task and the release of a package keep the invariant.
LEMMA InstallAfter ==
  ASSUME InstallInv, NEW how, Install!WaitOver(how) \/ (how \in BOOLEAN /\ Install!ReleaseStaging(how)) PROVE InstallInv'
  <1>1. DOMAIN s9 = CommandFields /\ s9.n \in Nat /\ CommandShows(s9) /\ CommandHolds(s9, s5) /\ s2 \in Nat \ {0}
    BY DEF InstallInv
  <1>2. UNCHANGED <<s2, s7>> /\ s9.at \in {"wait", "release"} /\ s7 = {}
    BY NoCopies DEF Install!WaitOver, Install!ReleaseStaging, Install!serviceAndDisk, Install!world
  <1>3. ASSUME NEW n, s9' = n, DOMAIN n = CommandFields, n.n = s9.n, CommandHolds(n, s5'), n.at \in {"release", "done"},
               n.verb = s9.verb, n.sent = s9.sent, n.approved = s9.approved, n.shown = s9.shown, n.from = s9.from,
               n.digest = s9.digest, n.inspection = s9.inspection
        PROVE  InstallInv'
    <2>1. CommandShows(n)
      BY <1>1, <1>2, <1>3 DEF CommandShows, Afterwards
    <2> QED BY <1>1, <1>2, <1>3, <2>1 DEF InstallInv, CommandCopies
  <1>4. CASE Install!WaitOver(how)
    <2> DEFINE n == [s9 EXCEPT !.kept = FALSE, !.result = how, !.at = IF s9.staged THEN "release" ELSE "done"]
    <2>1. s9' = n /\ s5' = s5 /\ s9.at = "wait"
      BY <1>4 DEF Install!WaitOver, Install!serviceAndDisk
    <2>2. /\ DOMAIN n = CommandFields /\ n.n = s9.n /\ n.at = (IF s9.staged THEN "release" ELSE "done")
          /\ n.verb = s9.verb /\ n.sent = s9.sent /\ n.approved = s9.approved /\ n.shown = s9.shown
          /\ n.from = s9.from /\ n.digest = s9.digest /\ n.inspection = s9.inspection /\ n.staged = s9.staged
          /\ n.kept = FALSE
      BY <1>1 DEF CommandFields
    <2> HIDE DEF n
    <2>3. CommandHolds(n, s5')
      BY <1>1, <2>1, <2>2 DEF CommandHolds
    <2>4. n.at \in {"release", "done"}
      BY <2>2
    <2> QED BY <1>3, <2>1, <2>2, <2>3, <2>4
  <1>5. CASE how \in BOOLEAN /\ Install!ReleaseStaging(how)
    <2> DEFINE n == [s9 EXCEPT !.at = "done", !.warned = ~how]
    <2>1. s9' = n /\ s5' = (IF how THEN s5 \ {s9.n} ELSE s5) /\ s9.at = "release"
      BY <1>5 DEF Install!ReleaseStaging
    <2>2. /\ DOMAIN n = CommandFields /\ n.n = s9.n /\ n.at = "done"
          /\ n.verb = s9.verb /\ n.sent = s9.sent /\ n.approved = s9.approved /\ n.shown = s9.shown
          /\ n.from = s9.from /\ n.digest = s9.digest /\ n.inspection = s9.inspection /\ n.warned = ~how
      BY <1>1 DEF CommandFields
    <2> HIDE DEF n
    <2>3. CommandHolds(n, s5')
      BY <1>1, <1>5, <2>1, <2>2 DEF CommandHolds
    <2> QED BY <1>3, <2>1, <2>2, <2>3
  <1> QED BY <1>4, <1>5

\* Catalog, file and installed App may change, and a command be killed, under the invariant.
LEMMA InstallWorld ==
  ASSUME InstallInv, Install!CatalogChanges \/ Install!FileChanges \/ Install!InstalledChanges \/ Install!Abort
  PROVE  InstallInv'
  <1>1. UNCHANGED <<s5, s7, s9>>
    BY DEF Install!CatalogChanges, Install!FileChanges, Install!InstalledChanges, Install!Abort, Install!serviceAndDisk
  <1>2. s2' = s2 \/ s2' = s2 + 1
    BY DEF Install!CatalogChanges, Install!FileChanges, Install!InstalledChanges, Install!Abort, Install!serviceAndDisk,
      Install!world
  <1>3. s2' \in Nat \ {0}
    BY <1>2 DEF InstallInv
  <1> QED BY <1>1, <1>3 DEF InstallInv

\* Every step of the commands and of what they meet keeps the invariant.
LEMMA InstallNext ==
  ASSUME InstallInv, Install!Next PROVE InstallInv'
  <1>1. CASE Install!Command
    BY <1>1, InstallStartsSourced, InstallStartsOther, InstallCallFails, InstallCopies, InstallCopied, InstallStages,
      InstallLooks, InstallFinds, InstallChecks, InstallChooses, InstallWrites, InstallConfirms, InstallSubmits,
      InstallAfter DEF Install!Command
  <1>2. CASE Install!CatalogChanges \/ Install!FileChanges \/ Install!InstalledChanges \/ Install!Abort
    BY <1>2, InstallWorld
  <1> QED BY <1>1, <1>2 DEF Install!Next

\* A step that changes no variable keeps the commands' invariant.
LEMMA InstallStays == InstallInv /\ UNCHANGED all => InstallInv'
  BY DEF InstallInv, all, from2

\* What the run checks of the commands about Apps follows from their invariant.
LEMMA InstallStates == InstallInv => Install!InstallsWhatWasShown /\ Install!PackagesAreLetGo
  <1> SUFFICES ASSUME InstallInv PROVE Install!InstallsWhatWasShown /\ Install!PackagesAreLetGo
    OBVIOUS
  <1>1. CommandShows(s9) /\ CommandHolds(s9, s5) /\ CommandCopies(s9, s7)
    BY DEF InstallInv
  <1>2. Install!InstallsWhatWasShown
    BY <1>1 DEF CommandShows, Install!InstallsWhatWasShown
  <1>3. Install!PackagesAreLetGo
    BY <1>1 DEF CommandHolds, CommandCopies, Install!PackagesAreLetGo, Install!Refused
  <1> QED BY <1>2, <1>3

-----------------------------------------------------------------------------
(* CliConfig.                                                              *)

ToolFields == {"at", "verb", "arg", "read", "file", "result", "resolved"}

\* What a process is to write was validated; once it is to be renamed, the
\* one temporary file it has is whole.  While it is half written, and before,
\* it is not renamed; a process is over once.
WritesWhole(r) ==
  r.at \in {"open", "fill", "rename"} =>
    ConfigFiles!Validated(r.file, ConfigFiles!Whole(1, r.read)) = "ok"

FilesInv ==
  /\ DOMAIN s1 = ConfigFiles!Files /\ DOMAIN s3 = ToolProcesses
  /\ \A p \in ToolProcesses :
       /\ DOMAIN s3[p] = ToolFields
       /\ WritesWhole(s3[p])
       /\ s3[p].at \notin {"fill", "rename", "chmod", "done"} => \A t \in s2 : t.by # p
       /\ s3[p].at = "fill" => \A t \in s2 : t.by = p => t = ConfigFiles!Temporary(p, ConfigFiles!Torn)
       /\ s3[p].at = "rename" =>
            \A t \in s2 : t.by = p => t = ConfigFiles!Temporary(p, ConfigFiles!Whole(1, s3[p].read))

\* The configuration files start in their invariant.
LEMMA FilesInit == ConfigFiles!Init => FilesInv
  <1> SUFFICES ASSUME ConfigFiles!Init PROVE FilesInv
    OBVIOUS
  <1>1. s2 = {} /\ s3 = [p \in ToolProcesses |-> ConfigFiles!Idle] /\ DOMAIN s1 = ConfigFiles!Files
    BY FilesAssumption DEF ConfigFiles!Init, ConfigFiles!Files
  <1>2. DOMAIN ConfigFiles!Idle = ToolFields /\ ConfigFiles!Idle.at = "idle"
    BY DEF ConfigFiles!Idle, ToolFields
  <1> QED BY <1>1, <1>2 DEF FilesInv, WritesWhole

\* A step of one process that leaves the temporary files of the others.
LEMMA ToolSteps ==
  ASSUME FilesInv, DOMAIN s1' = DOMAIN s1, NEW p \in ToolProcesses, NEW r, s3' = [s3 EXCEPT ![p] = r], DOMAIN r = ToolFields, WritesWhole(r),
         \A t \in s2' : t.by # p => t \in s2,
         r.at \notin {"fill", "rename", "chmod", "done"} => \A t \in s2' : t.by # p,
         r.at = "fill" => \A t \in s2' : t.by = p => t = [by |-> p, file |-> r.file, content |-> ConfigFiles!Torn],
         r.at = "rename" => \A t \in s2' : t.by = p =>
            t = [by |-> p, file |-> r.file, content |-> ConfigFiles!Whole(1, r.read)]
  PROVE  FilesInv'
  <1>1. DOMAIN s3' = ToolProcesses /\ s3'[p] = r /\ \A q \in ToolProcesses : q # p => s3'[q] = s3[q]
    BY DEF FilesInv
  <1>2. ASSUME NEW q \in ToolProcesses, q # p
        PROVE  /\ DOMAIN s3'[q] = ToolFields
               /\ WritesWhole(s3'[q])
               /\ s3'[q].at \notin {"fill", "rename", "chmod", "done"} => \A t \in s2' : t.by # q
               /\ s3'[q].at = "fill" => \A t \in s2' : t.by = q => t = ConfigFiles!Temporary(q, ConfigFiles!Torn)'
               /\ s3'[q].at = "rename" =>
                    \A t \in s2' : t.by = q => t = ConfigFiles!Temporary(q, ConfigFiles!Whole(1, s3[q].read))'
    <2>1. s3'[q] = s3[q]
      BY <1>1, <1>2
    <2>2. \A t \in s2' : t.by = q => t \in s2
      BY <1>2
    <2> QED BY <1>2, <2>1, <2>2 DEF FilesInv, ConfigFiles!Temporary
  <1>3. /\ DOMAIN s3'[p] = ToolFields
        /\ WritesWhole(s3'[p])
        /\ s3'[p].at \notin {"fill", "rename", "chmod", "done"} => \A t \in s2' : t.by # p
        /\ s3'[p].at = "fill" => \A t \in s2' : t.by = p => t = ConfigFiles!Temporary(p, ConfigFiles!Torn)'
        /\ s3'[p].at = "rename" =>
             \A t \in s2' : t.by = p => t = ConfigFiles!Temporary(p, ConfigFiles!Whole(1, s3[p].read))'
    BY <1>1 DEF ConfigFiles!Temporary
  <1>4. ASSUME NEW q \in ToolProcesses
        PROVE  /\ DOMAIN s3'[q] = ToolFields
               /\ WritesWhole(s3'[q])
               /\ s3'[q].at \notin {"fill", "rename", "chmod", "done"} => \A t \in s2' : t.by # q
               /\ s3'[q].at = "fill" => \A t \in s2' : t.by = q => t = ConfigFiles!Temporary(q, ConfigFiles!Torn)'
               /\ s3'[q].at = "rename" =>
                    \A t \in s2' : t.by = q => t = ConfigFiles!Temporary(q, ConfigFiles!Whole(1, s3[q].read))'
    BY <1>2, <1>3
  <1> QED BY <1>1, <1>4 DEF FilesInv, WritesWhole

\* One that writes nothing goes on, or is over.
LEMMA ToolGoesOn ==
  ASSUME FilesInv, NEW p \in ToolProcesses, NEW r, s3' = [s3 EXCEPT ![p] = r], DOMAIN r = ToolFields,
         s3[p].at \notin {"fill", "rename", "chmod", "done"}, UNCHANGED <<s1, s2>>, WritesWhole(r),
         r.at \notin {"fill", "rename"}
  PROVE  FilesInv'
  <1>1. \A t \in s2 : t.by # p
    BY DEF FilesInv
  <1> QED BY <1>1, ToolSteps

\* A process that ends, taking at most temporary files with it, keeps the invariant.
LEMMA ToolEnds ==
  ASSUME FilesInv, NEW p \in ToolProcesses, NEW result, ConfigFiles!Ends(p, result), UNCHANGED s1, s2' \subseteq s2
  PROVE  FilesInv'
  <1> DEFINE r == [s3[p] EXCEPT !.at = "done", !.result = result]
  <1>1. s3' = [s3 EXCEPT ![p] = r]
    BY DEF ConfigFiles!Ends, ConfigFiles!Becomes
  <1>2. DOMAIN s3[p] = ToolFields
    BY DEF FilesInv
  <1>3. DOMAIN r = ToolFields /\ r.at = "done"
    BY <1>2 DEF ToolFields
  <1> HIDE DEF r
  <1>4. WritesWhole(r)
    BY <1>3 DEF WritesWhole
  <1>5. \A t \in s2' : t.by # p => t \in s2
    OBVIOUS
  <1> QED BY <1>1, <1>3, <1>4, <1>5, ToolSteps

\* An idle process that begins keeps the invariant.
LEMMA ToolIsStarted ==
  ASSUME FilesInv, NEW p \in ToolProcesses, NEW r, ConfigFiles!Only(p, r), s3[p] = ConfigFiles!Idle,
         DOMAIN r = ToolFields, r.at \in {"done", "config", "read", "profile"}
  PROVE  FilesInv'
  <1>1. s3[p].at = "idle"
    BY DEF ConfigFiles!Idle
  <1>2. s3' = [s3 EXCEPT ![p] = r] /\ UNCHANGED <<s1, s2>>
    BY DEF ConfigFiles!Only, ConfigFiles!Becomes
  <1>3. WritesWhole(r)
    BY DEF WritesWhole
  <1> QED BY <1>1, <1>2, <1>3, ToolGoesOn

\* Every command that begins keeps the invariant.
LEMMA ToolBegins ==
  ASSUME FilesInv, NEW p \in ToolProcesses, NEW a,
         \/ ConfigFiles!StartLocal(p, a) \/ ConfigFiles!StartResolve(p, a) \/ ConfigFiles!List(p)
         \/ ConfigFiles!Get(p, a) \/ ConfigFiles!StartSet(p, a) \/ ConfigFiles!StartUse(p)
  PROVE  FilesInv'
  <1>1. s3[p] = ConfigFiles!Idle
    BY DEF ConfigFiles!StartLocal, ConfigFiles!StartResolve, ConfigFiles!List, ConfigFiles!Get, ConfigFiles!StartSet,
      ConfigFiles!StartUse
  <1>2. DOMAIN ConfigFiles!Idle = ToolFields
    BY DEF ConfigFiles!Idle, ToolFields
  <1>3. ASSUME NEW at \in {"done", "config", "read", "profile"}, NEW verb, NEW arg, NEW result, NEW resolved
        PROVE  /\ ConfigFiles!Only(p, [ConfigFiles!Idle EXCEPT !.verb = verb, !.at = at]) => FilesInv'
               /\ ConfigFiles!Only(p, [ConfigFiles!Idle EXCEPT !.verb = verb, !.at = at, !.arg = arg]) => FilesInv'
               /\ ConfigFiles!Only(p, [ConfigFiles!Idle EXCEPT !.verb = verb, !.at = at, !.arg = arg,
                    !.result = result]) => FilesInv'
               /\ ConfigFiles!Only(p, [ConfigFiles!Idle EXCEPT !.verb = verb, !.at = at, !.result = result,
                    !.resolved = resolved]) => FilesInv'
               /\ ConfigFiles!Only(p, [ConfigFiles!Idle EXCEPT !.verb = verb, !.at = at, !.resolved = resolved,
                    !.result = result]) => FilesInv'
    <2> DEFINE r1 == [ConfigFiles!Idle EXCEPT !.verb = verb, !.at = at]
               r2 == [ConfigFiles!Idle EXCEPT !.verb = verb, !.at = at, !.arg = arg]
               r3 == [ConfigFiles!Idle EXCEPT !.verb = verb, !.at = at, !.arg = arg, !.result = result]
               r4 == [ConfigFiles!Idle EXCEPT !.verb = verb, !.at = at, !.result = result, !.resolved = resolved]
               r5 == [ConfigFiles!Idle EXCEPT !.verb = verb, !.at = at, !.resolved = resolved, !.result = result]
    <2>1. DOMAIN r1 = ToolFields /\ r1.at = at
      BY <1>2 DEF ToolFields
    <2>2. DOMAIN r2 = ToolFields /\ r2.at = at
      BY <1>2 DEF ToolFields
    <2>3. DOMAIN r3 = ToolFields /\ r3.at = at
      BY <1>2 DEF ToolFields
    <2>4. DOMAIN r4 = ToolFields /\ r4.at = at
      BY <1>2 DEF ToolFields
    <2>5. DOMAIN r5 = ToolFields /\ r5.at = at
      BY <1>2 DEF ToolFields
    <2> HIDE DEF r1, r2, r3, r4, r5
    <2>6. /\ ConfigFiles!Only(p, r1) => FilesInv'
          /\ ConfigFiles!Only(p, r2) => FilesInv'
          /\ ConfigFiles!Only(p, r3) => FilesInv'
          /\ ConfigFiles!Only(p, r4) => FilesInv'
          /\ ConfigFiles!Only(p, r5) => FilesInv'
      BY <1>1, <1>3, <2>1, <2>2, <2>3, <2>4, <2>5, ToolIsStarted
    <2> QED BY <2>6 DEF r1, r2, r3, r4, r5
  <1>4. CASE ConfigFiles!StartLocal(p, a)
    BY <1>3, <1>4, Zenon DEF ConfigFiles!StartLocal
  <1>5. CASE ConfigFiles!StartResolve(p, a)
    BY <1>3, <1>5, Zenon DEF ConfigFiles!StartResolve
  <1>6. CASE ConfigFiles!List(p)
    BY <1>3, <1>6, Zenon DEF ConfigFiles!List
  <1>7. CASE ConfigFiles!Get(p, a)
    BY <1>3, <1>7, Zenon DEF ConfigFiles!Get
  <1>8. CASE ConfigFiles!StartSet(p, a)
    BY <1>3, <1>8, Zenon DEF ConfigFiles!StartSet
  <1>9. CASE ConfigFiles!StartUse(p)
    BY <1>3, <1>9, Zenon DEF ConfigFiles!StartUse
  <1> QED BY <1>4, <1>5, <1>6, <1>7, <1>8, <1>9

\* A file to write is one of the two, and its new content was validated.
LEMMA ToolWrites ==
  ASSUME FilesInv, NEW p \in ToolProcesses, s3[p].at \in {"read", "config"}, UNCHANGED <<s1, s2>>,
         NEW file, NEW settings, ConfigFiles!Write(p, file, settings)
  PROVE  FilesInv'
  <1>1. CASE ConfigFiles!Validated(file, ConfigFiles!Whole(1, settings)) = "ok"
    <2> DEFINE r == [s3[p] EXCEPT !.at = "open", !.file = file, !.read = settings]
    <2>1. s3' = [s3 EXCEPT ![p] = r]
      BY <1>1, Zenon DEF ConfigFiles!Write, ConfigFiles!Becomes
    <2>2. DOMAIN r = ToolFields /\ r.at = "open" /\ r.file = file /\ r.read = settings
      BY DEF FilesInv, ToolFields
    <2> HIDE DEF r
    <2>3. WritesWhole(r)
      BY <1>1, <2>2 DEF WritesWhole
    <2> QED BY <2>1, <2>2, <2>3, ToolGoesOn
  <1>2. CASE ConfigFiles!Validated(file, ConfigFiles!Whole(1, settings)) # "ok"
    <2>1. \E result : ConfigFiles!Ends(p, result)
      BY <1>2, Zenon DEF ConfigFiles!Write
    <2> QED BY <2>1, ToolEnds
  <1> QED BY <1>1, <1>2

\* A file that is read keeps the invariant.
LEMMA ToolReads ==
  ASSUME FilesInv, NEW p \in ToolProcesses,
         \/ ConfigFiles!ResolveConfigRead(p) \/ ConfigFiles!ResolveProfileRead(p) \/ ConfigFiles!UseProfileRead(p)
  PROVE  FilesInv'
  <1>1. UNCHANGED <<s1, s2>> /\ s3[p].at \in {"config", "profile"} /\ DOMAIN s3[p] = ToolFields
    BY DEF FilesInv, ConfigFiles!ResolveConfigRead, ConfigFiles!ResolveProfileRead, ConfigFiles!UseProfileRead
  <1>2. \/ \E result : ConfigFiles!Ends(p, result)
        \/ \E resolved, result :
             ConfigFiles!Becomes(p, [s3[p] EXCEPT !.at = "done", !.resolved = resolved, !.result = result])
        \/ \E read : ConfigFiles!Becomes(p, [s3[p] EXCEPT !.at = "profile", !.read = read])
        \/ ConfigFiles!Becomes(p, [s3[p] EXCEPT !.at = "config"])
    <2>1. CASE ConfigFiles!ResolveConfigRead(p)
      BY <2>1, Zenon DEF ConfigFiles!ResolveConfigRead
    <2>2. CASE ConfigFiles!ResolveProfileRead(p)
      BY <2>2, Zenon DEF ConfigFiles!ResolveProfileRead
    <2>3. CASE ConfigFiles!UseProfileRead(p)
      BY <2>3, Zenon DEF ConfigFiles!UseProfileRead
    <2> QED BY <2>1, <2>2, <2>3
  <1>3. ASSUME NEW r, s3' = [s3 EXCEPT ![p] = r], DOMAIN r = ToolFields, r.at \in {"done", "profile", "config"}
        PROVE  FilesInv'
    <2>1. WritesWhole(r)
      BY <1>3 DEF WritesWhole
    <2> QED BY <1>1, <1>3, <2>1, ToolGoesOn
  <1>4. ASSUME NEW resolved, NEW result,
               ConfigFiles!Becomes(p, [s3[p] EXCEPT !.at = "done", !.resolved = resolved, !.result = result])
        PROVE  FilesInv'
    <2> DEFINE r == [s3[p] EXCEPT !.at = "done", !.resolved = resolved, !.result = result]
    <2>1. DOMAIN r = ToolFields /\ r.at = "done"
      BY <1>1 DEF ToolFields
    <2>2. s3' = [s3 EXCEPT ![p] = r]
      BY <1>4 DEF ConfigFiles!Becomes
    <2> HIDE DEF r
    <2> QED BY <1>3, <2>1, <2>2
  <1>5. ASSUME NEW read, ConfigFiles!Becomes(p, [s3[p] EXCEPT !.at = "profile", !.read = read])
        PROVE  FilesInv'
    <2> DEFINE r == [s3[p] EXCEPT !.at = "profile", !.read = read]
    <2>1. DOMAIN r = ToolFields /\ r.at = "profile"
      BY <1>1 DEF ToolFields
    <2>2. s3' = [s3 EXCEPT ![p] = r]
      BY <1>5 DEF ConfigFiles!Becomes
    <2> HIDE DEF r
    <2> QED BY <1>3, <2>1, <2>2
  <1>6. CASE ConfigFiles!Becomes(p, [s3[p] EXCEPT !.at = "config"])
    <2> DEFINE r == [s3[p] EXCEPT !.at = "config"]
    <2>1. DOMAIN r = ToolFields /\ r.at = "config"
      BY <1>1 DEF ToolFields
    <2>2. s3' = [s3 EXCEPT ![p] = r]
      BY <1>6 DEF ConfigFiles!Becomes
    <2> HIDE DEF r
    <2> QED BY <1>3, <2>1, <2>2
  <1> QED BY <1>1, <1>2, <1>4, <1>5, <1>6, ToolEnds

\* A change that is prepared from what was read keeps the invariant.
LEMMA ToolSets ==
  ASSUME FilesInv, NEW p \in ToolProcesses, ConfigFiles!SetRead(p) \/ ConfigFiles!UseConfigRead(p)
  PROVE  FilesInv'
  <1>1. UNCHANGED s2 /\ s3[p].at \in {"read", "config"}
    BY DEF ConfigFiles!SetRead, ConfigFiles!UseConfigRead
  <1>2. \/ \E result : ConfigFiles!Ends(p, result)
        \/ \E file, settings : ConfigFiles!Write(p, file, settings)
    <2>1. CASE ConfigFiles!SetRead(p)
      BY <2>1, Zenon DEF ConfigFiles!SetRead
    <2>2. CASE ConfigFiles!UseConfigRead(p)
      BY <2>2, Zenon DEF ConfigFiles!UseConfigRead
    <2> QED BY <2>1, <2>2
  <1>3. UNCHANGED s1
    BY DEF ConfigFiles!SetRead, ConfigFiles!UseConfigRead
  <1> QED BY <1>1, <1>2, <1>3, ToolEnds, ToolWrites

-----------------------------------------------------------------------------
(* CliConfig: writing.                                                     *)

LEMMA ToolOpens ==
  ASSUME FilesInv, NEW p \in ToolProcesses, ConfigFiles!OpenTarget(p) \/ ConfigFiles!FillTarget(p)
  PROVE  FilesInv'
  <1> DEFINE to == IF ConfigFiles!OpenTarget(p) THEN "fill" ELSE "rename"
             r == [s3[p] EXCEPT !.at = to]
             content == IF ConfigFiles!OpenTarget(p) THEN ConfigFiles!Torn ELSE ConfigFiles!Whole(1, s3[p].read)
             t1 == [by |-> p, file |-> s3[p].file, content |-> content]
  <1>1. s3' = [s3 EXCEPT ![p] = r] /\ UNCHANGED s1 /\ s3[p].at \in {"open", "fill"}
    BY DEF ConfigFiles!OpenTarget, ConfigFiles!FillTarget, ConfigFiles!Becomes
  <1>2. DOMAIN s3[p] = ToolFields /\ WritesWhole(s3[p])
    BY DEF FilesInv
  <1>3. DOMAIN r = ToolFields /\ r.at = to /\ r.file = s3[p].file /\ r.read = s3[p].read
    BY <1>2 DEF ToolFields
  <1>4. \A t \in s2' : t = t1 \/ (t \in s2 /\ t.by # p)
    <2>1. CASE ConfigFiles!OpenTarget(p)
      BY <2>1 DEF ConfigFiles!OpenTarget, ConfigFiles!Temporary, FilesInv
    <2>2. CASE ~ConfigFiles!OpenTarget(p)
      <3>1. /\ s3[p].at = "fill"
            /\ s2' = (s2 \ {ConfigFiles!Temporary(p, ConfigFiles!Torn)}) \cup {t1}
        BY <2>2 DEF ConfigFiles!FillTarget, ConfigFiles!Temporary
      <3> QED BY <3>1 DEF FilesInv
    <2> QED BY <2>1, <2>2
  <1>5. t1.by = p /\ to \in {"fill", "rename"} /\ (to = "fill" => content = ConfigFiles!Torn)
        /\ (to = "rename" => content = ConfigFiles!Whole(1, s3[p].read))
    OBVIOUS
  <1>6. t1 = [by |-> p, file |-> s3[p].file, content |-> content]
    OBVIOUS
  <1> HIDE DEF r, t1, content, to
  <1>7. WritesWhole(r)
    BY <1>1, <1>2, <1>3 DEF WritesWhole
  <1>8. \A t \in s2' : t.by # p => t \in s2
    BY <1>4, <1>5
  <1>9. \A t \in s2' : t.by = p => t = [by |-> p, file |-> r.file, content |-> content]
    BY <1>3, <1>4, <1>6
  <1>10. /\ DOMAIN s1' = DOMAIN s1 /\ r.at \in {"fill", "rename"}
         /\ r.at = "fill" => \A t \in s2' : t.by = p => t = [by |-> p, file |-> r.file, content |-> ConfigFiles!Torn]
         /\ r.at = "rename" => \A t \in s2' : t.by = p =>
              t = [by |-> p, file |-> r.file, content |-> ConfigFiles!Whole(1, r.read)]
    BY <1>1, <1>3, <1>5, <1>9
  <1> QED BY <1>1, <1>3, <1>7, <1>8, <1>10, ToolSteps

\* The rename puts a whole file where the old one was.
LEMMA ToolRenames ==
  ASSUME FilesInv, NEW p \in ToolProcesses, ConfigFiles!Rename(p)
  PROVE  FilesInv'
  <1> DEFINE r == [s3[p] EXCEPT !.at = "chmod"]
  <1>1. s3' = [s3 EXCEPT ![p] = r]
    BY DEF ConfigFiles!Rename, ConfigFiles!Becomes
  <1>2. PICK t \in s2 : s1' = [s1 EXCEPT ![t.file] = t.content] /\ s2' = s2 \ {t}
    BY DEF ConfigFiles!Rename
  <1>3. DOMAIN s3[p] = ToolFields
    BY DEF FilesInv
  <1>4. DOMAIN r = ToolFields /\ r.at = "chmod"
    BY <1>3 DEF ToolFields
  <1> HIDE DEF r
  <1>5. WritesWhole(r)
    BY <1>4 DEF WritesWhole
  <1>6. \A u \in s2' : u.by # p => u \in s2
    BY <1>2
  <1>7. DOMAIN s1' = DOMAIN s1
    BY <1>2
  <1> QED BY <1>1, <1>4, <1>5, <1>6, <1>7, ToolSteps

\* Every step of the processes, kills among them, keeps the invariant.
LEMMA FilesNext ==
  ASSUME FilesInv, ConfigFiles!Next PROVE FilesInv'
  <1>1. ASSUME NEW p \in ToolProcesses, ConfigFiles!Chmod(p) \/ ConfigFiles!HostFails(p) \/ ConfigFiles!Kill(p)
        PROVE  FilesInv'
    <2>1. UNCHANGED s1 /\ s2' \subseteq s2
      BY <1>1 DEF ConfigFiles!Chmod, ConfigFiles!HostFails, ConfigFiles!Kill
    <2>2. \E result : ConfigFiles!Ends(p, result)
      BY <1>1, Zenon DEF ConfigFiles!Chmod, ConfigFiles!HostFails, ConfigFiles!Kill
    <2> QED BY <2>1, <2>2, ToolEnds
  <1> QED BY <1>1, ToolBegins, ToolReads, ToolSets, ToolOpens, ToolRenames DEF ConfigFiles!Next

\* A step that changes no variable keeps the invariant of the configuration files.
LEMMA FilesStay == FilesInv /\ UNCHANGED all => FilesInv'
  <1> SUFFICES ASSUME FilesInv, UNCHANGED <<s1, s2, s3>> PROVE FilesInv'
    BY DEF all, from2
  <1> QED BY DEF FilesInv, ConfigFiles!Temporary

\* Only a rename replaces a file, by what was validated.
LEMMA FilesChangeWhole ==
  ASSUME FilesInv, ConfigFiles!Next PROVE ConfigFiles!ChangesWhole
  <1> SUFFICES ASSUME NEW f \in ConfigFiles!Files, s1'[f] # s1[f] PROVE ConfigFiles!ReadJson(f)' = "ok"
    BY DEF ConfigFiles!ChangesWhole
  <1>1. PICK p \in ToolProcesses : ConfigFiles!Rename(p)
    BY DEF ConfigFiles!Next, ConfigFiles!StartLocal, ConfigFiles!StartResolve, ConfigFiles!ResolveConfigRead,
      ConfigFiles!ResolveProfileRead, ConfigFiles!List, ConfigFiles!Get, ConfigFiles!StartSet, ConfigFiles!SetRead,
      ConfigFiles!StartUse, ConfigFiles!UseProfileRead, ConfigFiles!UseConfigRead, ConfigFiles!OpenTarget,
      ConfigFiles!FillTarget, ConfigFiles!Chmod, ConfigFiles!HostFails, ConfigFiles!Kill, ConfigFiles!Only
  <1>2. PICK t \in s2 : t.by = p /\ s1' = [s1 EXCEPT ![t.file] = t.content]
    BY <1>1 DEF ConfigFiles!Rename
  <1>3. s3[p].at = "rename"
    BY <1>1 DEF ConfigFiles!Rename
  <1>4. t.file = s3[p].file /\ t.content = ConfigFiles!Whole(1, s3[p].read)
    BY <1>2, <1>3 DEF FilesInv, ConfigFiles!Temporary
  <1>5. ConfigFiles!Validated(t.file, t.content) = "ok"
    BY <1>3, <1>4 DEF FilesInv, WritesWhole
  <1>6. f = t.file /\ s1'[f] = t.content
    BY <1>2 DEF FilesInv
  <1>7. t.content.kind = "object"
    BY <1>4 DEF ConfigFiles!Whole
  <1> QED BY <1>5, <1>6, <1>7 DEF ConfigFiles!ReadJson, ConfigFiles!Validated

-----------------------------------------------------------------------------
(* PikgBuild.                                                              *)

\* dapp_dist is taken away by a build that puts it aside, or by `clean`.
LEMMA SnapshotIsKept ==
  ASSUME Build!Next PROVE Build!KeepsSnapshot
  <1> USE DEF Build!KeepsSnapshot, Build!Same
  <1>1. CASE Build!UserEdits \/ Build!UserAddsFile
    BY <1>1 DEF Build!UserEdits, Build!UserAddsFile
  <1>2. ASSUME NEW p \in Build!Processes,
               Build!InitStart(p) \/ Build!InitRemove(p) \/ Build!InitRename(p)
        PROVE  Build!KeepsSnapshot
    BY <1>2 DEF Build!InitStart, Build!InitRemove, Build!InitRename
  <1>3. ASSUME NEW p \in Build!Processes,
               \/ Build!BuildStart(p) \/ Build!Prepare(p) \/ Build!Prepared(p) \/ Build!Replace(p)
               \/ Build!MoveInFails(p) \/ Build!RemoveBackup(p) \/ Build!PackStart(p) \/ Build!Validate(p)
               \/ Build!ReplaceFile(p) \/ Build!FileInFails(p) \/ Build!CleanStart(p) \/ Build!CleanDeclined(p)
               \/ Build!Dies(p)
        PROVE  Build!KeepsSnapshot
    <2>1. UNCHANGED <<s1, s3>>
      BY <1>3 DEF Build!BuildStart, Build!Prepare, Build!Prepared, Build!Replace, Build!MoveInFails,
        Build!RemoveBackup, Build!PackStart, Build!Validate, Build!ReplaceFile, Build!FileInFails, Build!CleanStart,
        Build!CleanDeclined, Build!Dies
    <2> QED BY <2>1
  <1>4. ASSUME NEW p \in Build!Processes,
               Build!MoveAside(p) \/ Build!MoveIn(p) \/ Build!MoveBack(p) \/ Build!CleanConfirmed(p)
        PROVE  Build!KeepsSnapshot
    BY <1>4 DEF Build!MoveAside, Build!MoveIn, Build!MoveBack, Build!CleanConfirmed
  <1>5. ASSUME NEW p \in Build!Processes,
               \/ Build!OpenPikg(p) \/ Build!WritePikg(p) \/ Build!InspectPikg(p) \/ Build!FileAside(p)
               \/ Build!FileIn(p) \/ Build!FileBack(p) \/ Build!DropPrevious(p)
        PROVE  Build!KeepsSnapshot
    <2>1. UNCHANGED s1
      BY <1>5 DEF Build!OpenPikg, Build!WritePikg, Build!InspectPikg, Build!FileAside, Build!FileIn, Build!FileBack,
        Build!DropPrevious
    <2>2. ASSUME NEW d \in s3 PROVE s3' # {}
      <3> USE <2>2
      <3>1. CASE Build!OpenPikg(p)
        BY <3>1 DEF Build!OpenPikg
      <3>2. CASE Build!WritePikg(p)
        BY <3>2 DEF Build!WritePikg
      <3>3. CASE Build!InspectPikg(p)
        BY <3>3 DEF Build!InspectPikg
      <3>4. CASE Build!FileAside(p)
        BY <3>4 DEF Build!FileAside
      <3>5. CASE Build!FileIn(p)
        BY <3>5 DEF Build!FileIn
      <3>6. CASE Build!FileBack(p)
        BY <3>6 DEF Build!FileBack
      <3>7. CASE Build!DropPrevious(p)
        BY <3>7 DEF Build!DropPrevious
      <3> QED BY <1>5, <3>1, <3>2, <3>3, <3>4, <3>5, <3>6, <3>7
    <2> QED BY <2>1, <2>2
  <1> QED BY <1>1, <1>2, <1>3, <1>4, <1>5 DEF Build!Next

-----------------------------------------------------------------------------
(* SystemConfig.                                                           *)

\* What a call knows of its keys: a read began knowing no state that the
\* service did not have, and read none before it; a write made one it has.
CallKnows(r, store) ==
  /\ r.at = "sent" =>
       /\ r.keys \subseteq ConfigKeys
       /\ r.does = "get" => \E k \in ConfigKeys : r.keys = {k} /\ r.knew \in Nat /\ r.knew <= store[k].version
  /\ r.at = "read" => \E k \in ConfigKeys : r.keys = {k} /\ r.knew \in Nat /\ r.version \in Nat /\ r.knew <= r.version
  /\ r.at = "written" =>
       r.keys \subseteq ConfigKeys /\ \A k \in r.keys : r.version[k] \in Nat /\ r.version[k] <= store[k].version

\* An entry was put when the newest write that was answered was the one that
\* still is.
EntryKnows(e, newest) ==
  e # Config!None => e.version \in Nat /\ e.began \in Nat /\ e.began <= e.version /\ e.put = newest

ConfigInv ==
  /\ DOMAIN s2 = ConfigKeys /\ DOMAIN s3 = ConfigKeys /\ DOMAIN s4 = Callers /\ DOMAIN s6 = ConfigKeys
  /\ \A k \in ConfigKeys :
       /\ s2[k].version \in Nat /\ s6[k] \in Nat /\ s6[k] <= s2[k].version
       /\ EntryKnows(s3[k], s6[k])
  /\ \A c \in Callers : CallKnows(s4[c], s2)
  /\ Config!OnlyOverlapIsStale

\* The system configuration and its clients start in their invariant.
LEMMA ConfigInit == Config!Init => ConfigInv
  <1> SUFFICES ASSUME Config!Init PROVE ConfigInv
    OBVIOUS
  <1>1. /\ s2 = [k \in ConfigKeys |-> [version |-> 1, exists |-> TRUE]] /\ s3 = [k \in ConfigKeys |-> Config!None]
        /\ s4 = [c \in Callers |-> Config!Idle] /\ s6 = [k \in ConfigKeys |-> 0] /\ s7.key = ""
    BY DEF Config!Init
  <1>2. \A c \in Callers : CallKnows(s4[c], s2)
    BY <1>1 DEF CallKnows, Config!Idle
  <1>3. Config!OnlyOverlapIsStale
    BY <1>1 DEF Config!OnlyOverlapIsStale
  <1>4. \A k \in ConfigKeys : s2[k].version = 1 /\ s6[k] = 0 /\ s3[k] = Config!None
    BY <1>1
  <1>5. \A k \in ConfigKeys : s2[k].version \in Nat /\ s6[k] \in Nat /\ s6[k] <= s2[k].version
    BY <1>4
  <1> QED BY <1>1, <1>2, <1>3, <1>4, <1>5 DEF ConfigInv, EntryKnows

\* A step that leaves the clients and the store alone keeps the invariant.
LEMMA ConfigStays == ConfigInv /\ UNCHANGED <<s2, s3, s4, s6, s7>> => ConfigInv'
  BY DEF ConfigInv, Config!OnlyOverlapIsStale

\* What a call knows stays true as the states of keys grow.
LEMMA CallStillKnows ==
  ASSUME NEW r, NEW old, NEW new, CallKnows(r, old),
         \A k \in ConfigKeys : old[k].version \in Nat /\ new[k].version \in Nat /\ old[k].version <= new[k].version
  PROVE  CallKnows(r, new)
  <1>1. CASE r.at = "sent"
    <2>1. CASE r.does = "get"
      <3>1. PICK k \in ConfigKeys : r.keys = {k} /\ r.knew \in Nat /\ r.knew <= old[k].version
        BY <1>1, <2>1 DEF CallKnows
      <3>2. r.knew <= new[k].version
        BY <3>1
      <3> QED BY <1>1, <3>1, <3>2 DEF CallKnows
    <2> QED BY <1>1, <2>1 DEF CallKnows
  <1>2. CASE r.at = "read"
    BY <1>2 DEF CallKnows
  <1>3. CASE r.at = "written"
    <2>1. ASSUME NEW k \in r.keys PROVE r.version[k] \in Nat /\ r.version[k] <= new[k].version
      <3>1. k \in ConfigKeys /\ r.version[k] \in Nat /\ r.version[k] <= old[k].version
        BY <1>3, <2>1 DEF CallKnows
      <3> QED BY <3>1
    <2> QED BY <1>3, <2>1 DEF CallKnows
  <1> QED BY <1>1, <1>2, <1>3 DEF CallKnows

\* A step of one caller that writes nothing.
LEMMA CallerGoesOn ==
  ASSUME ConfigInv, NEW c \in Callers, NEW r, s4' = [s4 EXCEPT ![c] = r], CallKnows(r, s2), UNCHANGED <<s2, s6>>,
         DOMAIN s3' = ConfigKeys, \A k \in ConfigKeys : EntryKnows(s3'[k], s6[k]), Config!OnlyOverlapIsStale'
  PROVE  ConfigInv'
  <1>1. DOMAIN s4' = Callers /\ \A d \in Callers : CallKnows(s4'[d], s2)
    BY DEF ConfigInv
  <1> QED BY <1>1 DEF ConfigInv

\* A write of somebody else keeps the invariant.
LEMMA ConfigForeign ==
  ASSUME ConfigInv, NEW k \in ConfigKeys, Config!Foreign(k) PROVE ConfigInv'
  <1>1. UNCHANGED <<s3, s4, s6, s7>>
    BY DEF Config!Foreign
  <1>2. PICK exists \in BOOLEAN : s2' = [s2 EXCEPT ![k] = [version |-> s2[k].version + 1, exists |-> exists]]
    BY DEF Config!Foreign
  <1>3. DOMAIN s2' = ConfigKeys /\ \A i \in ConfigKeys : s2'[i].version \in Nat /\ s2[i].version <= s2'[i].version
    BY <1>2 DEF ConfigInv
  <1>4. \A d \in Callers : CallKnows(s4[d], s2')
    BY <1>3, CallStillKnows DEF ConfigInv
  <1>5. \A i \in ConfigKeys : s6[i] <= s2'[i].version
    BY <1>3 DEF ConfigInv
  <1> QED BY <1>1, <1>3, <1>4, <1>5 DEF ConfigInv, Config!OnlyOverlapIsStale

\* A read that begins, from the cache or not, keeps the invariant.
LEMMA ConfigGet ==
  ASSUME ConfigInv, NEW c \in Callers, NEW k \in ConfigKeys, Config!Get(c, k) PROVE ConfigInv'
  <1>1. UNCHANGED <<s2, s6>>
    BY DEF Config!Get
  <1>2. CASE Config!Fresh(k)
    <2>1. UNCHANGED <<s3, s4>> /\ Config!Answered(k, s3[k], s6[k], "cache")
      BY <1>2 DEF Config!Get
    <2>2. /\ s3[k].version \in Nat /\ s3[k].began \in Nat /\ s3[k].began <= s3[k].version /\ s3[k].put = s6[k]
          /\ s6[k] \in Nat
      BY <1>2 DEF Config!Fresh, ConfigInv, EntryKnows
    <2>3. /\ s7'.version = s3[k].version /\ s7'.knew = s6[k] /\ s7'.from = "cache" /\ s7'.began = s3[k].began
          /\ s7'.put = s3[k].put
      BY <2>1 DEF Config!Answered
    <2>4. Config!OnlyOverlapIsStale'
      <3>1. s7'.version < s7'.knew => s7'.from = "cache" /\ s7'.began < s7'.knew /\ s7'.knew <= s7'.put
        BY <2>2, <2>3
      <3> QED BY <3>1 DEF Config!OnlyOverlapIsStale
    <2> QED BY <1>1, <2>1, <2>4 DEF ConfigInv
  <1>3. CASE ~Config!Fresh(k)
    <2> DEFINE r == [at |-> "sent", does |-> "get", keys |-> {k}, knew |-> s6[k]]
    <2>1. s4' = [s4 EXCEPT ![c] = r] /\ s3' = [s3 EXCEPT ![k] = Config!None] /\ UNCHANGED s7
      BY <1>3 DEF Config!Get
    <2>2. r.at = "sent" /\ r.does = "get" /\ r.keys = {k} /\ r.knew = s6[k]
      OBVIOUS
    <2> HIDE DEF r
    <2>3. CallKnows(r, s2)
      BY <2>2 DEF CallKnows, ConfigInv
    <2>4. DOMAIN s3' = ConfigKeys /\ \A i \in ConfigKeys : EntryKnows(s3'[i], s6[i])
      BY <2>1 DEF EntryKnows, ConfigInv
    <2>5. Config!OnlyOverlapIsStale'
      BY <2>1 DEF ConfigInv, Config!OnlyOverlapIsStale
    <2> QED BY <1>1, <2>1, <2>3, <2>4, <2>5, CallerGoesOn
  <1> QED BY <1>2, <1>3

\* A write that begins keeps the invariant.
LEMMA ConfigWrite ==
  ASSUME ConfigInv, NEW c \in Callers, NEW kind \in Config!Writes, NEW keys \in SUBSET ConfigKeys,
         Config!Write(c, kind, keys)
  PROVE  ConfigInv'
  <1> DEFINE r == [at |-> "sent", does |-> kind, keys |-> keys]
  <1>1. s4' = [s4 EXCEPT ![c] = r] /\ UNCHANGED <<s2, s3, s6, s7>>
    BY DEF Config!Write
  <1>2. r.at = "sent" /\ r.does # "get" /\ r.keys \subseteq ConfigKeys
    BY DEF Config!Writes
  <1> HIDE DEF r
  <1>3. CallKnows(r, s2)
    BY <1>2 DEF CallKnows
  <1>4. Config!OnlyOverlapIsStale' /\ DOMAIN s3' = ConfigKeys /\ \A k \in ConfigKeys : EntryKnows(s3'[k], s6[k])
    BY <1>1 DEF ConfigInv, Config!OnlyOverlapIsStale
  <1> QED BY <1>1, <1>3, <1>4, CallerGoesOn

\* A call that the service executes keeps the invariant.
LEMMA ConfigExecute ==
  ASSUME ConfigInv, NEW c \in Callers, Config!Execute(c) PROVE ConfigInv'
  <1> DEFINE r == s4[c]
  <1>1. r.at = "sent" /\ UNCHANGED <<s3, s6, s7>> /\ CallKnows(r, s2)
    BY DEF Config!Execute, ConfigInv
  <1>2. Config!OnlyOverlapIsStale' /\ DOMAIN s3' = ConfigKeys /\ \A k \in ConfigKeys : EntryKnows(s3'[k], s6[k])
    BY <1>1 DEF ConfigInv, Config!OnlyOverlapIsStale
  <1>3. CASE Config!Refused(r)
    <2> DEFINE n == [r EXCEPT !.at = "refused"]
    <2>1. s4' = [s4 EXCEPT ![c] = n] /\ UNCHANGED s2
      BY <1>3 DEF Config!Execute
    <2>2. CallKnows(n, s2)
      BY <1>1 DEF CallKnows
    <2> QED BY <1>1, <1>2, <2>1, <2>2, CallerGoesOn
  <1>4. CASE ~Config!Refused(r) /\ r.does = "get"
    <2>1. PICK k \in ConfigKeys : r.keys = {k} /\ r.knew \in Nat /\ r.knew <= s2[k].version
      BY <1>1, <1>4 DEF CallKnows
    <2> DEFINE x == CHOOSE i \in r.keys : TRUE
               n == [at |-> "read", does |-> "get", keys |-> r.keys, knew |-> r.knew, version |-> s2[x].version]
    <2>2. x = k
      BY <2>1
    <2>3. s4' = [s4 EXCEPT ![c] = n] /\ UNCHANGED s2
      BY <1>4 DEF Config!Execute
    <2> HIDE DEF x
    <2>4. n.at = "read" /\ n.keys = {k} /\ n.knew = r.knew /\ n.version = s2[k].version
      BY <2>1, <2>2
    <2> HIDE DEF n
    <2>5. CallKnows(n, s2)
      BY <2>1, <2>4 DEF CallKnows, ConfigInv
    <2> QED BY <1>1, <1>2, <2>3, <2>5, CallerGoesOn
  <1>5. CASE ~Config!Refused(r) /\ r.does # "get"
    <2> DEFINE n == [at |-> "written", does |-> r.does, keys |-> r.keys, version |-> [k \in r.keys |-> s2[k].version + 1]]
    <2>1. s2' = [k \in ConfigKeys |-> IF k \in r.keys THEN [version |-> s2[k].version + 1, exists |-> r.does # "delete"]
                                      ELSE s2[k]]
      BY <1>5 DEF Config!Execute
    <2>2. s4' = [s4 EXCEPT ![c] = n]
      BY <1>5 DEF Config!Execute
    <2>3. r.keys \subseteq ConfigKeys
      BY <1>1 DEF CallKnows
    <2>4. n.at = "written" /\ n.keys = r.keys /\ \A k \in r.keys : n.version[k] = s2[k].version + 1
      OBVIOUS
    <2> HIDE DEF n
    <2>5. \A k \in ConfigKeys : s2[k].version \in Nat /\ s2'[k].version \in Nat /\ s2[k].version <= s2'[k].version
      BY <2>1 DEF ConfigInv
    <2>6. \A k \in r.keys : s2'[k].version = s2[k].version + 1
      BY <2>1, <2>3
    <2>7. CallKnows(n, s2')
      BY <2>3, <2>4, <2>5, <2>6 DEF CallKnows
    <2>8. \A d \in Callers : CallKnows(s4[d], s2')
      BY <2>5, CallStillKnows DEF ConfigInv
    <2>9. DOMAIN s4' = Callers /\ \A d \in Callers : CallKnows(s4'[d], s2')
      BY <2>2, <2>7, <2>8 DEF ConfigInv
    <2>10. \A k \in ConfigKeys : s6[k] \in Nat /\ s6[k] <= s2'[k].version
      BY <2>5 DEF ConfigInv
    <2>11. DOMAIN s2' = ConfigKeys
      BY <2>1
    <2> QED BY <1>1, <1>2, <2>5, <2>9, <2>10, <2>11 DEF ConfigInv
  <1> QED BY <1>3, <1>4, <1>5

\* A read that returns keeps the invariant.
LEMMA ConfigReads ==
  ASSUME ConfigInv, NEW c \in Callers, Config!ReadReturns(c) PROVE ConfigInv'
  <1>1. s4' = [s4 EXCEPT ![c] = Config!Idle] /\ UNCHANGED <<s2, s6>> /\ s4[c].at = "read"
    BY DEF Config!ReadReturns
  <1>2. PICK k \in ConfigKeys : /\ s4[c].keys = {k} /\ s4[c].knew \in Nat /\ s4[c].version \in Nat
                                /\ s4[c].knew <= s4[c].version
    BY <1>1 DEF ConfigInv, CallKnows
  <1> DEFINE x == CHOOSE i \in s4[c].keys : TRUE
             e == [version |-> s4[c].version, at |-> s1, began |-> s4[c].knew, put |-> s6[x]]
  <1>3. x = k
    BY <1>2
  <1>4. /\ s3' = IF x \in Cached THEN [s3 EXCEPT ![x] = e] ELSE s3
        /\ Config!Answered(x, e, s4[c].knew, "service")
    BY DEF Config!ReadReturns
  <1> HIDE DEF x
  <1>5. e.version = s4[c].version /\ e.began = s4[c].knew /\ e.put = s6[k]
    BY <1>3
  <1> HIDE DEF e
  <1>6. EntryKnows(e, s6[k])
    BY <1>2, <1>5 DEF EntryKnows
  <1>7. DOMAIN s3' = ConfigKeys /\ \A i \in ConfigKeys : EntryKnows(s3'[i], s6[i])
    BY <1>3, <1>4, <1>6 DEF ConfigInv
  <1>8. s7'.version = s4[c].version /\ s7'.knew = s4[c].knew
    BY <1>4, <1>5 DEF Config!Answered
  <1>9. Config!OnlyOverlapIsStale'
    <2>1. ~(s7'.version < s7'.knew)
      BY <1>2, <1>8
    <2> QED BY <2>1 DEF Config!OnlyOverlapIsStale
  <1>10. CallKnows(Config!Idle, s2)
    BY DEF CallKnows, Config!Idle
  <1> QED BY <1>1, <1>7, <1>9, <1>10, CallerGoesOn

\* A write that returns leaves no older value in the cache.
LEMMA ConfigWritten ==
  ASSUME ConfigInv, NEW c \in Callers, Config!WriteReturns(c) PROVE ConfigInv'
  <1> DEFINE r == s4[c]
  <1>1. s4' = [s4 EXCEPT ![c] = Config!Idle] /\ UNCHANGED <<s2, s7>> /\ r.at = "written"
    BY DEF Config!WriteReturns
  <1>2. r.keys \subseteq ConfigKeys /\ \A k \in r.keys : r.version[k] \in Nat /\ r.version[k] <= s2[k].version
    BY <1>1 DEF ConfigInv, CallKnows
  <1>3. /\ s3' = [k \in ConfigKeys |-> IF k \in r.keys THEN Config!None ELSE s3[k]]
        /\ s6' = [k \in ConfigKeys |-> IF k \in r.keys /\ r.version[k] > s6[k] THEN r.version[k] ELSE s6[k]]
    BY DEF Config!WriteReturns, Config!Dropped
  <1>4. \A k \in ConfigKeys : s6'[k] \in Nat /\ s6'[k] <= s2[k].version /\ EntryKnows(s3'[k], s6'[k])
    BY <1>2, <1>3 DEF ConfigInv, EntryKnows
  <1>5. CallKnows(Config!Idle, s2)
    BY DEF CallKnows, Config!Idle
  <1>6. DOMAIN s4' = Callers /\ \A d \in Callers : CallKnows(s4'[d], s2)
    BY <1>1, <1>5 DEF ConfigInv
  <1>7. Config!OnlyOverlapIsStale'
    BY <1>1 DEF ConfigInv, Config!OnlyOverlapIsStale
  <1> QED BY <1>1, <1>3, <1>4, <1>6, <1>7 DEF ConfigInv

\* A call that fails keeps the invariant.
LEMMA ConfigFails ==
  ASSUME ConfigInv, NEW c \in Callers, Config!Fails(c) PROVE ConfigInv'
  <1>1. s4' = [s4 EXCEPT ![c] = Config!Idle] /\ UNCHANGED <<s2, s3, s6, s7>>
    BY DEF Config!Fails
  <1>2. CallKnows(Config!Idle, s2)
    BY DEF CallKnows, Config!Idle
  <1>3. Config!OnlyOverlapIsStale' /\ DOMAIN s3' = ConfigKeys /\ \A k \in ConfigKeys : EntryKnows(s3'[k], s6[k])
    BY <1>1 DEF ConfigInv, Config!OnlyOverlapIsStale
  <1> QED BY <1>1, <1>2, <1>3, CallerGoesOn

\* Every step of the clients and the service keeps the invariant.
LEMMA ConfigNext ==
  ASSUME ConfigInv, Config!Next PROVE ConfigInv'
  <1>1. CASE Config!Tick
    BY <1>1, ConfigStays DEF Config!Tick
  <1> QED BY <1>1, ConfigForeign, ConfigGet, ConfigWrite, ConfigExecute, ConfigReads, ConfigWritten, ConfigFails
    DEF Config!Next

-----------------------------------------------------------------------------
(* NdnMessages.                                                            *)

\* A message that is kept was accepted, and is the canonical form of itself.
MessageInv ==
  \A m \in s1 :
    /\ m.id \in Message!Messages /\ m.msg = m.id
    /\ Message!Checked(m.id)

\* A message is its fields, and only the aliased ones are read under two names.
LEMMA MessageFieldsAre ==
  ASSUME NEW x \in Message!Messages
  PROVE  /\ DOMAIN x = Message!Fields /\ x = [f \in Message!Fields |-> x[f]]
         /\ \A f \in Message!Free : x[f] # "alias"
  <1>1. PICK F \in FieldGroups, c \in UNION {{d \in [G -> UNION {Message!Values(f) : f \in G}] : \A f \in G : d[f] \in Message!Values(f)} :
                    G \in FieldGroups} :
          x = [f \in Message!Fields |->
                IF f \in DOMAIN c THEN c[f]
                ELSE IF \E g \in DOMAIN c \cap DOMAIN Message!ParentOf : Message!ParentOf[g] = f THEN "record"
                ELSE IF f \in {"rel", "target"} /\ DOMAIN c \cap {"rel", "target", "key"} # {} THEN "given"
                ELSE Message!Plain[f]]
    BY DEF Message!Messages
  <1>2. \A f \in DOMAIN c : c[f] \in Message!Values(f)
    OBVIOUS
  <1>3. \A f \in Message!Free : f \in Message!Fields /\ Message!Plain[f] # "alias" /\ "alias" \notin Message!Values(f)
    BY DEF Message!Free, Message!Fields, Message!Plain, Message!Values, Message!Records
  <1>4. \A f \in Message!Free : x[f] # "alias"
    BY <1>1, <1>2, <1>3
  <1> QED BY <1>1, <1>4

\* In the canonical form no field is null or empty if it may be left out,
\* none has another name of its value, and a thread has its topic.
LEMMA CanonicalFields ==
  ASSUME NEW x \in Message!Messages, Message!DecodeMsg(x) = x
  PROVE  /\ \A f \in Message!Fields :
              /\ x[f] # "alias"
              /\ x[f] = "null" => f \in Message!Free
              /\ x[f] = "default" => f \notin Message!Defaulted
         /\ x["thread"] # "absent" => x["topic"] \notin {"absent", "null"}
  <1>1. ASSUME NEW f \in Message!Fields
        PROVE  x[f] = IF f = "thread" /\ Message!ReadField(x, "topic") = "absent" THEN "absent" ELSE Message!ReadField(x, f)
    BY DEF Message!DecodeMsg
  <1>2. ASSUME NEW f \in Message!Fields
        PROVE  /\ x[f] # "alias"
               /\ x[f] = "null" => f \in Message!Free
               /\ x[f] = "default" => f \notin Message!Defaulted
    <2>1. CASE f \in Message!Free
      BY <2>1, MessageFieldsAre DEF Message!Free, Message!Defaulted
    <2>2. CASE f \notin Message!Free
      BY <1>1, <2>2 DEF Message!ReadField
    <2> QED BY <2>1, <2>2
  <1>3. x["thread"] # "absent" => x["topic"] \notin {"absent", "null"}
    <2>1. "thread" \in Message!Fields /\ "topic" \in Message!Fields /\ "topic" \notin Message!Free
      BY DEF Message!Fields, Message!Defaulted, Message!Optional, Message!Free
    <2>2. x["topic"] \in {"absent", "null"} => Message!ReadField(x, "topic") = "absent"
      BY <2>1 DEF Message!ReadField
    <2> QED BY <1>1, <2>1, <2>2
  <1> QED BY <1>2, <1>3

\* What it says decides it.
LEMMA SaysDecides ==
  ASSUME NEW x \in Message!Messages, NEW y \in Message!Messages,
         Message!DecodeMsg(x) = x, Message!DecodeMsg(y) = y, Message!Says(x) = Message!Says(y)
  PROVE  x = y
  <1>1. ASSUME NEW z \in Message!Messages, Message!DecodeMsg(z) = z
        PROVE  Message!Says(z) = {<<f, z[f]>> : f \in {g \in Message!Fields : z[g] # "absent"}}
    <2>1. {g \in Message!Fields : /\ z[g] # "absent"
                                  /\ z[g] = "null" => g \in Message!Free
                                  /\ z[g] = "default" => g \notin Message!Defaulted
                                  /\ (g = "thread" => z["topic"] \notin {"absent", "null"})}
            = {g \in Message!Fields : z[g] # "absent"}
      BY <1>1, CanonicalFields
    <2>2. \A f \in Message!Fields : (IF z[f] = "alias" THEN "given" ELSE z[f]) = z[f]
      BY <1>1, CanonicalFields
    <2> QED BY <2>1, <2>2 DEF Message!Says
  <1>2. ASSUME NEW v \in Message!Messages, NEW w \in Message!Messages,
               Message!Says(v) = {<<f, v[f]>> : f \in {g \in Message!Fields : v[g] # "absent"}},
               Message!Says(w) = {<<f, w[f]>> : f \in {g \in Message!Fields : w[g] # "absent"}},
               Message!Says(v) = Message!Says(w),
               NEW f \in Message!Fields, v[f] # "absent"
        PROVE  w[f] = v[f]
    <2>1. <<f, v[f]>> \in Message!Says(v)
      BY <1>2
    <2>2. PICK h \in {g \in Message!Fields : w[g] # "absent"} : <<f, v[f]>> = <<h, w[h]>>
      BY <1>2, <2>1
    <2> QED BY <2>2
  <1>3. \A f \in Message!Fields : x[f] = y[f]
    <2> SUFFICES ASSUME NEW f \in Message!Fields PROVE x[f] = y[f]
      OBVIOUS
    <2>1. CASE x[f] # "absent"
      BY <1>1, <1>2, <2>1
    <2>2. CASE y[f] # "absent"
      BY <1>1, <1>2, <2>2
    <2> QED BY <2>1, <2>2
  <1> QED BY <1>3, MessageFieldsAre

\* Messages start in their invariant.
LEMMA MessageInit == Message!Init => MessageInv
  BY DEF Message!Init, MessageInv

\* A step that leaves the message alone keeps the invariant.
LEMMA MessageStays == MessageInv /\ UNCHANGED s1 => MessageInv'
  BY DEF MessageInv

\* A message that is passed on keeps the invariant.
LEMMA MessageNext ==
  ASSUME MessageInv, Message!Next PROVE MessageInv'
  <1>1. PICK x \in Message!Messages : Message!Receive(x)
    BY DEF Message!Next, Message!ReceiveJwt
  <1>2. Message!Checked(x) /\ s1' = s1 \cup {[id |-> x, msg |-> x]}
    BY <1>1 DEF Message!Receive, Message!Checked
  <1> QED BY <1>2 DEF MessageInv

\* What the run checks of messages follows from their invariant.
LEMMA MessageStates == MessageInv => Message!OneIdPerMessage
  <1> SUFFICES ASSUME MessageInv, NEW a \in s1, NEW b \in s1
               PROVE  /\ Message!Says(a.id) = Message!Says(b.id) => a.id = b.id
                      /\ Message!Checked(a.msg) /\ Message!Says(a.msg) = Message!Says(a.id)
    BY DEF Message!OneIdPerMessage
  <1>1. \A m \in {a, b} : m.id \in Message!Messages /\ m.msg = m.id /\ Message!Checked(m.id)
    BY DEF MessageInv
  <1>2. \A m \in {a, b} : Message!DecodeMsg(m.id) = m.id
    BY <1>1 DEF Message!Checked
  <1> QED BY <1>1, <1>2, SaysDecides

-----------------------------------------------------------------------------
(* NdnObjects: what is emitted is the canonical form of itself.            *)

RuleNames == {"kept", "nonempty", "id or none", "typed", "always", "id", "free", "not default"}

\* A table that is made of two has the rules of the two.
LEMMA WithRules ==
  ASSUME NEW f, NEW g, \A x \in DOMAIN f : f[x] \in RuleNames, \A x \in DOMAIN g : g[x] \in RuleNames
  PROVE  \A x \in DOMAIN Object!With(f, g) : Object!With(f, g)[x] \in RuleNames
  <1> SUFFICES ASSUME NEW x \in DOMAIN Object!With(f, g) PROVE Object!With(f, g)[x] \in RuleNames
    OBVIOUS
  <1>1. x \in DOMAIN f \cup DOMAIN g
    BY DEF Object!With
  <1>2. CASE x \in DOMAIN f
    <2>1. Object!With(f, g)[x] = f[x]
      BY <1>2 DEF Object!With
    <2> QED BY <1>2, <2>1
  <1>3. CASE x \in DOMAIN g /\ x \notin DOMAIN f
    <2>1. Object!With(f, g)[x] = g[x]
      BY <1>3 DEF Object!With
    <2> QED BY <1>3, <2>1
  <1> QED BY <1>1, <1>2, <1>3

\* Every field of every type of object has a rule of the known kinds.
LEMMA RulesAreKnown ==
  ASSUME NEW t \in Object!Types
  PROVE  \A f \in DOMAIN Object!RulesOf(t) : Object!RulesOf(t)[f] \in RuleNames
  <1>1. \A x \in DOMAIN Object!BaseRules : Object!BaseRules[x] \in RuleNames
    BY WithRules DEF Object!BaseRules, RuleNames
  <1>2. \A x \in DOMAIN Object!FileRules : Object!FileRules[x] \in RuleNames
    BY <1>1, WithRules DEF Object!FileRules, RuleNames
  <1>3. \A x \in DOMAIN Object!PathRules : Object!PathRules[x] \in RuleNames
    <2> DEFINE r == Object!PathRules
    <2>1. DOMAIN r = {"path", "target", "iat", "exp", "host"}
      BY DEF Object!PathRules
    <2>2. /\ r["path"] \in RuleNames /\ r["target"] \in RuleNames /\ r["iat"] \in RuleNames
          /\ r["exp"] \in RuleNames /\ r["host"] \in RuleNames
      BY DEF Object!PathRules, RuleNames
    <2> QED BY <2>1, <2>2
  <1>4. \A x \in DOMAIN Object!ProofRules : Object!ProofRules[x] \in RuleNames
    <2> DEFINE r == [content_id |-> "id", iat |-> "always", exp |-> "always", collection |-> "nonempty",
                     review_url |-> "typed"]
    <2>1. DOMAIN r = {"content_id", "iat", "exp", "collection", "review_url"}
      OBVIOUS
    <2>2. /\ r["content_id"] \in RuleNames /\ r["iat"] \in RuleNames /\ r["exp"] \in RuleNames
          /\ r["collection"] \in RuleNames /\ r["review_url"] \in RuleNames
      BY DEF RuleNames
    <2>3. \A x \in DOMAIN r : r[x] \in RuleNames
      BY <2>1, <2>2
    <2>4. "always" \in RuleNames
      BY DEF RuleNames
    <2> HIDE DEF r
    <2> QED BY <2>3, <2>4, WithRules DEF Object!ProofRules, r
  <1>5. \A x \in DOMAIN Object!RelationRules : Object!RelationRules[x] \in RuleNames
    <2> DEFINE r == Object!RelationRules
    <2>1. DOMAIN r = {"source", "target", "relation", "iat", "exp", "range"}
      BY DEF Object!RelationRules
    <2>2. /\ r["source"] \in RuleNames /\ r["target"] \in RuleNames /\ r["relation"] \in RuleNames
          /\ r["iat"] \in RuleNames /\ r["exp"] \in RuleNames /\ r["range"] \in RuleNames
      BY DEF Object!RelationRules, RuleNames
    <2> QED BY <2>1, <2>2
  <1>6. \A x \in DOMAIN Object!PackageRules : Object!PackageRules[x] \in RuleNames
    BY WithRules DEF Object!PackageRules, RuleNames
  <1> QED BY <1>2, <1>3, <1>4, <1>5, <1>6 DEF Object!RulesOf, Object!Types

\* Decoding and encoding what was encoded changes nothing.
LEMMA EncodedStays ==
  ASSUME NEW rule \in RuleNames, NEW v \in Object!FieldValues(rule) \cup {"given"}
  PROVE  LET w == Object!Encoded(rule, v) IN Object!Encoded(rule, Object!Decoded(rule, w)) = w
  <1> DEFINE w == Object!Encoded(rule, v)
  <1>1. v \in {"absent", "default", "given"} /\ (rule = "always" => v # "absent")
    BY DEF Object!FieldValues, RuleNames
  <1>2. w = IF rule \in {"nonempty", "not default"} /\ v = "default" THEN "absent" ELSE v
    BY DEF Object!Encoded
  <1>3. Object!Decoded(rule, w) = w
    BY <1>1, <1>2 DEF Object!Decoded, RuleNames
  <1> QED BY <1>1, <1>2, <1>3 DEF Object!Encoded

\* An object as one of the codecs emits it is read and emitted again as itself.
LEMMA EmittedStays ==
  ASSUME ~OddBodies, NEW t \in Object!Types, NEW x \in Object!Emitted(t)
  PROVE  Object!Reencoded(t, x) = x
  <1> DEFINE R == Object!RulesOf(t)
  <1>1. PICK y \in Object!Instances(t) : x = [f \in DOMAIN y |-> Object!Encoded(R[f], y[f])]
    BY DEF Object!Emitted
  <1>2. PICK f \in DOMAIN R : y \in {[[g \in DOMAIN R |-> "given"] EXCEPT ![f] = v] : v \in Object!FieldValues(R[f])}
    BY DEF Object!Instances
  <1>3. DOMAIN y = DOMAIN R /\ \A g \in DOMAIN R : y[g] \in Object!FieldValues(R[g]) \cup {"given"}
    BY <1>2
  <1>4. \A g \in DOMAIN R : R[g] \in RuleNames
    BY RulesAreKnown
  <1>5. \A g \in DOMAIN R : Object!Encoded(R[g], Object!Decoded(R[g], x[g])) = x[g]
    BY <1>1, <1>3, <1>4, EncodedStays
  <1>6. x = [g \in DOMAIN R |-> x[g]] /\ DOMAIN x = DOMAIN R
    BY <1>1, <1>3
  <1> HIDE DEF R
  <1>7. [g \in DOMAIN x |-> Object!Encoded(R[g], Object!Decoded(R[g], x[g]))] = x
    BY <1>5, <1>6
  <1> QED BY <1>7 DEF Object!Reencoded, R

-----------------------------------------------------------------------------
(* NdnObjects: a directory is named by the ids of its children.            *)

IsItem(e) ==
  /\ DOMAIN e = {"kind", "type", "of"} /\ e = [kind |-> e.kind, type |-> e.type, of |-> e.of]
  /\ e.kind \in {"objId", "object", "objectJwt"}

IsDir(d) ==
  /\ DOMAIN d = {"name", "meta", "total", "count", "size", "entries"}
  /\ d = [name |-> d.name, meta |-> d.meta, total |-> d.total, count |-> d.count, size |-> d.size, entries |-> d.entries]
  /\ d.meta \in BOOLEAN
  /\ d.entries = [n \in DOMAIN d.entries |-> d.entries[n]]
  /\ \A n \in DOMAIN d.entries : IsItem(d.entries[n])

\* An object that was emitted is the canonical form of itself.
IsEmitted(x) ==
  /\ x = [type |-> x.type, id |-> x.id, json |-> x.json] /\ x.type \in Object!Types
  /\ x.id = Object!Id(x.type, x.json) /\ Object!Reencoded(x.type, x.json) = x.json

ObjectInv == IsDir(s1) /\ (~OddBodies => IsEmitted(s2))

\* A child is read back as it was stored, and by its id as the same child.
LEMMA ItemRoundTrip ==
  ASSUME NEW e, IsItem(e)
  PROVE  /\ Object!ItemFromJson(Object!ItemJson(e)) = e
         /\ LET r == Object!ItemFromJson(Object!ItemId(e)) IN IsItem(r) /\ Object!ItemId(r) = Object!ItemId(e)
  <1> DEFINE i == Object!ItemId(e)
  <1>1. DOMAIN i = {"type", "hash"} /\ i.type = e.type /\ i.hash = e.of
    BY DEF Object!ItemId, Object!Id
  <1>2. Object!ItemFromJson(i) = [kind |-> "objId", type |-> e.type, of |-> e.of]
    <2> HIDE DEF i
    <2> QED BY <1>1 DEF Object!ItemFromJson, Object!ByRef
  <1>3. CASE e.kind = "objId"
    <2>1. Object!ItemJson(e) = i
      BY <1>3 DEF Object!ItemJson
    <2> QED BY <1>2, <1>3, <2>1 DEF IsItem, Object!ItemId
  <1>4. CASE e.kind = "object"
    <2> DEFINE j == [obj_type |-> e.type, body |-> e.of]
    <2>1. Object!ItemJson(e) = j
      BY <1>4 DEF Object!ItemJson
    <2>2. DOMAIN j = {"obj_type", "body"} /\ j.obj_type = e.type /\ j.body = e.of
      OBVIOUS
    <2> HIDE DEF j
    <2>3. Object!ItemFromJson(j) = [kind |-> "object", type |-> e.type, of |-> e.of]
      BY <2>2 DEF Object!ItemFromJson, Object!Inline
    <2> QED BY <1>2, <1>4, <2>1, <2>3 DEF IsItem, Object!ItemId
  <1>5. CASE e.kind = "objectJwt"
    <2> DEFINE j == [obj_type |-> e.type, jwt |-> e.of]
    <2>1. Object!ItemJson(e) = j
      BY <1>5 DEF Object!ItemJson
    <2>2. DOMAIN j = {"obj_type", "jwt"} /\ j.obj_type = e.type /\ j.jwt = e.of
      OBVIOUS
    <2> HIDE DEF j
    <2>3. Object!ItemFromJson(j) = [kind |-> "objectJwt", type |-> e.type, of |-> e.of]
      BY <2>2 DEF Object!ItemFromJson, Object!Signed
    <2> QED BY <1>2, <1>5, <2>1, <2>3 DEF IsItem, Object!ItemId
  <1> QED BY <1>3, <1>4, <1>5 DEF IsItem

\* An entry that is put into a directory is found there, and nothing else in it changes.
LEMMA PutIsDir ==
  ASSUME NEW d, IsDir(d), NEW n, NEW item, IsItem(item)
  PROVE  LET p == Object!Put(d, n, item)
         IN /\ IsDir(p)
            /\ p.name = d.name /\ p.total = d.total /\ p.count = d.count /\ p.size = d.size
            /\ DOMAIN p.entries = DOMAIN d.entries \cup {n}
            /\ p.entries[n] = item
            /\ \A m \in DOMAIN d.entries : m # n => p.entries[m] = d.entries[m]
  <1> DEFINE es == Object!With([m \in {n} |-> item], d.entries)
             p  == [d EXCEPT !.entries = es]
  <1>1. /\ DOMAIN es = DOMAIN d.entries \cup {n} /\ es = [m \in DOMAIN es |-> es[m]]
        /\ es[n] = item /\ \A m \in DOMAIN d.entries : m # n => es[m] = d.entries[m]
    BY DEF Object!With
  <1>2. \A m \in DOMAIN es : IsItem(es[m])
    BY <1>1 DEF IsDir
  <1> HIDE DEF es
  <1>3. /\ DOMAIN p = {"name", "meta", "total", "count", "size", "entries"}
        /\ p.name = d.name /\ p.meta = d.meta /\ p.total = d.total /\ p.count = d.count /\ p.size = d.size
        /\ p.entries = es
        /\ p = [name |-> p.name, meta |-> p.meta, total |-> p.total, count |-> p.count, size |-> p.size, entries |-> p.entries]
    BY DEF IsDir
  <1>4. Object!Put(d, n, item) = p
    BY DEF Object!Put, es
  <1> HIDE DEF p
  <1>5. IsDir(p)
    BY <1>1, <1>2, <1>3 DEF IsDir
  <1> QED BY <1>1, <1>3, <1>4, <1>5

\* A directory with other counters and the same entries is a directory.
LEMMA SameEntriesIsDir ==
  ASSUME NEW d, IsDir(d), NEW p, DOMAIN p = DOMAIN d, p = [x \in DOMAIN p |-> p[x]],
         p.meta \in BOOLEAN, p.entries = d.entries
  PROVE  IsDir(p)
  <1>1. DOMAIN p = {"name", "meta", "total", "count", "size", "entries"}
    BY DEF IsDir
  <1>2. p = [name |-> p.name, meta |-> p.meta, total |-> p.total, count |-> p.count, size |-> p.size, entries |-> p.entries]
    BY <1>1
  <1> QED BY <1>1, <1>2 DEF IsDir

\* The counters of a directory may be set without changing what is in it.
LEMMA CountedIsDir ==
  ASSUME NEW d, IsDir(d), NEW a, NEW b, NEW c
  PROVE  IsDir([d EXCEPT !.size = a, !.count = b, !.total = c]) /\ IsDir([d EXCEPT !.total = c])
  <1>1. DOMAIN d = {"name", "meta", "total", "count", "size", "entries"} /\ d.meta \in BOOLEAN
    BY DEF IsDir
  <1>2. IsDir([d EXCEPT !.size = a, !.count = b, !.total = c])
    <2> DEFINE p == [d EXCEPT !.size = a, !.count = b, !.total = c]
    <2>1. DOMAIN p = DOMAIN d /\ p.meta = d.meta /\ p.entries = d.entries
      BY <1>1
    <2>2. p = [x \in DOMAIN p |-> p[x]]
      OBVIOUS
    <2> HIDE DEF p
    <2>3. IsDir(p)
      BY <1>1, <2>1, <2>2, SameEntriesIsDir
    <2> QED BY <2>3 DEF p
  <1>3. IsDir([d EXCEPT !.total = c])
    <2> DEFINE p == [d EXCEPT !.total = c]
    <2>1. DOMAIN p = DOMAIN d /\ p.meta = d.meta /\ p.entries = d.entries
      BY <1>1
    <2>2. p = [x \in DOMAIN p |-> p[x]]
      OBVIOUS
    <2> HIDE DEF p
    <2>3. IsDir(p)
      BY <1>1, <2>1, <2>2, SameEntriesIsDir
    <2> QED BY <2>3 DEF p
  <1> QED BY <1>2, <1>3

\* A directory with the same children under the same names has the same id.
LEMMA SameChildren ==
  ASSUME NEW d, NEW e, IsDir(d), IsDir(e),
         e.name = d.name, e.total = d.total, e.count = d.count, e.size = d.size,
         DOMAIN e.entries = DOMAIN d.entries,
         \A n \in DOMAIN d.entries : Object!ItemId(e.entries[n]) = Object!ItemId(d.entries[n])
  PROVE  Object!DirId(e) = Object!DirId(d) /\ Object!ChildIds(e) = Object!ChildIds(d)
  <1>1. Object!BodyOf(e) = Object!BodyOf(d)
    BY DEF Object!BodyOf
  <1>2. Object!DirJson(e) = Object!DirJson(d)
    BY <1>1 DEF Object!DirJson
  <1>3. Object!ChildIds(e) = Object!ChildIds(d)
    BY DEF Object!ChildIds
  <1> QED BY <1>2, <1>3 DEF Object!DirId

\* What is stored is read back as it was.
LEMMA StoredIsItself ==
  ASSUME NEW d, IsDir(d)
  PROVE  Object!DirFromJson(Object!StorageJson(d)) = d
  <1> DEFINE body == [n \in DOMAIN d.entries |-> Object!ItemJson(d.entries[n])]
             whole == [Object!DirJson(d) EXCEPT !.body = body]
             more == IF d.meta THEN [meta |-> TRUE] ELSE <<>>
             j == Object!StorageJson(d)
  <1>1. /\ DOMAIN whole = {"name", "total_size", "file_count", "file_size", "body"}
        /\ whole.name = d.name /\ whole.total_size = d.total /\ whole.file_count = d.count /\ whole.file_size = d.size
        /\ whole.body = body
    BY DEF Object!DirJson
  <1>2. DOMAIN more = (IF d.meta THEN {"meta"} ELSE {})
    OBVIOUS
  <1>3. j = Object!With(whole, more)
    BY DEF Object!StorageJson
  <1> HIDE DEF body, whole, more, j
  <1>4. DOMAIN j = DOMAIN whole \cup DOMAIN more /\ \A x \in DOMAIN whole : j[x] = whole[x]
    BY <1>3 DEF Object!With
  <1>5. j.name = d.name /\ j.total_size = d.total /\ j.file_count = d.count /\ j.file_size = d.size /\ j.body = body
    BY <1>1, <1>4
  <1>6. ("meta" \in DOMAIN j) = d.meta
    BY <1>1, <1>2, <1>4 DEF IsDir
  <1>7. [n \in DOMAIN body |-> Object!ItemFromJson(body[n])] = d.entries
    <2>1. \A n \in DOMAIN d.entries : Object!ItemFromJson(Object!ItemJson(d.entries[n])) = d.entries[n]
      BY ItemRoundTrip DEF IsDir
    <2>2. d.entries = [n \in DOMAIN d.entries |-> d.entries[n]]
      BY DEF IsDir
    <2> QED BY <2>1, <2>2 DEF body
  <1>8. Object!DirFromJson(j) = [name |-> d.name, meta |-> d.meta, total |-> d.total, count |-> d.count, size |-> d.size,
                                 entries |-> d.entries]
    BY <1>5, <1>6, <1>7 DEF Object!DirFromJson
  <1> QED BY <1>8 DEF IsDir, j

\* What is fetched by the hashed string has the same children by their ids.
LEMMA FetchedIsSame ==
  ASSUME NEW d, IsDir(d)
  PROVE  LET e == Object!DirFromJson(Object!DirJson(d))
         IN IsDir(e) /\ Object!DirId(e) = Object!DirId(d) /\ Object!ChildIds(e) = Object!ChildIds(d)
  <1> DEFINE j == Object!DirJson(d)
             e == Object!DirFromJson(j)
             body == Object!BodyOf(d)
  <1>1. /\ DOMAIN j = {"name", "total_size", "file_count", "file_size", "body"}
        /\ j.name = d.name /\ j.total_size = d.total /\ j.file_count = d.count /\ j.file_size = d.size
        /\ j.body = body
    BY DEF Object!DirJson
  <1>2. DOMAIN body = DOMAIN d.entries /\ \A n \in DOMAIN d.entries : body[n] = Object!ItemId(d.entries[n])
    BY DEF Object!BodyOf
  <1> HIDE DEF j, body
  <1>3. /\ DOMAIN e = {"name", "meta", "total", "count", "size", "entries"}
        /\ e.name = d.name /\ e.meta = FALSE /\ e.total = d.total /\ e.count = d.count /\ e.size = d.size
        /\ e.entries = [n \in DOMAIN body |-> Object!ItemFromJson(body[n])]
        /\ e = [name |-> e.name, meta |-> e.meta, total |-> e.total, count |-> e.count, size |-> e.size, entries |-> e.entries]
    <2>1. ("meta" \in DOMAIN j) = FALSE
      BY <1>1
    <2>2. e = [name |-> d.name, meta |-> FALSE, total |-> d.total, count |-> d.count, size |-> d.size,
               entries |-> [n \in DOMAIN body |-> Object!ItemFromJson(body[n])]]
      BY <1>1, <2>1 DEF Object!DirFromJson
    <2> HIDE DEF e
    <2> QED BY <2>2
  <1> HIDE DEF e
  <1>4. DOMAIN e.entries = DOMAIN d.entries /\ e.entries = [n \in DOMAIN e.entries |-> e.entries[n]]
    BY <1>2, <1>3
  <1>5. \A n \in DOMAIN d.entries :
          IsItem(e.entries[n]) /\ Object!ItemId(e.entries[n]) = Object!ItemId(d.entries[n])
    BY <1>2, <1>3, ItemRoundTrip DEF IsDir
  <1>6. IsDir(e)
    BY <1>3, <1>4, <1>5 DEF IsDir
  <1> QED BY <1>3, <1>4, <1>5, <1>6, SameChildren DEF e, j

-----------------------------------------------------------------------------
(* Steps of a directory, and of an object that is passed on.               *)

LEMMA ObjectInit == Object!Init => ObjectInv
  <1> SUFFICES ASSUME Object!Init PROVE ObjectInv
    OBVIOUS
  <1>1. IsDir(s1)
    BY DEF Object!Init, IsDir
  <1>2. PICK t \in Object!Types : \E x \in Object!Emitted(t) : s2 = [type |-> t, id |-> Object!Id(t, x), json |-> x]
    BY DEF Object!Init
  <1>3. PICK x \in Object!Emitted(t) : s2 = [type |-> t, id |-> Object!Id(t, x), json |-> x]
    BY <1>2
  <1>4. ~OddBodies => IsEmitted(s2)
    BY <1>3, EmittedStays DEF IsEmitted
  <1> QED BY <1>1, <1>4 DEF ObjectInv

\* A step that leaves object and directory alone keeps the invariant.
LEMMA ObjectStays == ObjectInv /\ UNCHANGED <<s1, s2>> => ObjectInv'
  BY DEF ObjectInv

\* What is put into a directory inline or by its id is an item.
LEMMA ItemsAre ==
  /\ \A t, h : IsItem(Object!Inline(t, h))
  /\ \A i : IsItem(Object!ByRef(i))
  BY DEF IsItem, Object!Inline, Object!ByRef

\* A child that comes signed has the id that it had.
LEMMA SignedIsSame ==
  ASSUME NEW d, IsDir(d), NEW n, Object!IsFile(d, n)
  PROVE  LET e == Object!Put(d, n, Object!Signed("cyfile", d.entries[n].of))
         IN IsDir(e) /\ Object!DirId(e) = Object!DirId(d) /\ Object!ChildIds(e) = Object!ChildIds(d)
  <1> DEFINE item == Object!Signed("cyfile", d.entries[n].of)
             e == Object!Put(d, n, item)
  <1>1. n \in DOMAIN d.entries /\ d.entries[n].type = "cyfile" /\ IsItem(d.entries[n])
    BY DEF Object!IsFile, IsDir
  <1>2. IsItem(item) /\ Object!ItemId(item) = Object!ItemId(d.entries[n])
    BY <1>1 DEF Object!Signed, IsItem, Object!ItemId
  <1> HIDE DEF item
  <1>3. /\ IsDir(e) /\ e.name = d.name /\ e.total = d.total /\ e.count = d.count /\ e.size = d.size
        /\ DOMAIN e.entries = DOMAIN d.entries \cup {n} /\ e.entries[n] = item
        /\ \A m \in DOMAIN d.entries : m # n => e.entries[m] = d.entries[m]
    BY <1>2, PutIsDir
  <1> HIDE DEF e
  <1>4. DOMAIN e.entries = DOMAIN d.entries
    BY <1>1, <1>3
  <1>5. \A m \in DOMAIN d.entries : Object!ItemId(e.entries[m]) = Object!ItemId(d.entries[m])
    BY <1>1, <1>2, <1>3
  <1>6. Object!DirId(e) = Object!DirId(d) /\ Object!ChildIds(e) = Object!ChildIds(d)
    BY <1>3, <1>4, <1>5, SameChildren
  <1> QED BY <1>3, <1>6 DEF e, item

\* An object that is passed on keeps the invariant.
LEMMA ObjectPassed ==
  ASSUME ObjectInv, Object!PassOn PROVE ObjectInv'
  <1>1. s2' = [s2 EXCEPT !.json = Object!Reencoded(s2.type, @)] /\ s1' = s1
    BY DEF Object!PassOn
  <1>2. ~OddBodies => s2' = s2
    BY <1>1 DEF ObjectInv, IsEmitted
  <1> QED BY <1>1, <1>2 DEF ObjectInv

\* Every operation on a directory leaves a directory.
LEMMA DirectorySteps ==
  ASSUME ObjectInv, Object!Next, ~Object!PassOn
  PROVE  IsDir(s1') /\ s2' = s2
  <1>1. IsDir(s1)
    BY DEF ObjectInv
  <1>2. ASSUME NEW n \in ItemNames, NEW f \in FileObjects, NEW s \in ItemSizes, Object!AddFile(n, f, s)
        PROVE  IsDir(s1') /\ s2' = s2
    <2> DEFINE p == Object!Put(s1, n, Object!Inline("cyfile", f))
    <2>1. IsDir(p)
      <3>1. IsItem(Object!Inline("cyfile", f))
        BY ItemsAre
      <3> QED BY <1>1, <3>1, PutIsDir
    <2>2. s1' = [p EXCEPT !.size = p.size + s, !.count = p.count + 1, !.total = p.total + s] /\ s2' = s2
      BY <1>2 DEF Object!AddFile
    <2> HIDE DEF p
    <2> QED BY <2>1, <2>2, CountedIsDir
  <1>3. ASSUME NEW n \in ItemNames, NEW t, NEW s \in ItemSizes, Object!AddDirectory(n, Object!Id(t, "sub"), s)
        PROVE  IsDir(s1') /\ s2' = s2
    <2> DEFINE p == Object!Put(s1, n, Object!ByRef(Object!Id(t, "sub")))
    <2>1. IsDir(p)
      <3>1. IsItem(Object!ByRef(Object!Id(t, "sub")))
        BY ItemsAre
      <3> QED BY <1>1, <3>1, PutIsDir
    <2>2. s1' = [p EXCEPT !.total = p.total + s] /\ s2' = s2
      BY <1>3 DEF Object!AddDirectory
    <2> HIDE DEF p
    <2> QED BY <2>1, <2>2, CountedIsDir
  <1>4. ASSUME NEW n \in ItemNames, Object!Delete(n)
        PROVE  IsDir(s1') /\ s2' = s2
    <2> DEFINE es == [m \in DOMAIN s1.entries \ {n} |-> s1.entries[m]]
               p == [s1 EXCEPT !.entries = es]
    <2>1. s1' = p /\ s2' = s2
      BY <1>4 DEF Object!Delete
    <2>2. es = [m \in DOMAIN es |-> es[m]] /\ \A m \in DOMAIN es : IsItem(es[m])
      BY <1>1 DEF IsDir
    <2> HIDE DEF es
    <2>3. /\ DOMAIN p = {"name", "meta", "total", "count", "size", "entries"} /\ p.meta = s1.meta /\ p.entries = es
          /\ s1.meta \in BOOLEAN
          /\ p = [name |-> p.name, meta |-> p.meta, total |-> p.total, count |-> p.count, size |-> p.size, entries |-> p.entries]
      BY <1>1 DEF IsDir
    <2> HIDE DEF p
    <2>4. IsDir(p)
      BY <2>2, <2>3 DEF IsDir
    <2> QED BY <2>1, <2>4
  <1>5. ASSUME NEW n \in ItemNames, Object!SignChild(n)
        PROVE  IsDir(s1') /\ s2' = s2
    BY <1>1, <1>5, SignedIsSame DEF Object!SignChild
  <1>6. CASE Object!SetMeta
    <2> DEFINE p == [s1 EXCEPT !.meta = TRUE]
    <2>1. /\ DOMAIN p = DOMAIN s1 /\ p = [x \in DOMAIN p |-> p[x]] /\ p.meta = TRUE /\ p.entries = s1.entries
      BY <1>1 DEF IsDir
    <2>2. s1' = p /\ s2' = s2
      BY <1>6 DEF Object!SetMeta
    <2> HIDE DEF p
    <2> QED BY <1>1, <2>1, <2>2, SameEntriesIsDir
  <1>7. CASE Object!Store
    BY <1>1, <1>7, StoredIsItself DEF Object!Store
  <1>8. CASE Object!Fetch
    BY <1>1, <1>8, FetchedIsSame DEF Object!Fetch
  <1> QED BY <1>2, <1>3, <1>4, <1>5, <1>6, <1>7, <1>8 DEF Object!Next

\* Every step of objects and directories keeps the invariant.
LEMMA ObjectNext ==
  ASSUME ObjectInv, Object!Next PROVE ObjectInv'
  <1>1. CASE Object!PassOn
    BY <1>1, ObjectPassed
  <1>2. CASE ~Object!PassOn
    <2>1. IsDir(s1') /\ s2' = s2
      BY <1>2, DirectorySteps
    <2>2. IsEmitted(s2') <=> IsEmitted(s2)
      BY <2>1
    <2> QED BY <2>1, <2>2 DEF ObjectInv
  <1> QED BY <1>1, <1>2

\* What the run checks of objects follows from their invariant.
LEMMA ObjectStates == ObjectInv /\ ~OddBodies => Object!PassedOnIsItself
  BY DEF ObjectInv, IsEmitted, Object!PassedOnIsItself, Object!Verifies, Object!Id

\* Storing, fetching and signing keep the id of a directory and of each of its children.
LEMMA ChildrenAreKept ==
  ASSUME ObjectInv, Object!Next \/ UNCHANGED <<s1, s2>>
  PROVE  Object!KeepsChildren
  <1>1. IsDir(s1)
    BY DEF ObjectInv
  <1>2. ASSUME NEW n \in ItemNames, Object!SignChild(n)
        PROVE  Object!DirId(s1') = Object!DirId(s1) /\ Object!ChildIds(s1') = Object!ChildIds(s1)
    BY <1>1, <1>2, SignedIsSame DEF Object!SignChild
  <1>3. ASSUME Object!Fetch
        PROVE  Object!DirId(s1') = Object!DirId(s1) /\ Object!ChildIds(s1') = Object!ChildIds(s1)
    BY <1>1, <1>3, FetchedIsSame DEF Object!Fetch
  <1>4. ASSUME Object!Store
        PROVE  Object!DirId(s1') = Object!DirId(s1) /\ Object!ChildIds(s1') = Object!ChildIds(s1)
    BY <1>1, <1>4, StoredIsItself DEF Object!Store
  <1> QED BY <1>2, <1>3, <1>4 DEF Object!KeepsChildren

-----------------------------------------------------------------------------
(* AiwsBuild: what a folder had of the Workspaces.                         *)

\* The folder had the files of a base that is recorded.
BaseHad(b, spaces, had) ==
  /\ b.rev \in Nat
  /\ b.ws \in Workspaces => b.rev <= spaces[b.ws].rev /\ \A n \in Aiws!All : had[b.ws][n] >= b.rev

\* A build has read no file later than its base had it.
BuildKnows(r, record, had) ==
  /\ DOMAIN r = {"stage", "ws", "zone", "force", "next", "files", "base", "knows"} /\ r.ws \in Workspaces
  /\ r.base.rev \in Nat
  /\ DOMAIN r.knows = Aiws!All
  /\ \A n \in Aiws!All : r.knows[n] \in Nat /\ had[r.ws][n] >= r.base.rev
  /\ r.stage \in {"read", "send"} => \A n \in Aiws!All : r.knows[n] >= r.base.rev
  /\ r.stage = "record" /\ r.zone => \A n \in Aiws!All : r.knows[n] >= Aiws!BaseOf(record, r.ws).rev

\* A pull has written the files before the next one.
PullKnows(r, spaces, had) ==
  /\ DOMAIN r = {"stage", "ws", "next", "files", "base"} /\ r.ws \in Workspaces /\ r.base.ws = r.ws
  /\ r.base.rev \in Nat /\ r.base.rev <= spaces[r.ws].rev
  /\ r.next \in Nat \ {0}
  /\ \A j \in DOMAIN AiwsNames : j < r.next => had[r.ws][AiwsNames[j]] >= r.base.rev

ToolKnows(r, record, spaces, had) ==
  /\ r.stage \in {"idle", "record", "list", "read", "send", "built", "write"}
  /\ r.stage \in {"record", "list", "read", "send"} => BuildKnows(r, record, had)
  /\ r.stage = "built" => BaseHad(r.base, spaces, had)
  /\ r.stage = "write" => PullKnows(r, spaces, had)

\* The newest revision of a file is known, and none was had before it was there.
SpacesAre(spaces, had) ==
  /\ DOMAIN spaces = Workspaces /\ DOMAIN had = Workspaces
  /\ \A w \in Workspaces :
       /\ spaces[w].rev \in Nat /\ DOMAIN had[w] = Aiws!All
       /\ \A n \in Aiws!All :
            /\ spaces[w].since[n] \in Nat /\ spaces[w].since[n] <= spaces[w].rev
            /\ had[w][n] \in Nat /\ had[w][n] <= spaces[w].rev

AiwsInv ==
  /\ SpacesAre(s3, s6) /\ BaseHad(s2, s3, s6)
  /\ DOMAIN s4 = AiwsTools /\ \A t \in AiwsTools : ToolKnows(s4[t], s2, s3, s6)
  /\ s7 = {}

\* What the run checks of Workspaces follows from their invariant.
LEMMA AiwsStates == AiwsInv => Aiws!NothingUnseenIsReplaced
  BY DEF AiwsInv, Aiws!NothingUnseenIsReplaced

\* Workspaces are changed, and a folder has had more of them.
Grown(spaces, had, spaces2, had2) ==
  \A w \in Workspaces :
    /\ spaces2[w].rev \in Nat /\ spaces[w].rev <= spaces2[w].rev
    /\ \A n \in Aiws!All : had2[w][n] \in Nat /\ had[w][n] <= had2[w][n]

\* What a tool knows of the Workspaces stays true as they grow.
LEMMA KnowsMore ==
  ASSUME NEW spaces, NEW had, NEW spaces2, NEW had2, SpacesAre(spaces, had), Grown(spaces, had, spaces2, had2)
  PROVE  /\ \A b : BaseHad(b, spaces, had) => BaseHad(b, spaces2, had2)
         /\ \A r, record : ToolKnows(r, record, spaces, had) => ToolKnows(r, record, spaces2, had2)
  <1>1. ASSUME NEW b, BaseHad(b, spaces, had) PROVE BaseHad(b, spaces2, had2)
    BY <1>1 DEF BaseHad, SpacesAre, Grown
  <1>2. ASSUME NEW r, NEW record, BuildKnows(r, record, had) PROVE BuildKnows(r, record, had2)
    <2>1. \A n \in Aiws!All : had2[r.ws][n] >= r.base.rev
      BY <1>2 DEF BuildKnows, SpacesAre, Grown
    <2> QED BY <1>2, <2>1 DEF BuildKnows
  <1>3. ASSUME NEW r, PullKnows(r, spaces, had) PROVE PullKnows(r, spaces2, had2)
    <2>1. \A j \in DOMAIN AiwsNames : AiwsNames[j] \in Aiws!All
      BY DEF Aiws!All
    <2>2. \A j \in DOMAIN AiwsNames : j < r.next => had2[r.ws][AiwsNames[j]] >= r.base.rev
      BY <1>3, <2>1 DEF PullKnows, SpacesAre, Grown
    <2>3. r.base.rev <= spaces2[r.ws].rev
      BY <1>3 DEF PullKnows, SpacesAre, Grown
    <2> QED BY <1>3, <2>2, <2>3 DEF PullKnows
  <1> QED BY <1>1, <1>2, <1>3 DEF ToolKnows

\* A folder that is based on nothing knows nothing.
LEMMA NoBaseHad ==
  ASSUME NEW spaces, NEW had, SpacesAre(spaces, had) PROVE BaseHad(Aiws!NoBase, spaces, had)
  <1>1. Aiws!NoBase.rev = 0
    BY DEF Aiws!NoBase
  <1> QED BY <1>1 DEF BaseHad, SpacesAre

\* Workspaces, folder and tools start in their invariant.
LEMMA AiwsInit == Aiws!Init => AiwsInv
  <1> SUFFICES ASSUME Aiws!Init PROVE AiwsInv
    OBVIOUS
  <1>1. SpacesAre(s3, s6)
    BY DEF Aiws!Init, SpacesAre
  <1>2. BaseHad(s2, s3, s6)
    BY <1>1, NoBaseHad DEF Aiws!Init
  <1>3. DOMAIN s4 = AiwsTools /\ s7 = {}
    BY DEF Aiws!Init
  <1>4. \A t \in AiwsTools : ToolKnows(s4[t], s2, s3, s6)
    BY DEF Aiws!Init, Aiws!Idle, ToolKnows
  <1> QED BY <1>1, <1>2, <1>3, <1>4 DEF AiwsInv

\* A step that leaves tools, folder and Workspaces alone keeps the invariant.
LEMMA AiwsStays == AiwsInv /\ UNCHANGED <<s2, s3, s4, s6, s7>> => AiwsInv'
  BY DEF AiwsInv

\* A step of one tool that changes what it is at.
LEMMA OneTool ==
  ASSUME AiwsInv, \A u, v \in AiwsTools : u = v, NEW t \in AiwsTools, NEW r,
         s4' = [s4 EXCEPT ![t] = r],
         SpacesAre(s3', s6'), BaseHad(s2', s3', s6'), ToolKnows(r, s2', s3', s6'), s7' = {}
  PROVE  AiwsInv'
  <1>1. DOMAIN s4' = AiwsTools /\ \A u \in AiwsTools : s4'[u] = r
    BY DEF AiwsInv
  <1> QED BY <1>1 DEF AiwsInv

\* An idle tool relies on nothing.
LEMMA IdleKnows == \A record, spaces, had : ToolKnows(Aiws!Idle, record, spaces, had)
  BY DEF ToolKnows, Aiws!Idle

-----------------------------------------------------------------------------
(* Its steps.                                                              *)

LEMMA AiwsForeign ==
  ASSUME AiwsInv, NEW w \in Workspaces, Aiws!Foreign(w) PROVE AiwsInv'
  <1>1. PICK n \in Aiws!All : s3' = Aiws!Changed(w, [s3[w].files EXCEPT ![n] = "theirs"])
    BY DEF Aiws!Foreign
  <1>2. UNCHANGED <<s2, s4, s6, s7>>
    BY DEF Aiws!Foreign
  <1>3. SpacesAre(s3', s6') /\ Grown(s3, s6, s3', s6')
    BY <1>1, <1>2 DEF AiwsInv, SpacesAre, Grown, Aiws!Changed
  <1> QED BY <1>2, <1>3, KnowsMore DEF AiwsInv

\* A build that begins keeps the invariant.
LEMMA AiwsBuildStarts ==
  ASSUME AiwsInv, \A u, v \in AiwsTools : u = v, NEW t \in AiwsTools, Aiws!BuildStarts(t) PROVE AiwsInv'
  <1>1. PICK w \in Workspaces, zone \in BOOLEAN, force \in BOOLEAN :
          s4' = [s4 EXCEPT ![t] = [stage |-> IF zone THEN "list" ELSE "record", ws |-> w, zone |-> zone, force |-> force,
                                   next |-> 1, files |-> Aiws!Nothing, base |-> Aiws!NoBase, knows |-> s6[w]]]
    BY DEF Aiws!BuildStarts
  <1> DEFINE r == [stage |-> IF zone THEN "list" ELSE "record", ws |-> w, zone |-> zone, force |-> force,
                   next |-> 1, files |-> Aiws!Nothing, base |-> Aiws!NoBase, knows |-> s6[w]]
  <1>2. UNCHANGED <<s2, s3, s6, s7>>
    BY DEF Aiws!BuildStarts
  <1>3. /\ DOMAIN r = {"stage", "ws", "zone", "force", "next", "files", "base", "knows"} /\ r.ws = w
        /\ r.base.rev = 0 /\ r.knows = s6[w]
        /\ r.stage \in {"list", "record"} /\ (r.stage = "record" => ~r.zone)
    BY DEF Aiws!NoBase
  <1> HIDE DEF r
  <1>4. DOMAIN s6[w] = Aiws!All /\ \A n \in Aiws!All : s6[w][n] \in Nat
    BY DEF AiwsInv, SpacesAre
  <1>5. BuildKnows(r, s2, s6)
    BY <1>3, <1>4 DEF BuildKnows
  <1>6. ToolKnows(r, s2, s3, s6)
    BY <1>3, <1>5 DEF ToolKnows
  <1> QED BY <1>1, <1>2, <1>6, OneTool DEF AiwsInv, r

\* The record that a build reads is that of the sources it collected, with one tool on a folder.
LEMMA AiwsReadRecord ==
  ASSUME AiwsInv, \A u, v \in AiwsTools : u = v, NEW t \in AiwsTools, Aiws!ReadRecord(t) PROVE AiwsInv'
  <1> DEFINE q == s4[t]
             r == [q EXCEPT !.base = Aiws!BaseOf(s2, q.ws), !.stage = IF q.zone THEN "read" ELSE "list"]
  <1>1. q.stage = "record" /\ BuildKnows(q, s2, s6)
    BY DEF Aiws!ReadRecord, AiwsInv, ToolKnows
  <1>2. s4' = [s4 EXCEPT ![t] = r] /\ UNCHANGED <<s2, s3, s6, s7>>
    BY DEF Aiws!ReadRecord
  <1>3. /\ DOMAIN r = DOMAIN q /\ r.ws = q.ws /\ r.base = Aiws!BaseOf(s2, q.ws) /\ r.knows = q.knows /\ r.zone = q.zone
        /\ r.stage = IF q.zone THEN "read" ELSE "list"
    BY <1>1 DEF BuildKnows
  <1>4. Aiws!BaseOf(s2, q.ws).rev \in Nat /\ \A n \in Aiws!All : s6[q.ws][n] >= Aiws!BaseOf(s2, q.ws).rev
    <2>1. CASE s2.ws = q.ws
      BY <1>1, <2>1 DEF Aiws!BaseOf, AiwsInv, BaseHad, BuildKnows
    <2>2. CASE s2.ws # q.ws
      <3>1. Aiws!BaseOf(s2, q.ws).rev = 0
        BY <2>2 DEF Aiws!BaseOf, Aiws!NoBase
      <3> QED BY <1>1, <3>1 DEF AiwsInv, SpacesAre, BuildKnows
    <2> QED BY <2>1, <2>2
  <1> HIDE DEF r
  <1>5. BuildKnows(r, s2, s6)
    BY <1>1, <1>3, <1>4 DEF BuildKnows
  <1>6. ToolKnows(r, s2, s3, s6)
    BY <1>3, <1>5 DEF ToolKnows
  <1> QED BY <1>2, <1>6, OneTool DEF AiwsInv

\* A Workspace that is looked at keeps the invariant.
LEMMA AiwsLists ==
  ASSUME AiwsInv, \A u, v \in AiwsTools : u = v, NEW t \in AiwsTools, Aiws!List(t) PROVE AiwsInv'
  <1> DEFINE q == s4[t]
             fs == [n \in Aiws!All |-> IF s1[n] = "" THEN ""
                                       ELSE IF q.zone /\ n \in AiwsObjects THEN s1[n] ELSE "listed"]
             r == [q EXCEPT !.stage = IF q.zone THEN "record" ELSE "read", !.knows = s6[q.ws], !.files = fs]
  <1>1. q.stage = "list" /\ BuildKnows(q, s2, s6)
    BY DEF Aiws!List, AiwsInv, ToolKnows
  <1>2. UNCHANGED <<s2, s3, s6, s7>>
    BY DEF Aiws!List
  <1>3. s4' = [s4 EXCEPT ![t] = Aiws!Idle] \/ s4' = [s4 EXCEPT ![t] = r]
    BY Zenon DEF Aiws!List
  <1> HIDE DEF fs
  <1>4. /\ DOMAIN r = DOMAIN q /\ r.ws = q.ws /\ r.base = q.base /\ r.knows = s6[q.ws] /\ r.zone = q.zone
        /\ r.stage = IF q.zone THEN "record" ELSE "read"
    BY <1>1 DEF BuildKnows
  <1> HIDE DEF r
  <1>5. DOMAIN s6[q.ws] = Aiws!All /\ \A n \in Aiws!All : s6[q.ws][n] \in Nat
    BY <1>1 DEF AiwsInv, SpacesAre, BuildKnows
  <1>6. \A n \in Aiws!All : s6[q.ws][n] >= Aiws!BaseOf(s2, q.ws).rev
    <2>1. CASE s2.ws = q.ws
      BY <1>1, <2>1 DEF Aiws!BaseOf, AiwsInv, BaseHad, BuildKnows
    <2>2. CASE s2.ws # q.ws
      <3>1. Aiws!BaseOf(s2, q.ws).rev = 0
        BY <2>2 DEF Aiws!BaseOf, Aiws!NoBase
      <3> QED BY <1>5, <3>1
    <2> QED BY <2>1, <2>2
  <1>7. BuildKnows(r, s2, s6)
    BY <1>1, <1>4, <1>5, <1>6 DEF BuildKnows
  <1>8. ToolKnows(r, s2, s3, s6)
    BY <1>4, <1>7 DEF ToolKnows
  <1> QED BY <1>2, <1>3, <1>8, OneTool, IdleKnows DEF AiwsInv

\* A Workspace whose sources are read keeps the invariant.
LEMMA AiwsReads ==
  ASSUME AiwsInv, \A u, v \in AiwsTools : u = v, NEW t \in AiwsTools, Aiws!Read(t) PROVE AiwsInv'
  <1> DEFINE q == s4[t]
             n == AiwsNames[q.next]
             ks == [q.knows EXCEPT ![n] = s6[q.ws][n]]
             r1 == [q EXCEPT !.stage = "send"]
             r2 == [q EXCEPT !.next = q.next + 1]
             r3 == [q EXCEPT !.next = q.next + 1, !.files[n] = s1[n], !.knows[n] = s6[q.ws][n]]
  <1>1. q.stage = "read" /\ BuildKnows(q, s2, s6)
    BY DEF Aiws!Read, AiwsInv, ToolKnows
  <1>2. UNCHANGED <<s2, s3, s6, s7>>
    BY DEF Aiws!Read
  <1>3. \/ s4' = [s4 EXCEPT ![t] = Aiws!Idle] \/ s4' = [s4 EXCEPT ![t] = r1]
        \/ s4' = [s4 EXCEPT ![t] = r2] \/ s4' = [s4 EXCEPT ![t] = r3]
    BY Zenon DEF Aiws!Read
  <1>4. /\ DOMAIN ks = Aiws!All
        /\ \A m \in Aiws!All : ks[m] \in Nat /\ ks[m] >= q.base.rev
    BY <1>1 DEF BuildKnows, AiwsInv, SpacesAre
  <1> HIDE DEF n
  <1>5. /\ DOMAIN r1 = DOMAIN q /\ r1.ws = q.ws /\ r1.base = q.base /\ r1.knows = q.knows /\ r1.stage = "send"
        /\ DOMAIN r2 = DOMAIN q /\ r2.ws = q.ws /\ r2.base = q.base /\ r2.knows = q.knows /\ r2.stage = "read"
        /\ DOMAIN r3 = DOMAIN q /\ r3.ws = q.ws /\ r3.base = q.base /\ r3.knows = ks /\ r3.stage = "read"
    BY <1>1 DEF BuildKnows
  <1> HIDE DEF ks, r1, r2, r3
  <1>6. BuildKnows(r1, s2, s6) /\ BuildKnows(r2, s2, s6) /\ BuildKnows(r3, s2, s6)
    BY <1>1, <1>4, <1>5 DEF BuildKnows
  <1>7. ToolKnows(r1, s2, s3, s6) /\ ToolKnows(r2, s2, s3, s6) /\ ToolKnows(r3, s2, s3, s6)
    BY <1>5, <1>6 DEF ToolKnows
  <1> QED BY <1>2, <1>3, <1>7, OneTool, IdleKnows DEF AiwsInv

\* What is accepted on a base replaces nothing that the folder had not had.
LEMMA AiwsSends ==
  ASSUME AiwsInv, \A u, v \in AiwsTools : u = v, NEW t \in AiwsTools, Aiws!Send(t) PROVE AiwsInv'
  <1> DEFINE q == s4[t]
             next == IF q.files = s3[q.ws].files THEN s3 ELSE Aiws!Changed(q.ws, q.files)
             r == [stage |-> "built", base |-> [ws |-> q.ws, rev |-> next[q.ws].rev]]
  <1>1. q.stage = "send" /\ BuildKnows(q, s2, s6) /\ q.ws \in Workspaces /\ UNCHANGED s2
    BY DEF Aiws!Send, AiwsInv, ToolKnows, BuildKnows
  <1>2. CASE s4' = [s4 EXCEPT ![t] = Aiws!Idle] /\ UNCHANGED <<s3, s7, s6>>
    BY <1>1, <1>2, OneTool, IdleKnows DEF AiwsInv
  <1>3. ASSUME Aiws!Accepts(t), s3' = next,
               s7' = (IF q.force \/ q.base = Aiws!NoBase THEN s7
                      ELSE s7 \cup {n \in Aiws!All : s3[q.ws].since[n] > q.knows[n]}),
               s6' = [s6 EXCEPT ![q.ws] = [n \in Aiws!All |-> next[q.ws].rev]],
               s4' = [s4 EXCEPT ![t] = r]
        PROVE  AiwsInv'
    <2>1. /\ s3[q.ws].rev \in Nat
          /\ \A n \in Aiws!All : /\ s3[q.ws].since[n] \in Nat /\ s3[q.ws].since[n] <= s3[q.ws].rev
                                 /\ q.knows[n] \in Nat /\ q.knows[n] >= q.base.rev
      BY <1>1 DEF AiwsInv, SpacesAre, BuildKnows
    <2>2. s7' = {}
      <3>1. CASE q.force \/ q.base = Aiws!NoBase
        BY <1>3, <3>1 DEF AiwsInv
      <3>2. CASE ~q.force /\ q.base # Aiws!NoBase
        <4>1. q.base.rev = s3[q.ws].rev
          BY <1>3, <3>2 DEF Aiws!Accepts
        <4>2. \A n \in Aiws!All : ~(s3[q.ws].since[n] > q.knows[n])
          BY <2>1, <4>1
        <4> QED BY <1>3, <3>2, <4>2 DEF AiwsInv
      <3> QED BY <3>1, <3>2
    <2>3. SpacesAre(next, s6) /\ Grown(s3, s6, next, s6) /\ \A w \in Workspaces : w # q.ws => next[w] = s3[w]
      <3>1. CASE q.files = s3[q.ws].files
        BY <3>1 DEF AiwsInv, SpacesAre, Grown
      <3>2. CASE q.files # s3[q.ws].files
        BY <1>1, <3>2 DEF AiwsInv, SpacesAre, Grown, Aiws!Changed
      <3> QED BY <3>1, <3>2
    <2> HIDE DEF next
    <2>4. SpacesAre(s3', s6') /\ Grown(s3, s6, s3', s6')
      BY <1>1, <1>3, <2>3 DEF SpacesAre, Grown
    <2>5. \A n \in Aiws!All : s6'[q.ws][n] = s3'[q.ws].rev
      BY <1>1, <1>3 DEF AiwsInv, SpacesAre
    <2>6. r.stage = "built" /\ r.base.ws = q.ws /\ r.base.rev = s3'[q.ws].rev
      BY <1>3
    <2> HIDE DEF r
    <2>7. BaseHad(r.base, s3', s6')
      BY <1>1, <2>4, <2>5, <2>6 DEF BaseHad, SpacesAre
    <2>8. ToolKnows(r, s2', s3', s6')
      BY <2>6, <2>7 DEF ToolKnows
    <2>9. BaseHad(s2', s3', s6')
      BY <1>1, <2>4, KnowsMore DEF AiwsInv
    <2> QED BY <1>3, <2>2, <2>4, <2>8, <2>9, OneTool
  <1> QED BY <1>2, <1>3, Zenon DEF Aiws!Send

\* What a tool records of its base is what its folder had.
LEMMA AiwsRecords ==
  ASSUME AiwsInv, \A u, v \in AiwsTools : u = v, NEW t \in AiwsTools, Aiws!Record(t) PROVE AiwsInv'
  <1>1. BaseHad(s4[t].base, s3, s6)
    BY DEF Aiws!Record, AiwsInv, ToolKnows
  <1>2. s2' = s4[t].base /\ s4' = [s4 EXCEPT ![t] = Aiws!Idle] /\ UNCHANGED <<s3, s6, s7>>
    BY DEF Aiws!Record
  <1> QED BY <1>1, <1>2, OneTool, IdleKnows DEF AiwsInv

\* A pull that begins keeps the invariant.
LEMMA AiwsPullStarts ==
  ASSUME AiwsInv, \A u, v \in AiwsTools : u = v, NEW t \in AiwsTools, Aiws!PullStarts(t) PROVE AiwsInv'
  <1>1. PICK w \in Workspaces :
          s4' = [s4 EXCEPT ![t] = [stage |-> "write", ws |-> w, next |-> 1, files |-> s3[w].files,
                                   base |-> [ws |-> w, rev |-> s3[w].rev]]]
    BY DEF Aiws!PullStarts
  <1> DEFINE r == [stage |-> "write", ws |-> w, next |-> 1, files |-> s3[w].files, base |-> [ws |-> w, rev |-> s3[w].rev]]
  <1>2. UNCHANGED <<s2, s3, s6, s7>>
    BY DEF Aiws!PullStarts
  <1>3. /\ DOMAIN r = {"stage", "ws", "next", "files", "base"} /\ r.stage = "write" /\ r.ws = w /\ r.next = 1
        /\ r.base.ws = w /\ r.base.rev = s3[w].rev
    OBVIOUS
  <1> HIDE DEF r
  <1>4. s3[w].rev \in Nat
    BY DEF AiwsInv, SpacesAre
  <1>5. \A j \in DOMAIN AiwsNames : ~(j < 1)
    BY FolderAssumption
  <1>6. PullKnows(r, s3, s6)
    BY <1>3, <1>4, <1>5 DEF PullKnows
  <1>7. ToolKnows(r, s2, s3, s6)
    BY <1>3, <1>6 DEF ToolKnows
  <1> QED BY <1>1, <1>2, <1>7, OneTool DEF AiwsInv, r

\* Each file that a pull writes keeps the invariant.
LEMMA AiwsWrites ==
  ASSUME AiwsInv, \A u, v \in AiwsTools : u = v, NEW t \in AiwsTools, Aiws!WriteFile(t) PROVE AiwsInv'
  <1> DEFINE q == s4[t]
             n == AiwsNames[q.next]
             r1 == [stage |-> "built", base |-> q.base]
             r2 == [q EXCEPT !.next = q.next + 1]
  <1>1. q.stage = "write" /\ PullKnows(q, s3, s6) /\ q.ws \in Workspaces
    BY DEF Aiws!WriteFile, AiwsInv, ToolKnows, PullKnows
  <1>2. /\ s6' = [s6 EXCEPT ![q.ws][n] = IF q.base.rev > s6[q.ws][n] THEN q.base.rev ELSE s6[q.ws][n]]
        /\ s4' = [s4 EXCEPT ![t] = IF q.next = Len(AiwsNames) THEN r1 ELSE r2]
        /\ UNCHANGED <<s2, s3, s7>>
    BY DEF Aiws!WriteFile
  <1>3. q.base.rev \in Nat /\ q.base.rev <= s3[q.ws].rev /\ q.next \in Nat \ {0} /\ q.base.ws = q.ws
        /\ DOMAIN q = {"stage", "ws", "next", "files", "base"}
    BY <1>1 DEF PullKnows
  <1> DEFINE mx == IF q.base.rev > s6[q.ws][n] THEN q.base.rev ELSE s6[q.ws][n]
  <1> HIDE DEF n
  <1>4. s6' = [s6 EXCEPT ![q.ws][n] = mx]
    BY <1>2
  <1>5. DOMAIN s6 = Workspaces /\ \A w \in Workspaces : DOMAIN s6[w] = Aiws!All /\ s3[w].rev \in Nat /\
          \A m \in Aiws!All : s6[w][m] \in Nat /\ s6[w][m] <= s3[w].rev
    BY DEF AiwsInv, SpacesAre
  <1>6. n \in Aiws!All => mx \in Nat /\ mx <= s3[q.ws].rev /\ mx >= s6[q.ws][n] /\ mx >= q.base.rev
    BY <1>1, <1>3, <1>5
  <1> HIDE DEF mx
  <1>7. /\ \A w \in Workspaces : DOMAIN s6'[w] = Aiws!All
        /\ \A w \in Workspaces : w # q.ws => s6'[w] = s6[w]
        /\ \A m \in Aiws!All : s6'[q.ws][m] = IF m = n THEN mx ELSE s6[q.ws][m]
    BY <1>1, <1>4, <1>5
  <1>8. \A w \in Workspaces : DOMAIN s6'[w] = Aiws!All /\
          \A m \in Aiws!All : s6'[w][m] \in Nat /\ s6'[w][m] <= s3[w].rev /\ s6[w][m] <= s6'[w][m]
    <2> SUFFICES ASSUME NEW w \in Workspaces, NEW m \in Aiws!All
                 PROVE  s6'[w][m] \in Nat /\ s6'[w][m] <= s3[w].rev /\ s6[w][m] <= s6'[w][m]
      BY <1>7
    <2>1. CASE w # q.ws
      BY <1>5, <1>7, <2>1
    <2>2. CASE w = q.ws
      BY <1>5, <1>6, <1>7, <2>2
    <2> QED BY <2>1, <2>2
  <1>9. n \in Aiws!All => s6'[q.ws][n] >= q.base.rev
    BY <1>6, <1>7
  <1>10. SpacesAre(s3', s6') /\ Grown(s3, s6, s3', s6')
    BY <1>2, <1>5, <1>8 DEF SpacesAre, Grown, AiwsInv
  <1>11. BaseHad(s2', s3', s6') /\ ToolKnows(q, s2', s3', s6')
    BY <1>2, <1>10, KnowsMore DEF AiwsInv
  <1>12. PullKnows(q, s3', s6')
    BY <1>1, <1>11 DEF ToolKnows
  <1>13. \A j \in DOMAIN AiwsNames : j < q.next + 1 => s6'[q.ws][AiwsNames[j]] >= q.base.rev
    <2> SUFFICES ASSUME NEW j \in DOMAIN AiwsNames, j < q.next + 1 PROVE s6'[q.ws][AiwsNames[j]] >= q.base.rev
      OBVIOUS
    <2>1. CASE j < q.next
      BY <1>12, <2>1 DEF PullKnows
    <2>2. CASE j = q.next
      BY <1>9, <2>2 DEF n, Aiws!All
    <2> QED BY <1>3, <2>1, <2>2, FolderAssumption
  <1>14. CASE q.next = Len(AiwsNames)
    <2>1. \A j \in DOMAIN AiwsNames : j < q.next + 1
      BY <1>3, <1>14, FolderAssumption
    <2>2. \A m \in Aiws!All : s6'[q.ws][m] >= q.base.rev
      BY <1>13, <2>1 DEF Aiws!All
    <2>3. BaseHad(q.base, s3', s6')
      BY <1>2, <1>3, <2>2 DEF BaseHad
    <2>4. ToolKnows(r1, s2', s3', s6')
      BY <2>3 DEF ToolKnows
    <2>5. s4' = [s4 EXCEPT ![t] = r1] /\ s7' = {}
      BY <1>2, <1>14 DEF AiwsInv
    <2> QED BY <1>10, <1>11, <2>4, <2>5, OneTool
  <1>15. CASE q.next # Len(AiwsNames)
    <2>1. /\ DOMAIN r2 = DOMAIN q /\ r2.stage = "write" /\ r2.ws = q.ws /\ r2.base = q.base /\ r2.next = q.next + 1
      BY <1>1, <1>3
    <2>2. s4' = [s4 EXCEPT ![t] = r2] /\ s7' = {}
      BY <1>2, <1>15 DEF AiwsInv
    <2> HIDE DEF r2
    <2>3. PullKnows(r2, s3', s6')
      BY <1>2, <1>3, <1>12, <1>13, <2>1 DEF PullKnows
    <2>4. ToolKnows(r2, s2', s3', s6')
      BY <2>1, <2>3 DEF ToolKnows
    <2> QED BY <1>10, <1>11, <2>2, <2>4, OneTool
  <1> QED BY <1>14, <1>15

\* A tool that ends keeps the invariant.
LEMMA AiwsEnds ==
  ASSUME AiwsInv, \A u, v \in AiwsTools : u = v, NEW t \in AiwsTools, Aiws!Ends(t) PROVE AiwsInv'
  <1>1. s4' = [s4 EXCEPT ![t] = Aiws!Idle] /\ UNCHANGED <<s3, s6, s7>> /\ s2' \in {s2, Aiws!NoBase}
    BY DEF Aiws!Ends
  <1>2. BaseHad(s2', s3', s6')
    BY <1>1, NoBaseHad DEF AiwsInv
  <1> QED BY <1>1, <1>2, OneTool, IdleKnows DEF AiwsInv

\* Every step of the tool, the user and the Workspaces keeps the invariant.
LEMMA AiwsNext ==
  ASSUME AiwsInv, \A u, v \in AiwsTools : u = v, Aiws!Next PROVE AiwsInv'
  <1>1. ASSUME NEW n \in Aiws!All, Aiws!Edit(n) PROVE AiwsInv'
    BY <1>1, AiwsStays DEF Aiws!Edit
  <1> QED BY <1>1, AiwsForeign, AiwsBuildStarts, AiwsReadRecord, AiwsLists, AiwsReads, AiwsSends, AiwsRecords,
             AiwsPullStarts, AiwsWrites, AiwsEnds DEF Aiws!Next

==============================================================================
