-------------------------- MODULE BnsExecutor_proofs --------------------------
(***************************************************************************)
(* Theorems about BnsExecutor, for any number of calls, keys, outside      *)
(* transactions and evictions.  Why no call overwrites what it has not     *)
(* read: a version names one state of the document (ReadsCurrent), a call  *)
(* signs the version it read with the records (SignsWhatItRead), and the   *)
(* registry takes only the current version.                                *)
(***************************************************************************)
EXTENDS BnsExecutor, SequenceTheorems, TLAPS

\* A call that has read the document knows its current records unless the
\* version moved on.
ReadsCurrent ==
  \A j \in Jobs :
    /\ plan[j].version <= doc.version
    /\ plan[j].version = doc.version => plan[j].records = doc.records

\* The version a call signed is that of the document it read.
SignsWhatItRead ==
  \A j \in Jobs :
    sub[j] # "none" \/ pc[j] = "signing" => expected[j] = plan[j].version

\* A call sends nothing before it has signed.
NothingSentYet ==
  \A j \in Jobs :
    pc[j] \in {"idle", "routing", "queued", "document", "prepared", "counting", "signing"}
      => sub[j] = "none"

IInv == TypeOK /\ ReadsCurrent /\ SignsWhatItRead /\ NothingSentYet

\* What an operation makes of a document is a document.
LEMMA EffectType ==
  ASSUME NEW j \in Jobs, NEW base \in SUBSET Values
  PROVE  Ledger!Effect(Op[j], base) \in SUBSET Values
  BY OpAssumption DEF Ledger!Effect

\* The initial state satisfies the invariant.
THEOREM InitIInv == Init => IInv
  <1> SUFFICES ASSUME Init PROVE IInv
    OBVIOUS
  <1>1. (CHOOSE k \in Keys : TRUE) \in Keys
    BY KeysAssumption
  <1>2. TypeOK
    BY <1>1, RuntimesAssumption DEF Init, TypeOK, NoNonce, Local, Outcomes
  <1>3. ReadsCurrent /\ SignsWhatItRead /\ NothingSentYet
    BY DEF Init, ReadsCurrent, SignsWhatItRead, NothingSentYet
  <1> QED BY <1>2, <1>3 DEF IInv

-----------------------------------------------------------------------------
(* The routing of a call: no builder, no chain.                            *)

\* How a call is routed (execute, bns_tx_executor.ts) concerns no transaction.
LEMMA Routing ==
  ASSUME IInv, NEW j \in Jobs,
         Execute(j) \/ KeyProvided(j) \/ WalletUserKnown(j) \/ BrowserRoute(j) \/ SnAnswers(j)
  PROVE  IInv'
  <1> USE DEF IInv, callVars, builderVars, chainVars
  <1>1. TypeOK'
    <2>1. CASE Execute(j)
      BY <2>1, RuntimesAssumption DEF Execute, TypeOK
    <2>2. CASE KeyProvided(j)
      <3>1. /\ \E p \in {"sn", "failed", "queued"} : pc' = [pc EXCEPT ![j] = p]
            /\ queue' = queue \/ queue' = Append(queue, j)
            /\ key' = key \/ \E k \in Keys : key' = [key EXCEPT ![j] = k]
            /\ UNCHANGED <<options, runtime, served, builderVars, sub, chainVars>>
        BY <2>2 DEF KeyProvided, ExecuteLocally, ExecuteWithSn
      <3>2. queue' \in Seq(Jobs)
        <4>1. queue \in Seq(Jobs)
          BY DEF TypeOK
        <4> QED BY <3>1, <4>1, AppendProperties
      <3>3. pc' \in [Jobs -> {"idle", "routing", "sn"} \cup Local \cup Outcomes]
        BY <3>1 DEF TypeOK, Local, Outcomes
      <3>4. key' \in [Jobs -> Keys]
        BY <3>1 DEF TypeOK
      <3> QED BY <3>1, <3>2, <3>3, <3>4 DEF TypeOK
    <2>3. CASE WalletUserKnown(j) \/ BrowserRoute(j) \/ SnAnswers(j)
      BY <2>3 DEF WalletUserKnown, BrowserRoute, SnAnswers, ExecuteWithSn, TypeOK, Outcomes
    <2> QED BY <2>1, <2>2, <2>3
  <1>2. UNCHANGED <<plan, expected, sub, doc>>
    BY DEF Execute, KeyProvided, WalletUserKnown, BrowserRoute, SnAnswers
  <1>3. /\ pc[j] \in {"idle", "routing", "sn"}
        /\ \E p \in {"routing", "sn", "failed", "ok", "queued"} : pc' = [pc EXCEPT ![j] = p]
        /\ pc'[j] = "queued" => pc[j] = "routing"
        /\ pc'[j] = "routing" => pc[j] = "idle"
    BY DEF Execute, KeyProvided, WalletUserKnown, BrowserRoute, SnAnswers,
           ExecuteWithSn, ExecuteLocally, TypeOK
  <1>4. ReadsCurrent'
    BY <1>2 DEF ReadsCurrent
  <1>5. SignsWhatItRead'
    BY <1>2, <1>3 DEF SignsWhatItRead, TypeOK
  <1>6. NothingSentYet'
    BY <1>2, <1>3 DEF NothingSentYet, TypeOK
  <1> QED BY <1>1, <1>4, <1>5, <1>6

\* A call begins, or the name is known, or it is over: nothing it read or
\* signed changes.
LEMMA Over ==
  ASSUME IInv, NEW j \in Jobs, NEW outcome \in Outcomes, JobOver(j, outcome),
         UNCHANGED <<callVars, queue, plan, nonce, expected, sub, chainVars>>
  PROVE  IInv'
  <1> USE DEF IInv, callVars, chainVars
  <1>1. TypeOK'
    BY DEF JobOver, AfterFailure, ServedAfter, TypeOK, NoNonce
  <1>2. ReadsCurrent' /\ SignsWhatItRead' /\ NothingSentYet'
    BY DEF JobOver, Outcomes, TypeOK, ReadsCurrent, SignsWhatItRead, NothingSentYet
  <1> QED BY <1>1, <1>2

\* A call whose turn it is reads the document and its version together.
LEMMA Reading ==
  ASSUME IInv, NEW j \in Jobs, Starts(j) \/ ReadsDocument(j)
  PROVE  IInv'
  <1> USE DEF IInv, callVars, builderVars, chainVars
  <1>1. TypeOK'
    <2>1. pc' \in [Jobs -> {"idle", "routing", "sn"} \cup Local \cup Outcomes]
      <3>1. CASE Starts(j) BY <3>1 DEF Starts, TypeOK, Local
      <3>2. CASE ReadsDocument(j) BY <3>2 DEF ReadsDocument, TypeOK, Local
      <3> QED BY <3>1, <3>2
    <2>2. plan' \in [Jobs -> [version : Nat, records : SUBSET Values]]
      <3>1. CASE Starts(j) BY <3>1 DEF Starts, TypeOK
      <3>2. CASE ReadsDocument(j)
        <4>1. [version |-> doc.version, records |-> doc.records]
                \in [version : Nat, records : SUBSET Values]
          BY DEF TypeOK
        <4> QED BY <3>2, <4>1 DEF ReadsDocument, VersionRead, TypeOK
      <3> QED BY <3>1, <3>2
    <2>3. UNCHANGED <<options, runtime, key, queue, served, nextNonce, nonce, expected,
                      sub, mined, foreign, outside, doc>>
      BY DEF Starts, ReadsDocument
    <2> QED BY <2>1, <2>2, <2>3 DEF TypeOK
  <1>2. CASE Starts(j)
    BY <1>1, <1>2 DEF Starts, TypeOK, ReadsCurrent, SignsWhatItRead, NothingSentYet
  <1>3. CASE ReadsDocument(j)
    <2>1. ReadsCurrent'
      BY <1>3 DEF ReadsDocument, VersionRead, TypeOK, ReadsCurrent
    <2>2. SignsWhatItRead' /\ NothingSentYet'
      BY <1>3 DEF ReadsDocument, TypeOK, SignsWhatItRead, NothingSentYet
    <2> QED BY <1>1, <2>1, <2>2
  <1> QED BY <1>2, <1>3

\* A nonce is taken and the transaction signed with what was read.
LEMMA Allocating ==
  ASSUME IInv, NEW j \in Jobs, Prepared(j) \/ Counted(j)
  PROVE  IInv'
  <1> USE DEF IInv, callVars, chainVars
  <1>1. CASE \E n \in Nat : Allocates(j, n)
    <2> PICK n \in Nat : Allocates(j, n)
      BY <1>1
    <2>0. /\ UNCHANGED <<callVars, queue, served, plan, sub, chainVars>>
          /\ sub[j] = "none"
      BY DEF Prepared, Counted, NothingSentYet
    <2>1. TypeOK'
      BY <2>0 DEF Allocates, ExpectedVersion, TypeOK, Local
    <2>2. ReadsCurrent' /\ SignsWhatItRead' /\ NothingSentYet'
      BY <2>0 DEF Allocates, ExpectedVersion, TypeOK, ReadsCurrent, SignsWhatItRead, NothingSentYet
    <2> QED BY <2>1, <2>2
  <1>2. CASE pc' = [pc EXCEPT ![j] = "counting"] /\ UNCHANGED <<nextNonce, nonce, expected>>
    <2>0. /\ UNCHANGED <<callVars, queue, served, plan, sub, chainVars>>
          /\ sub[j] = "none"
      BY DEF Prepared, Counted, NothingSentYet
    <2>1. TypeOK'
      BY <1>2, <2>0 DEF TypeOK, Local
    <2>2. ReadsCurrent' /\ SignsWhatItRead' /\ NothingSentYet'
      BY <1>2, <2>0 DEF TypeOK, ReadsCurrent, SignsWhatItRead, NothingSentYet
    <2> QED BY <2>1, <2>2
  <1>3. Prepared(j) => (\E n \in Nat : Allocates(j, n))
                         \/ (pc' = [pc EXCEPT ![j] = "counting"] /\ UNCHANGED <<nextNonce, nonce, expected>>)
    BY DEF Prepared, TypeOK
  <1>4. Counted(j) => \E n \in Nat : Allocates(j, n)
    <2> SUFFICES ASSUME Counted(j) PROVE \E n \in Nat : Allocates(j, n)
      OBVIOUS
    <2> PICK n \in CountOf(key[j]) : Allocates(j, n)
      BY DEF Counted
    <2>1. n \in mined[key[j]] .. mined[key[j]] + Cardinality(Taken(key[j])) /\ mined[key[j]] \in Nat
      BY DEF CountOf, PendingCount, TypeOK
    <2> QED BY <2>1
  <1> QED BY <1>1, <1>2, <1>3, <1>4

\* What the caller sends, or gives up, changes no document.
LEMMA Submitting ==
  ASSUME IInv, NEW j \in Jobs, Submits(j) \/ SubmitAnswered(j) \/ SubmitUnanswered(j) \/ BuildFails(j)
  PROVE  IInv'
  <1>1. CASE Submits(j)
    <2> USE DEF IInv, callVars, builderVars, chainVars
    <2>1. TypeOK'
      BY <1>1 DEF Submits, TypeOK, Local
    <2>2. ReadsCurrent' /\ SignsWhatItRead' /\ NothingSentYet'
      BY <1>1 DEF Submits, TypeOK, ReadsCurrent, SignsWhatItRead, NothingSentYet
    <2> QED BY <2>1, <2>2
  <1>2. CASE SubmitAnswered(j) \/ SubmitUnanswered(j) \/ BuildFails(j)
    BY <1>2, Over DEF SubmitAnswered, SubmitUnanswered, BuildFails, Outcomes
  <1> QED BY <1>1, <1>2

-----------------------------------------------------------------------------
(* The chain.                                                              *)

\* The chain: only a transaction of the current version changes the document.
LEMMA Chain ==
  ASSUME IInv, NEW j \in Jobs, NodeStep(j)
  PROVE  IInv'
  <1> USE DEF IInv, callVars, builderVars, chainVars
  <1>0. sub[j] \in {"wire", "pool"}
    BY DEF NodeStep, NodeReceives, Lost, Mines, Evicts
  <1>1. CASE NodeReceives(j) \/ Lost(j) \/ Evicts(j)
    <2>1. /\ UNCHANGED <<options, pc, runtime, key, queue, served, nextNonce, plan, nonce,
                         expected, mined, foreign, outside, doc>>
          /\ \E s \in {"rejected", "pool", "lost", "evicted"} : sub' = [sub EXCEPT ![j] = s]
      BY <1>1 DEF NodeReceives, Lost, Evicts
    <2>2. TypeOK'
      BY <2>1 DEF TypeOK
    <2>3. ReadsCurrent' /\ SignsWhatItRead' /\ NothingSentYet'
      BY <1>0, <2>1 DEF TypeOK, ReadsCurrent, SignsWhatItRead, NothingSentYet
    <2> QED BY <2>2, <2>3
  <1>2. CASE Mines(j)
    <2>1. UNCHANGED <<options, pc, runtime, key, queue, served, nextNonce, plan, nonce,
                      expected, foreign, outside>>
      BY <1>2 DEF Mines
    <2>2. /\ \E s \in {"mined", "reverted"} : sub' = [sub EXCEPT ![j] = s]
          /\ mined' = [mined EXCEPT ![key[j]] = @ + 1]
      BY <1>2 DEF Mines
    <2>3. \/ UNCHANGED doc
          \/ \E new \in SUBSET Values : doc' = [version |-> doc.version + 1, records |-> new]
      BY <1>2, EffectType DEF Mines, TypeOK
    <2>4. TypeOK'
      <3>1. key[j] \in Keys /\ mined' \in [Keys -> Nat]
        BY <2>2 DEF TypeOK
      <3>2. sub' \in [Jobs -> {"none", "wire", "pool", "mined", "reverted", "rejected", "evicted", "lost"}]
        BY <2>2 DEF TypeOK
      <3>3. doc' \in [version : Nat, records : SUBSET Values]
        BY <2>3 DEF TypeOK
      <3> QED BY <2>1, <3>1, <3>2, <3>3 DEF TypeOK
    <2>5. ReadsCurrent'
      BY <2>1, <2>3 DEF ReadsCurrent, TypeOK
    <2>6. SignsWhatItRead' /\ NothingSentYet'
      BY <1>0, <2>1, <2>2 DEF TypeOK, SignsWhatItRead, NothingSentYet
    <2> QED BY <2>4, <2>5, <2>6
  <1> QED BY <1>1, <1>2 DEF NodeStep

\* Transactions that others send with the key are none of a call.
LEMMA Others ==
  ASSUME IInv, NEW k \in Keys, Outside(k)
  PROVE  IInv'
  <1> USE DEF IInv, callVars, builderVars, chainVars
  <1>1. CASE OutsideSubmits(k)
    <2>1. \A n \in PendingCount(k) : n \in Nat
      BY DEF PendingCount, TypeOK
    <2>2. TypeOK'
      BY <1>1, <2>1 DEF OutsideSubmits, TypeOK
    <2>3. ReadsCurrent' /\ SignsWhatItRead' /\ NothingSentYet'
      BY <1>1 DEF OutsideSubmits, ReadsCurrent, SignsWhatItRead, NothingSentYet
    <2> QED BY <2>2, <2>3
  <1>2. CASE OutsideMined(k)
    <2>1. \/ UNCHANGED doc
          \/ \E new \in SUBSET Values : doc' = [version |-> doc.version + 1, records |-> new]
      BY <1>2 DEF OutsideMined
    <2>2. TypeOK'
      BY <1>2, <2>1 DEF OutsideMined, TypeOK
    <2>3. ReadsCurrent'
      BY <1>2, <2>1 DEF OutsideMined, ReadsCurrent, TypeOK
    <2>4. SignsWhatItRead' /\ NothingSentYet'
      BY <1>2 DEF OutsideMined, SignsWhatItRead, NothingSentYet
    <2> QED BY <2>2, <2>3, <2>4
  <1> QED BY <1>1, <1>2 DEF Outside

-----------------------------------------------------------------------------

\* The inductive invariant of every execution.
THEOREM InductiveInvariant == Spec => []IInv
  <1>1. IInv /\ [Next]_vars => IInv'
    <2> SUFFICES ASSUME IInv, [Next]_vars PROVE IInv'
      OBVIOUS
    <2>1. CASE UNCHANGED vars
      BY <2>1 DEF vars, IInv, TypeOK, ReadsCurrent, SignsWhatItRead, NothingSentYet
    <2>2. ASSUME NEW j \in Jobs, Execute(j) \/ JobStep(j) \/ Answer(j) \/ NodeStep(j)
          PROVE  IInv'
      BY <2>2, Routing, Reading, Allocating, Submitting, Chain DEF JobStep, Answer
    <2>3. ASSUME NEW k \in Keys, Outside(k)
          PROVE  IInv'
      BY <2>3, Others
    <2> QED BY <2>1, <2>2, <2>3 DEF Next
  <1> QED BY <1>1, InitIInv, PTL DEF Spec

\* Every variable keeps its type, whatever the calls and the chain do.
THEOREM TypeCorrect == Spec => []TypeOK
  BY InductiveInvariant, PTL DEF IInv

\* The executor implements the ledger: an operation that takes effect does so
\* on the document as it is when its transaction is mined, never on the one
\* an overtaken read returned.
THEOREM LedgerImplemented == Spec => ImplementsLedger
  <1>1. Init => Ledger!Init
    BY DEF Init, Ledger!Init
  <1>2. IInv /\ [Next]_vars => [Ledger!Next]_<<doc.records, {j \in Jobs : sub[j] = "mined"}>>
    <2> SUFFICES ASSUME IInv, [Next]_vars
                 PROVE  [Ledger!Next]_<<doc.records, {j \in Jobs : sub[j] = "mined"}>>
      OBVIOUS
    <2> DEFINE done == {j \in Jobs : sub[j] = "mined"}
    <2>1. CASE UNCHANGED vars
      BY <2>1 DEF vars
    <2>2. ASSUME NEW j \in Jobs, Mines(j)
          PROVE  [Ledger!Next]_<<doc.records, done>>
      <3>1. CASE UNCHANGED doc /\ sub' = [sub EXCEPT ![j] = "reverted"]
        BY <2>2, <3>1 DEF Mines, IInv, TypeOK
      <3>2. CASE /\ expected[j] = doc.version
                 /\ sub' = [sub EXCEPT ![j] = "mined"]
                 /\ doc' = [version |-> doc.version + 1,
                            records |-> Ledger!Effect(Op[j], plan[j].records)]
        <4>1. sub[j] = "pool"
          BY <2>2 DEF Mines
        <4>2. plan[j].records = doc.records
          BY <3>2, <4>1 DEF IInv, SignsWhatItRead, ReadsCurrent
        <4>3. doc'.records = Ledger!Effect(Op[j], doc.records)
          BY <3>2, <4>2
        <4>4. j \notin done /\ done' = done \cup {j}
          BY <3>2, <4>1 DEF IInv, TypeOK
        <4> QED BY <4>3, <4>4 DEF Ledger!Next, Ledger!Applies
      <3> QED BY <2>2, <3>1, <3>2 DEF Mines
    <2>3. ASSUME NEW k \in Keys, OutsideMined(k)
          PROVE  [Ledger!Next]_<<doc.records, done>>
      BY <2>3 DEF OutsideMined, Ledger!Next, Ledger!OutsideUpdate
    <2>4. ASSUME NEW k \in Keys, OutsideSubmits(k)
          PROVE  [Ledger!Next]_<<doc.records, done>>
      BY <2>4 DEF OutsideSubmits
    <2>5. ASSUME NEW j \in Jobs, NodeReceives(j) \/ Lost(j) \/ Evicts(j)
          PROVE  [Ledger!Next]_<<doc.records, done>>
      BY <2>5 DEF NodeReceives, Lost, Evicts, chainVars, IInv, TypeOK
    <2>6. ASSUME NEW j \in Jobs, Execute(j) \/ JobStep(j) \/ Answer(j)
          PROVE  [Ledger!Next]_<<doc.records, done>>
      <3>1. CASE Submits(j)
        <4>1. sub[j] = "none" /\ sub' = [sub EXCEPT ![j] = "wire"]
          BY <3>1 DEF Submits, IInv, NothingSentYet
        <4>2. done' = done
          BY <4>1 DEF IInv, TypeOK
        <4> QED BY <3>1, <4>2 DEF Submits, chainVars
      <3>2. CASE ~Submits(j)
        BY <2>6, <3>2
        DEF JobStep, Answer, Execute, BrowserRoute, Starts, Prepared, SubmitAnswered,
            KeyProvided, WalletUserKnown, SnAnswers, ReadsDocument, Counted, BuildFails,
            SubmitUnanswered, chainVars
      <3> QED BY <3>1, <3>2
    <2> QED BY <2>1, <2>2, <2>3, <2>4, <2>5, <2>6 DEF Next, NodeStep, Outside
  <1> QED BY <1>1, <1>2, InductiveInvariant, PTL DEF Spec, ImplementsLedger, Ledger!Spec

-----------------------------------------------------------------------------
(* The nonces.  localExecutionTail lets one call at a time have a nonce     *)
(* (InTurn), and the cached one follows that of an accepted call (Cached),  *)
(* so that with one account no nonce is left free below one that is used    *)
(* (Filled), those of accepted calls grow (Ordered), and as long as nobody  *)
(* interferes the next one is new (Unused).                                 *)

\* A call has a nonce and is not over.
Sending == {"signing", "submitting"}

\* The calls that were chained.
Queued == {queue[a] : a \in DOMAIN queue}

\* No call has a nonce and is not over.
Clear == \A j \in Jobs : pc[j] \notin Sending

\* Whatever was sent so far was sent for account k.
Agrees(k) == \A s \in Signed : key[s] = k

\* The nonces of account k that the node has mined or holds.
Used(k) == {n \in Nat : n < mined[k]} \cup Taken(k)

\* One account, nothing evicted; besides, no use of the key by others and an
\* answer to every submission.
Calm == OneKey /\ Evicted = {}
Clean == Calm /\ outside = 0 /\ \A j \in Jobs : pc[j] # "unanswered"

\* The calls of the queue are over, then one is under way, then they wait.
InTurn ==
  /\ served <= Len(queue)
  /\ \A a \in DOMAIN queue :
       /\ a <= served => pc[queue[a]] \in Outcomes
       /\ a = served + 1 => pc[queue[a]] \in Local
       /\ a > served + 1 => pc[queue[a]] = "queued"
  /\ \A a, b \in DOMAIN queue : queue[a] = queue[b] => a = b
  /\ \A j \in Jobs : pc[j] \in Local => j \in Queued

\* What a call knows of its transaction agrees with what became of it.
Told ==
  \A j \in Jobs :
    /\ sub[j] # "none" => j \in Queued /\ pc[j] \in {"submitting", "ok", "rejected", "unanswered"}
    /\ pc[j] = "ok" /\ j \in Queued => sub[j] \in {"pool", "mined", "reverted", "evicted"}
    /\ pc[j] = "submitting" => sub[j] # "none"
    /\ sub[j] \in {"wire", "lost"} => pc[j] \in {"submitting", "unanswered"}
    /\ sub[j] \in {"mined", "reverted"} => nonce[j] < mined[key[j]]

\* The cached nonce follows that of the call under way or of one accepted.
Cached ==
  /\ \A j \in Jobs : pc[j] \in Sending => nextNonce = nonce[j] + 1
  /\ nextNonce # NoNonce =>
       \E s \in Jobs : nextNonce = nonce[s] + 1 /\ (pc[s] \in Sending \/ (pc[s] = "ok" /\ s \in Queued))
  /\ outside = 0 => \A k \in Keys : foreign[k] = {}

\* Call j sent its transaction, or may send it without a second account.
Sends(j) == sub[j] # "none" \/ (pc[j] = "signing" /\ Agrees(key[j]))

\* No nonce below a used one, or below one to be sent, is free.
Filled ==
  Calm =>
    /\ \A k \in Keys : \A n \in Used(k) : \A m \in Nat : m < n => m \in Used(k)
    /\ \A j \in Jobs : Sends(j) => \A m \in Nat : m < nonce[j] => m \in Used(key[j])

\* The nonces of the accepted calls grow with the queue, and the next one is
\* above all of them.
Ordered ==
  Calm =>
    /\ QueueOrder
    /\ Clear /\ nextNonce # NoNonce => \A s \in Queued : pc[s] = "ok" => nonce[s] < nextNonce
    /\ \A j \in Jobs : pc[j] \in Sending /\ Sends(j) =>
         \A s \in Queued : pc[s] = "ok" => nonce[s] < nonce[j]

\* The nonce to be sent is above all that are used.
Unused ==
  Clean =>
    /\ \A j \in Jobs : sub[j] # "rejected"
    /\ Clear /\ nextNonce # NoNonce =>
          \A k \in Keys : Agrees(k) => \A n \in Used(k) : n < nextNonce
    /\ \A j \in Jobs : (pc[j] = "signing" /\ Agrees(key[j])) \/ sub[j] = "wire" =>
         \A n \in Used(key[j]) : n < nonce[j]
    /\ \A j \in Jobs : pc[j] = "submitting" => \A n \in Used(key[j]) : n <= nonce[j]

NonceInv == TypeOK /\ InTurn /\ Told /\ Cached /\ Filled /\ Ordered /\ Unused

\* The positions of the queue are numbers.
LEMMA Positions ==
  ASSUME TypeOK
  PROVE  /\ queue \in Seq(Jobs) /\ served \in Nat /\ Len(queue) \in Nat
         /\ DOMAIN queue = 1 .. Len(queue)
         /\ \A a \in DOMAIN queue : a \in Nat /\ queue[a] \in Jobs
  <1>1. queue \in Seq(Jobs) /\ served \in Nat
    BY DEF TypeOK
  <1> QED BY <1>1

\* Only the call whose turn it is has left the queue and is not over.
LEMMA OneActive ==
  ASSUME TypeOK, InTurn, NEW j \in Jobs, pc[j] \in Local, pc[j] # "queued"
  PROVE  /\ served + 1 \in DOMAIN queue /\ queue[served + 1] = j
         /\ \A i \in Jobs : pc[i] \in Local /\ pc[i] # "queued" => i = j
  <1>1. \A i \in Jobs : pc[i] \in Local /\ pc[i] # "queued"
          => served + 1 \in DOMAIN queue /\ queue[served + 1] = i
    <2> TAKE i \in Jobs
    <2> HAVE pc[i] \in Local /\ pc[i] # "queued"
    <2>1. PICK a \in DOMAIN queue : queue[a] = i
      BY DEF InTurn, Queued
    <2>2. a \in Nat /\ served \in Nat
      BY Positions
    <2>3. Local \cap Outcomes = {}
      BY DEF Local, Outcomes
    <2> QED BY <2>1, <2>2, <2>3 DEF InTurn
  <1> QED BY <1>1

\* Nonces are numbers.
LEMMA UsedAreNumbers == TypeOK => \A k \in Keys : Used(k) \subseteq Nat
  BY DEF TypeOK, Used, Taken

\* What a step leaves of the nonces if it changes the call of no transaction.
LEMMA SameUse ==
  ASSUME TypeOK, UNCHANGED <<sub, mined, foreign>>,
         \A s \in Signed : key'[s] = key[s] /\ nonce'[s] = nonce[s]
  PROVE  /\ Signed' = Signed /\ Evicted' = Evicted /\ OneKey' = OneKey
         /\ \A k \in Keys : Used(k)' = Used(k) /\ Agrees(k)' = Agrees(k)
  <1>1. Signed' = Signed /\ Evicted' = Evicted /\ OneKey' = OneKey
    BY DEF Signed, Evicted, OneKey
  <1>2. ASSUME NEW k \in Keys PROVE Used(k)' = Used(k)
    <2>1. Taken(k)' = Taken(k)
      BY DEF Taken, Signed
    <2> QED BY <2>1 DEF Used
  <1>3. ASSUME NEW k \in Keys PROVE Agrees(k)' = Agrees(k)
    BY <1>1 DEF Agrees
  <1> QED BY <1>1, <1>2, <1>3

\* A call is routed: nothing is sent, and a local call joins the queue at its end.
LEMMA RoutingNonce ==
  ASSUME NonceInv, TypeOK', NEW j \in Jobs,
         Execute(j) \/ KeyProvided(j) \/ WalletUserKnown(j) \/ BrowserRoute(j) \/ SnAnswers(j)
  PROVE  NonceInv'
  <1>1. /\ UNCHANGED <<options, served, builderVars, sub, chainVars>>
        /\ pc[j] \in {"idle", "routing", "sn"}
        /\ \E p \in {"routing", "sn", "failed", "ok", "queued"} :
             /\ pc' = [pc EXCEPT ![j] = p]
             /\ IF p = "queued" THEN queue' = Append(queue, j) ELSE queue' = queue
        /\ key' = key \/ \E k \in Keys : key' = [key EXCEPT ![j] = k]
    BY DEF Execute, KeyProvided, WalletUserKnown, BrowserRoute, SnAnswers, ExecuteWithSn,
           ExecuteLocally, callVars
  <1>2. PICK p \in {"routing", "sn", "failed", "ok", "queued"} :
             /\ pc' = [pc EXCEPT ![j] = p]
             /\ IF p = "queued" THEN queue' = Append(queue, j) ELSE queue' = queue
    BY <1>1
  <1> USE DEF NonceInv, builderVars, chainVars
  <1>3. j \notin Queued /\ sub[j] = "none" /\ j \notin Signed
    <2>1. \A a \in DOMAIN queue : a \in Nat /\ served \in Nat
      BY Positions
    <2>2. \A a \in DOMAIN queue : pc[queue[a]] \in Local \cup Outcomes
      BY <2>1 DEF InTurn, Local
    <2>3. j \notin Queued
      BY <1>1, <2>2 DEF Queued, Local, Outcomes
    <2> QED BY <2>3 DEF Told, Signed
  <1>4. /\ Signed' = Signed /\ Evicted' = Evicted /\ OneKey' = OneKey
        /\ \A k \in Keys : Used(k)' = Used(k) /\ Agrees(k)' = Agrees(k)
    <2>1. \A s \in Signed : key'[s] = key[s] /\ nonce'[s] = nonce[s]
      BY <1>1, <1>3 DEF TypeOK, Signed
    <2> QED BY <1>1, <2>1, SameUse
  <1>5. queue \in Seq(Jobs) /\ queue' \in Seq(Jobs) /\ served \in Nat /\ served' = served
    BY <1>1 DEF TypeOK
  <1>6. /\ DOMAIN queue \subseteq DOMAIN queue'
        /\ \A a \in DOMAIN queue : queue'[a] = queue[a]
        /\ \A a \in DOMAIN queue' \ DOMAIN queue : a = Len(queue) + 1 /\ queue'[a] = j /\ p = "queued"
        /\ p = "queued" => Len(queue) + 1 \in DOMAIN queue' /\ queue'[Len(queue) + 1] = j
        /\ Len(queue) <= Len(queue') /\ DOMAIN queue = 1 .. Len(queue)
    BY <1>2, <1>5
  <1>7. InTurn'
    <2>1. \A a \in DOMAIN queue : pc'[queue'[a]] = pc[queue[a]] /\ queue[a] # j
      BY <1>2, <1>3, <1>6 DEF Queued, TypeOK
    <2>2. pc'[j] = p
      BY <1>2 DEF TypeOK
    <2>3. served <= Len(queue')
      BY <1>5, <1>6 DEF InTurn
    <2>4. ASSUME NEW a \in DOMAIN queue'
          PROVE /\ a <= served => pc'[queue'[a]] \in Outcomes
                /\ a = served + 1 => pc'[queue'[a]] \in Local
                /\ a > served + 1 => pc'[queue'[a]] = "queued"
      <3>1. CASE a \in DOMAIN queue
        BY <3>1, <2>1, <1>5 DEF InTurn
      <3>2. CASE a \notin DOMAIN queue
        BY <3>2, <2>2, <1>5, <1>6 DEF InTurn, Local
      <3> QED BY <3>1, <3>2
    <2>5. \A a, b \in DOMAIN queue' : queue'[a] = queue'[b] => a = b
      BY <2>1, <1>6 DEF InTurn
    <2>6. \A i \in Jobs : pc'[i] \in Local => i \in Queued'
      <3> TAKE i \in Jobs
      <3> HAVE pc'[i] \in Local
      <3>1. CASE i = j
        BY <3>1, <2>2, <1>6 DEF Local, Queued
      <3>2. CASE i # j
        <4>1. pc'[i] = pc[i]
          BY <3>2, <1>2 DEF TypeOK
        <4>2. PICK a \in DOMAIN queue : queue[a] = i
          BY <4>1 DEF InTurn, Queued
        <4>3. a \in DOMAIN queue' /\ queue'[a] = i
          BY <4>2, <1>6
        <4> QED BY <4>3 DEF Queued
      <3> QED BY <3>1, <3>2
    <2> QED BY <2>3, <2>4, <2>5, <2>6, <1>5 DEF InTurn
  <1>8. /\ \A i \in Queued' : i # j => i \in Queued
        /\ Queued \subseteq Queued'
        /\ j \in Queued' => p = "queued"
        /\ \A i \in Jobs : i # j => pc'[i] = pc[i] /\ key'[i] = key[i]
        /\ pc'[j] = p
        /\ Clear' = Clear
    <2>1. \A i \in Jobs : i # j => pc'[i] = pc[i] /\ key'[i] = key[i]
      BY <1>1, <1>2 DEF TypeOK
    <2>2. pc'[j] = p
      BY <1>2 DEF TypeOK
    <2>3. Clear' = Clear
      BY <1>1, <2>1, <2>2 DEF Clear, Sending
    <2> QED BY <2>1, <2>2, <2>3, <1>3, <1>6 DEF Queued
  <1>9. Told'
    BY <1>1, <1>3, <1>8 DEF Told, Queued
  <1>10. Cached'
    BY <1>1, <1>8 DEF Cached, Sending
  <1>11. Calm' = Calm /\ (Clean' => Clean)
    BY <1>1, <1>4, <1>8 DEF Calm, Clean
  <1>12. \A i \in Jobs : Sends(i)' => Sends(i) /\ i # j
    BY <1>1, <1>3, <1>4, <1>8 DEF Sends, TypeOK
  <1>13. Filled'
    BY <1>1, <1>4, <1>8, <1>11, <1>12, SMTT(20) DEF Filled, TypeOK
  <1>14. QueueOrder' = QueueOrder
    <2>1. \A a \in DOMAIN queue' : pc'[queue'[a]] = "ok" => a \in DOMAIN queue
      BY <1>6, <1>8
    <2>2. \A a \in DOMAIN queue : queue[a] \in Jobs /\ queue[a] # j
      BY <1>3, <1>5 DEF Queued
    <2> QED BY <1>1, <1>4, <1>6, <1>8, <2>1, <2>2 DEF QueueOrder
  <1>15. Ordered'
    BY <1>1, <1>8, <1>11, <1>12, <1>14 DEF Ordered, Sending
  <1>16. Unused'
    <2> SUFFICES ASSUME Clean' PROVE Unused'
      BY DEF Unused
    <2>1. \A i \in Jobs : sub'[i] # "rejected"
      BY <1>1, <1>11 DEF Unused
    <2>2. Clear' /\ nextNonce' # NoNonce =>
            \A k \in Keys : Agrees(k)' => \A n \in Used(k)' : n < nextNonce'
      BY <1>1, <1>4, <1>8, <1>11 DEF Unused
    <2>3. ASSUME NEW i \in Jobs
          PROVE  /\ (pc'[i] = "signing" /\ Agrees(key[i])') \/ sub'[i] = "wire" =>
                       \A n \in Used(key[i])' : n < nonce'[i]
                 /\ pc'[i] = "submitting" => \A n \in Used(key[i])' : n <= nonce'[i]
      <3>1. CASE i = j
        BY <3>1, <1>1, <1>3, <1>8
      <3>2. CASE i # j
        <4>1. key'[i] = key[i] /\ pc'[i] = pc[i] /\ key[i] \in Keys
          BY <3>2, <1>8 DEF TypeOK
        <4>2. Used(key[i])' = Used(key[i]) /\ Agrees(key[i])' = Agrees(key[i])
          BY <4>1, <1>4 DEF Used, Agrees, Taken
        <4> QED BY <4>1, <4>2, <1>1, <1>11 DEF Unused
      <3> QED BY <3>1, <3>2
    <2> QED BY <2>1, <2>2, <2>3 DEF Unused
  <1> QED BY <1>7, <1>9, <1>10, <1>13, <1>15, <1>16

\* The same, by call, of a step that changes the account of none.
LEMMA SameUseOfCalls ==
  ASSUME TypeOK, UNCHANGED <<key, sub, mined, foreign>>,
         \A s \in Signed : nonce'[s] = nonce[s]
  PROVE  /\ Signed' = Signed /\ Evicted' = Evicted /\ OneKey' = OneKey /\ Calm' = Calm
         /\ \A k \in Keys : Used(k)' = Used(k) /\ Agrees(k)' = Agrees(k)
         /\ \A i \in Jobs : Used(key[i])' = Used(key[i]) /\ Agrees(key[i])' = Agrees(key[i])
  <1>1. \A s \in Signed : key'[s] = key[s] /\ nonce'[s] = nonce[s]
    OBVIOUS
  <1>2. /\ Signed' = Signed /\ Evicted' = Evicted /\ OneKey' = OneKey
        /\ \A k \in Keys : Used(k)' = Used(k) /\ Agrees(k)' = Agrees(k)
    BY <1>1, SameUse
  <1>3. ASSUME NEW i \in Jobs
        PROVE  Used(key[i])' = Used(key[i]) /\ Agrees(key[i])' = Agrees(key[i])
    <2>1. key'[i] = key[i] /\ key[i] \in Keys
      BY DEF TypeOK
    <2>2. Agrees(key[i])' = Agrees(key[i])
      BY <1>2, <2>1 DEF Agrees
    <2>3. Used(key[i])' = Used(key[i])
      BY <1>2, <2>1 DEF Used, Taken
    <2> QED BY <2>2, <2>3
  <1> QED BY <1>2, <1>3 DEF Calm

\* The call whose turn it is reads, prepares or asks for the count.
LEMMA QuietStep ==
  ASSUME NonceInv, TypeOK', NEW j \in Jobs, NEW p \in {"document", "prepared", "counting"},
         pc[j] \in {"queued", "document", "prepared"}, pc[j] = "queued" => Turn(j),
         pc' = [pc EXCEPT ![j] = p],
         UNCHANGED <<key, queue, served, nextNonce, nonce, sub, mined, foreign, outside>>
  PROVE  NonceInv'
  <1> USE DEF NonceInv
  <1>1. pc'[j] = p /\ \A i \in Jobs : i # j => pc'[i] = pc[i]
    BY DEF TypeOK
  <1>2. /\ Signed' = Signed /\ Evicted' = Evicted /\ OneKey' = OneKey /\ Calm' = Calm
        /\ \A k \in Keys : Used(k)' = Used(k) /\ Agrees(k)' = Agrees(k)
        /\ \A i \in Jobs : Used(key[i])' = Used(key[i]) /\ Agrees(key[i])' = Agrees(key[i])
    BY SameUseOfCalls
  <1>3. Queued' = Queued
    BY DEF Queued
  <1>4. served + 1 \in DOMAIN queue /\ queue[served + 1] = j
    <2>1. CASE pc[j] = "queued"
      BY <2>1, Positions DEF Turn
    <2>2. CASE pc[j] # "queued"
      BY <2>2, OneActive DEF Local
    <2> QED BY <2>1, <2>2
  <1>5. InTurn'
    <2>1. ASSUME NEW a \in DOMAIN queue
          PROVE  /\ a <= served => pc'[queue[a]] \in Outcomes
                 /\ a = served + 1 => pc'[queue[a]] \in Local
                 /\ a > served + 1 => pc'[queue[a]] = "queued"
      BY <1>1, <1>4, Positions DEF InTurn, Local
    <2>2. \A i \in Jobs : pc'[i] \in Local => i \in Queued'
      BY <1>1, <1>3, <1>4 DEF InTurn, Queued
    <2> QED BY <2>1, <2>2 DEF InTurn
  <1>6. Told'
    BY <1>1, <1>3 DEF Told
  <1>7. Clear' = Clear
    BY <1>1 DEF Clear, Sending
  <1>8. Cached'
    BY <1>1, <1>3 DEF Cached, Sending
  <1>9. \A i \in Jobs : Sends(i)' => Sends(i)
    BY <1>1, <1>2 DEF Sends
  <1>10. Filled'
    BY <1>2, <1>9 DEF Filled
  <1>11. QueueOrder' = QueueOrder
    BY <1>1, <1>2, Positions DEF QueueOrder
  <1>12. Ordered'
    BY <1>1, <1>2, <1>3, <1>7, <1>9, <1>11 DEF Ordered, Sending, Queued
  <1>13. Clean' = Clean
    BY <1>1, <1>2 DEF Clean
  <1>14. Unused'
    BY <1>1, <1>2, <1>7, <1>13 DEF Unused
  <1> QED BY <1>5, <1>6, <1>8, <1>10, <1>12, <1>14

\* A call ends: the next nonce follows the one that was accepted, or is forgotten.
LEMMA OverNonce ==
  ASSUME NonceInv, TypeOK', NEW j \in Jobs, NEW outcome \in Outcomes, JobOver(j, outcome),
         pc[j] \in {"document", "prepared", "counting", "signing", "submitting"},
         outcome = "failed" <=> pc[j] # "submitting",
         outcome = "ok" => sub[j] \in {"pool", "mined", "reverted", "evicted"},
         outcome = "rejected" => sub[j] = "rejected",
         UNCHANGED <<callVars, queue, plan, nonce, expected, sub, chainVars>>
  PROVE  NonceInv'
  <1> USE DEF NonceInv, callVars, chainVars
  <1>1. /\ pc'[j] = outcome /\ \A i \in Jobs : i # j => pc'[i] = pc[i]
        /\ served' = served + 1
        /\ nextNonce' = IF outcome = "ok" THEN nextNonce ELSE NoNonce
    BY DEF TypeOK, JobOver, ServedAfter, AfterFailure
  <1>2. /\ Signed' = Signed /\ Evicted' = Evicted /\ OneKey' = OneKey /\ Calm' = Calm
        /\ \A k \in Keys : Used(k)' = Used(k) /\ Agrees(k)' = Agrees(k)
        /\ \A i \in Jobs : Used(key[i])' = Used(key[i]) /\ Agrees(key[i])' = Agrees(key[i])
    BY SameUseOfCalls
  <1>3. Queued' = Queued
    BY DEF Queued
  <1>4. /\ served + 1 \in DOMAIN queue /\ queue[served + 1] = j
        /\ \A i \in Jobs : pc[i] \in Local /\ pc[i] # "queued" => i = j
    BY OneActive DEF Local
  <1>5. j \in Queued
    BY <1>4 DEF Queued
  <1>6. InTurn'
    <2>1. ASSUME NEW a \in DOMAIN queue
          PROVE  /\ a <= served + 1 => pc'[queue[a]] \in Outcomes
                 /\ a = served + 2 => pc'[queue[a]] \in Local
                 /\ a > served + 2 => pc'[queue[a]] = "queued"
      BY <1>1, <1>4, Positions DEF InTurn, Local
    <2>2. \A i \in Jobs : pc'[i] \in Local => i \in Queued'
      BY <1>1, <1>3, <1>5 DEF InTurn
    <2>3. served + 1 <= Len(queue)
      BY <1>4, Positions
    <2> QED BY <1>1, <2>1, <2>2, <2>3, Positions DEF InTurn
  <1>7. Told'
    BY <1>1, <1>3 DEF Told, Outcomes
  <1>8. Clear'
    BY <1>1, <1>4 DEF Clear, Sending, Local, Outcomes
  <1>9. Cached'
    BY <1>1, <1>3, <1>4, <1>5, <1>8 DEF Cached, Sending, Clear
  <1>10. \A i \in Jobs : Sends(i)' => Sends(i)
    BY <1>1, <1>2 DEF Sends, Outcomes
  <1>11. Filled'
    BY <1>2, <1>10 DEF Filled
  <1>12. outcome = "ok" => Sends(j) /\ pc[j] \in Sending /\ nextNonce = nonce[j] + 1
    BY DEF Sends, Sending, Cached
  <1>13. Calm => QueueOrder'
    <2> SUFFICES ASSUME Calm, NEW a \in DOMAIN queue, NEW b \in DOMAIN queue, a < b,
                        pc'[queue[a]] = "ok", pc'[queue[b]] = "ok"
                 PROVE  nonce[queue[a]] < nonce[queue[b]]
      BY DEF QueueOrder
    <2>1. CASE queue[b] = j
      <3>1. queue[a] # j /\ queue[a] \in Queued
        BY <2>1, Positions DEF InTurn, Queued
      <3> QED BY <2>1, <3>1, <1>1, <1>12, Positions DEF Ordered
    <2>2. CASE queue[a] = j
      <3>1. a = served + 1
        BY <2>2, <1>4 DEF InTurn
      <3>2. pc[queue[b]] = "queued" /\ queue[b] # j
        BY <3>1, <1>4, Positions DEF InTurn
      <3> QED BY <3>2, <1>1, Positions
    <2>3. CASE queue[a] # j /\ queue[b] # j
      BY <2>3, <1>1, Positions DEF Ordered, QueueOrder, Calm
    <2> QED BY <2>1, <2>2, <2>3
  <1>14. Ordered'
    <2> SUFFICES ASSUME Calm PROVE Ordered'
      BY <1>2 DEF Ordered
    <2>1. ASSUME nextNonce' # NoNonce, NEW s \in Queued, pc'[s] = "ok"
          PROVE  nonce[s] < nextNonce'
      <3>1. outcome = "ok" /\ s \in Jobs
        BY <2>1, <1>1, Positions DEF Queued
      <3>2. s # j => nonce[s] < nonce[j]
        BY <2>1, <3>1, <1>1, <1>12 DEF Ordered
      <3> QED BY <3>1, <3>2, <1>1, <1>12 DEF TypeOK
    <2>2. \A i \in Jobs : pc'[i] \notin Sending
      BY <1>8 DEF Clear
    <2> QED BY <1>3, <1>13, <2>1, <2>2 DEF Ordered
  <1>15. Unused'
    <2> SUFFICES ASSUME Clean' PROVE Unused'
      BY DEF Unused
    <2>1. Clean /\ outcome # "unanswered"
      BY <1>1, <1>2 DEF Clean
    <2>2. \A i \in Jobs : sub[i] # "rejected"
      BY <2>1 DEF Unused
    <2>3. ASSUME NEW i \in Jobs PROVE sub[i] # "wire"
      BY <2>1, <2>2, <1>4 DEF Told, Clean, Local, Outcomes
    <2>4. ASSUME nextNonce' # NoNonce, NEW k \in Keys, Agrees(k), NEW n \in Used(k)
          PROVE  n < nextNonce'
      <3>1. outcome = "ok"
        BY <2>4, <1>1
      <3>2. k = key[j]
        BY <2>4, <3>1 DEF Agrees, Signed
      <3>3. n <= nonce[j] /\ n \in Int
        BY <2>1, <2>4, <3>1, <3>2, UsedAreNumbers DEF Unused
      <3> QED BY <3>1, <3>3, <1>1, <1>12 DEF TypeOK
    <2>5. \A i \in Jobs : pc'[i] \notin Sending
      BY <1>8 DEF Clear
    <2> QED BY <1>2, <2>2, <2>3, <2>4, <2>5 DEF Unused, Sending
  <1> QED BY <1>6, <1>7, <1>9, <1>11, <1>14, <1>15

\* A call takes a nonce: the cached one, which follows the nonce of the last
\* accepted call, or the first free one.
LEMMA AllocatingNonce ==
  ASSUME NonceInv, TypeOK', NEW j \in Jobs, NEW n \in Nat, Allocates(j, n),
         pc[j] \in {"prepared", "counting"},
         n = nextNonce \/ n \in PendingCount(key[j]),
         UNCHANGED <<callVars, queue, served, plan, sub, chainVars>>
  PROVE  NonceInv'
  <1> USE DEF NonceInv, callVars, chainVars
  <1>1. /\ pc'[j] = "signing" /\ \A i \in Jobs : i # j => pc'[i] = pc[i]
        /\ nonce'[j] = n /\ \A i \in Jobs : i # j => nonce'[i] = nonce[i]
        /\ nextNonce' = n + 1
    BY DEF TypeOK, Allocates
  <1>2. /\ served + 1 \in DOMAIN queue /\ queue[served + 1] = j
        /\ \A i \in Jobs : pc[i] \in Local /\ pc[i] # "queued" => i = j
    BY OneActive DEF Local
  <1>3. j \in Queued /\ Queued' = Queued
    BY <1>2 DEF Queued
  <1>4. sub[j] = "none" /\ j \notin Signed
    BY DEF Told, Signed
  <1>5. /\ Signed' = Signed /\ Evicted' = Evicted /\ OneKey' = OneKey /\ Calm' = Calm
        /\ \A k \in Keys : Used(k)' = Used(k) /\ Agrees(k)' = Agrees(k)
        /\ \A i \in Jobs : Used(key[i])' = Used(key[i]) /\ Agrees(key[i])' = Agrees(key[i])
    <2>1. \A s \in Signed : nonce'[s] = nonce[s]
      BY <1>1, <1>4 DEF Signed
    <2> QED BY <2>1, SameUseOfCalls
  <1>6. InTurn'
    <2>1. ASSUME NEW a \in DOMAIN queue
          PROVE  /\ a <= served => pc'[queue[a]] \in Outcomes
                 /\ a = served + 1 => pc'[queue[a]] \in Local
                 /\ a > served + 1 => pc'[queue[a]] = "queued"
      BY <1>1, <1>2, Positions DEF InTurn, Local
    <2>2. \A i \in Jobs : pc'[i] \in Local => i \in Queued'
      BY <1>1, <1>3 DEF InTurn
    <2> QED BY <2>1, <2>2 DEF InTurn
  <1>7. Told'
    BY <1>1, <1>3, <1>4 DEF Told
  <1>8. Cached'
    <2>1. \A i \in Jobs : pc'[i] \in Sending => i = j
      BY <1>1, <1>2 DEF Sending, Local
    <2> QED BY <1>1, <2>1 DEF Cached, Sending
  <1>9. Clean' = Clean
    BY <1>1, <1>5 DEF Clean
  <1>10. Clear
    BY <1>2 DEF Clear, Sending, Local
  \* Where the cached nonce comes from.
  <1>11. ASSUME Calm, Agrees(key[j])
         PROVE  \A m \in Nat : m < n => m \in Used(key[j])
    <2>1. CASE n = nextNonce
      <3>1. PICK s \in Jobs : nextNonce = nonce[s] + 1 /\ pc[s] = "ok" /\ s \in Queued
        BY <2>1, <1>10 DEF Cached, Clear, NoNonce
      <3>2. sub[s] \in {"pool", "mined", "reverted"} /\ key[s] = key[j]
        BY <3>1, <1>11 DEF Told, Calm, Evicted, Agrees, Signed
      <3>3. nonce[s] \in Used(key[j])
        BY <3>2 DEF Used, Taken, Told, TypeOK
      <3>4. key[j] \in Keys /\ nonce[s] \in Nat
        BY DEF TypeOK
      <3>5. \A m \in Nat : m < nonce[s] => m \in Used(key[j])
        BY <3>3, <3>4, <1>11 DEF Filled
      <3> QED BY <2>1, <3>1, <3>3, <3>4, <3>5
    <2>2. CASE n \in PendingCount(key[j])
      BY <2>2 DEF PendingCount, Used, TypeOK
    <2> QED BY <2>1, <2>2
  <1>12. ASSUME n # nextNonce
         PROVE  n \notin Used(key[j])
    <2>1. key[j] \in Keys /\ mined[key[j]] \in Nat
      BY DEF TypeOK
    <2> QED BY <1>12, <2>1 DEF PendingCount, Used
  <1>13. ASSUME Calm, Agrees(key[j]), NEW s \in Queued, pc[s] = "ok"
         PROVE  nonce[s] < n
    <2>1. CASE n = nextNonce
      BY <2>1, <1>10, <1>13 DEF Ordered, NoNonce
    <2>2. CASE n # nextNonce
      <3>1. s \in Jobs /\ nonce[s] \in Nat /\ key[j] \in Keys
        <4>1. s \in Jobs
          BY Positions DEF Queued
        <4> QED BY <4>1 DEF TypeOK
      <3>2. sub[s] \in {"pool", "mined", "reverted"} /\ key[s] = key[j]
        BY <3>1, <1>13 DEF Told, Calm, Evicted, Agrees, Signed
      <3>3. nonce[s] \in Used(key[j])
        BY <3>1, <3>2 DEF Used, Taken, Told, TypeOK
      <3>4. n < nonce[s] => n \in Used(key[j])
        BY <3>1, <3>3, <1>13 DEF Filled
      <3> QED BY <2>2, <3>1, <3>3, <3>4, <1>12
    <2> QED BY <2>1, <2>2
  <1>14. \A i \in Jobs : Sends(i)' => (Sends(i) /\ i # j) \/ (i = j /\ Agrees(key[j]))
    <2> TAKE i \in Jobs
    <2> HAVE Sends(i)'
    <2>1. sub[i] # "none" \/ (pc'[i] = "signing" /\ Agrees(key[i])')
      BY DEF Sends
    <2>2. sub[i] # "none" \/ (pc'[i] = "signing" /\ Agrees(key[i]))
      BY <2>1, <1>5
    <2>3. CASE i = j
      BY <2>2, <2>3, <1>4
    <2>4. CASE i # j
      <3>1. pc'[i] = pc[i]
        BY <2>4, <1>1
      <3>2. Sends(i)
        BY <2>2, <3>1 DEF Sends
      <3> QED BY <3>2, <2>4
    <2> QED BY <2>3, <2>4
  <1>15. Filled'
    <2> SUFFICES ASSUME Calm PROVE Filled'
      BY <1>5 DEF Filled
    <2>1. ASSUME NEW i \in Jobs, Sends(i)', NEW m \in Nat, m < nonce'[i]
          PROVE  m \in Used(key[i])'
      <3>1. CASE i # j
        BY <2>1, <3>1, <1>1, <1>5, <1>14 DEF Filled
      <3>2. CASE i = j
        BY <2>1, <3>2, <1>1, <1>5, <1>11, <1>14
      <3> QED BY <3>1, <3>2
    <2>2. \A k \in Keys : \A u \in Used(k)' : \A m \in Nat : m < u => m \in Used(k)'
      BY <1>5 DEF Filled
    <2> QED BY <2>1, <2>2 DEF Filled
  <1>16. \A s \in Queued : pc'[s] = "ok" => s # j /\ pc[s] = "ok" /\ nonce'[s] = nonce[s]
    BY <1>1, Positions DEF Queued
  <1>17. QueueOrder' = QueueOrder
    BY <1>1, <1>5, <1>16, Positions DEF QueueOrder, Queued
  <1>18. Ordered'
    <2> SUFFICES ASSUME Calm PROVE Ordered'
      BY <1>5 DEF Ordered
    <2>1. ~Clear'
      BY <1>1 DEF Clear, Sending
    <2>2. ASSUME NEW i \in Jobs, pc'[i] \in Sending, Sends(i)', NEW s \in Queued, pc'[s] = "ok"
          PROVE  nonce'[s] < nonce'[i]
      <3>1. i = j
        BY <2>2, <1>1, <1>2 DEF Sending, Local
      <3> QED BY <2>2, <3>1, <1>1, <1>13, <1>14, <1>16
    <2> QED BY <1>3, <1>17, <2>1, <2>2 DEF Ordered
  <1>19. Unused'
    <2> SUFFICES ASSUME Clean PROVE Unused'
      BY <1>9 DEF Unused
    <2>1. ~Clear'
      BY <1>1 DEF Clear, Sending
    <2>2. \A i \in Jobs : sub[i] # "wire" /\ pc'[i] # "submitting" /\ (pc'[i] = "signing" => i = j)
      BY <1>1, <1>2 DEF Told, Clean, Local
    <2>3. ASSUME Agrees(key[j]), NEW m \in Used(key[j])
          PROVE  m < n
      <3>1. key[j] \in Keys /\ m \in Nat
        BY UsedAreNumbers DEF TypeOK
      <3>2. CASE n = nextNonce
        BY <2>3, <3>1, <3>2, <1>10 DEF Unused, NoNonce
      <3>3. CASE n # nextNonce
        <4>1. n < m => n \in Used(key[j])
          BY <2>3, <3>1 DEF Filled, Clean
        <4> QED BY <2>3, <3>1, <3>3, <4>1, <1>12
      <3> QED BY <3>2, <3>3
    <2>4. \A i \in Jobs : sub'[i] # "rejected"
      BY DEF Unused
    <2>5. ASSUME NEW i \in Jobs, (pc'[i] = "signing" /\ Agrees(key[i])') \/ sub'[i] = "wire",
                 NEW m \in Used(key[i])'
          PROVE  m < nonce'[i]
      BY <2>2, <2>3, <2>5, <1>1, <1>5
    <2> QED BY <2>1, <2>2, <2>4, <2>5 DEF Unused
  <1> QED BY <1>6, <1>7, <1>8, <1>15, <1>18, <1>19

\* A call sends its transaction: it is signed with a nonce that nothing holds
\* back, if the account is that of the calls before it.
LEMMA SubmitNonce ==
  ASSUME NonceInv, TypeOK', NEW j \in Jobs, Submits(j)
  PROVE  NonceInv'
  <1> USE DEF NonceInv, callVars, builderVars, chainVars
  <1>1. /\ pc[j] = "signing" /\ sub[j] = "none"
        /\ pc'[j] = "submitting" /\ \A i \in Jobs : i # j => pc'[i] = pc[i]
        /\ sub'[j] = "wire" /\ \A i \in Jobs : i # j => sub'[i] = sub[i]
        /\ UNCHANGED <<key, queue, served, nextNonce, nonce, mined, foreign, outside>>
    <2>1. /\ pc[j] = "signing" /\ pc' = [pc EXCEPT ![j] = "submitting"]
          /\ sub' = [sub EXCEPT ![j] = "wire"]
          /\ UNCHANGED <<key, queue, served, nextNonce, nonce, mined, foreign, outside>>
      BY DEF Submits
    <2>2. sub[j] = "none" BY <2>1 DEF Told
    <2> QED BY <2>1, <2>2 DEF TypeOK
  <1>2. /\ served + 1 \in DOMAIN queue /\ queue[served + 1] = j
        /\ \A i \in Jobs : pc[i] \in Local /\ pc[i] # "queued" => i = j
    BY <1>1, OneActive DEF Local
  <1>3. j \in Queued /\ Queued' = Queued
    BY <1>1, <1>2 DEF Queued
  <1>4. Signed' = Signed \cup {j} /\ Evicted' = Evicted
    BY <1>1 DEF Signed, Evicted
  <1>5. OneKey' => OneKey /\ Agrees(key[j])
    BY <1>1, <1>4 DEF OneKey, Agrees, Signed
  <1>6. Calm' => Calm /\ Agrees(key[j])
    BY <1>4, <1>5 DEF Calm
  <1>7. \A k \in Keys : Used(k)' = Used(k)
    BY <1>1 DEF Used, Taken
  <1>8. \A i \in Jobs : Used(key[i])' = Used(key[i])
    BY <1>1 DEF Used, Taken
  <1>9. InTurn'
    <2>1. ASSUME NEW a \in DOMAIN queue
          PROVE  /\ a <= served => pc'[queue[a]] \in Outcomes
                 /\ a = served + 1 => pc'[queue[a]] \in Local
                 /\ a > served + 1 => pc'[queue[a]] = "queued"
      BY <1>1, <1>2, Positions DEF InTurn, Local
    <2>2. \A i \in Jobs : pc'[i] \in Local => i \in Queued'
      BY <1>1, <1>3 DEF InTurn
    <2> QED BY <1>1, <2>1, <2>2 DEF InTurn
  <1>10. Told'
    BY <1>1, <1>3 DEF Told
  <1>11. \A i \in Jobs : pc'[i] \in Sending <=> pc[i] \in Sending
    BY <1>1 DEF Sending
  <1>12. Cached'
    BY <1>1, <1>3, <1>11 DEF Cached, Sending
  <1>13. Calm' => \A i \in Jobs : Sends(i)' => Sends(i)
    <2> SUFFICES ASSUME Calm', NEW i \in Jobs, Sends(i)' PROVE Sends(i)
      OBVIOUS
    <2>1. CASE i = j
      BY <2>1, <1>1, <1>6 DEF Sends
    <2>2. CASE i # j
      <3>1. pc'[i] # "signing"
        BY <2>2, <1>1, <1>2 DEF Local
      <3> QED BY <2>2, <3>1, <1>1 DEF Sends
    <2> QED BY <2>1, <2>2
  <1>14. Filled'
    BY <1>1, <1>6, <1>7, <1>8, <1>13 DEF Filled
  <1>15. \A s \in Queued : pc'[s] = "ok" <=> pc[s] = "ok"
    BY <1>1, Positions DEF Queued
  <1>16. Calm' => QueueOrder'
    <2>1. \A a \in DOMAIN queue : pc'[queue[a]] = "ok" <=> pc[queue[a]] = "ok"
      BY <1>15 DEF Queued
    <2> QED BY <1>1, <1>6, <2>1 DEF QueueOrder, Ordered, Calm
  <1>17. Ordered'
    BY <1>1, <1>3, <1>6, <1>11, <1>13, <1>15, <1>16 DEF Ordered, Clear
  <1>18. Clean' => Clean
    BY <1>1, <1>6 DEF Clean
  <1>19. Unused'
    <2> SUFFICES ASSUME Clean' PROVE Unused'
      BY DEF Unused
    <2>1. Clean /\ Agrees(key[j])
      BY <1>6, <1>18 DEF Clean
    <2>2. ~Clear'
      BY <1>1 DEF Clear, Sending
    <2>3. \A n \in Used(key[j]) : n < nonce[j] /\ n \in Nat /\ nonce[j] \in Nat
      BY <1>1, <2>1, UsedAreNumbers DEF Unused, TypeOK
    <2>4. \A i \in Jobs : pc'[i] \in Sending \/ sub'[i] = "wire" => i = j
      BY <1>1, <1>2, <2>1 DEF Told, Clean, Sending, Local
    <2> QED BY <1>1, <1>8, <2>1, <2>2, <2>3, <2>4 DEF Unused, Sending
  <1> QED BY <1>9, <1>10, <1>12, <1>14, <1>17, <1>19

-----------------------------------------------------------------------------

\* A transaction is lost or evicted, or the node refuses it: no nonce is used.
LEMMA RefusedNonce ==
  ASSUME NonceInv, TypeOK', NEW j \in Jobs, NEW s \in {"rejected", "lost", "evicted"},
         IF s = "evicted" THEN sub[j] = "pool" ELSE sub[j] = "wire",
         sub' = [sub EXCEPT ![j] = s],
         s = "rejected" => nonce[j] \in Used(key[j]),
         UNCHANGED <<callVars, pc, queue, served, builderVars, chainVars>>
  PROVE  NonceInv'
  <1> USE DEF NonceInv, callVars, builderVars, chainVars
  <1>1. sub'[j] = s /\ \A i \in Jobs : i # j => sub'[i] = sub[i]
    BY DEF TypeOK
  <1>2. Signed' = Signed /\ OneKey' = OneKey /\ Queued' = Queued /\ Clear' = Clear
    BY <1>1 DEF Signed, OneKey, Queued, Clear
  <1>3. /\ \A k \in Keys : Agrees(k)' = Agrees(k)
        /\ \A i \in Jobs : Agrees(key[i])' = Agrees(key[i])
    BY <1>2 DEF Agrees
  <1>4. Calm' => Calm /\ s # "evicted"
    BY <1>1, <1>2 DEF Calm, Evicted
  <1>5. ASSUME s # "evicted"
        PROVE  /\ \A k \in Keys : Used(k)' = Used(k)
               /\ \A i \in Jobs : Used(key[i])' = Used(key[i])
    BY <1>1, <1>5 DEF Used, Taken
  <1>6. InTurn'
    BY <1>2 DEF InTurn
  <1>7. Told'
    BY <1>1, <1>2 DEF Told
  <1>8. Cached'
    BY <1>2 DEF Cached
  <1>9. \A i \in Jobs : Sends(i)' => Sends(i)
    BY <1>1, <1>3 DEF Sends
  <1>10. Filled'
    BY <1>4, <1>5, <1>9 DEF Filled
  <1>11. Ordered'
    <2> SUFFICES ASSUME Calm' PROVE Ordered'
      BY DEF Ordered
    <2>1. QueueOrder'
      BY <1>4, Positions DEF Ordered, QueueOrder, Calm
    <2> QED BY <1>2, <1>4, <1>9, <2>1 DEF Ordered
  <1>12. Unused'
    <2> SUFFICES ASSUME Clean' PROVE Unused'
      BY DEF Unused
    <2>1. Clean /\ s # "evicted"
      BY <1>4 DEF Clean
    <2>2. s # "rejected"
      <3>1. sub[j] = "wire" /\ key[j] \in Keys /\ nonce[j] \in Nat
        BY <2>1 DEF TypeOK
      <3> QED BY <2>1, <3>1 DEF Unused
    <2> QED BY <1>1, <1>2, <1>3, <1>5, <2>1, <2>2 DEF Unused
  <1> QED BY <1>6, <1>7, <1>8, <1>10, <1>11, <1>12

\* The node takes a transaction whose nonce is free.
LEMMA PooledNonce ==
  ASSUME NonceInv, TypeOK', NEW j \in Jobs, sub[j] = "wire",
         nonce[j] \notin Used(key[j]), sub' = [sub EXCEPT ![j] = "pool"],
         UNCHANGED <<callVars, pc, queue, served, builderVars, chainVars>>
  PROVE  NonceInv'
  <1> USE DEF NonceInv, callVars, builderVars, chainVars
  <1>1. sub'[j] = "pool" /\ \A i \in Jobs : i # j => sub'[i] = sub[i]
    BY DEF TypeOK
  <1>2. Signed' = Signed /\ OneKey' = OneKey /\ Queued' = Queued /\ Clear' = Clear /\ Evicted' = Evicted
    BY <1>1 DEF Signed, OneKey, Queued, Clear, Evicted
  <1>3. /\ \A k \in Keys : Agrees(k)' = Agrees(k)
        /\ \A i \in Jobs : Agrees(key[i])' = Agrees(key[i])
    BY <1>2 DEF Agrees
  <1>4. Calm' = Calm /\ Clean' = Clean
    BY <1>1, <1>2 DEF Calm, Clean
  <1>5. /\ Used(key[j])' = Used(key[j]) \cup {nonce[j]}
        /\ \A k \in Keys : k # key[j] => Used(k)' = Used(k)
    BY <1>1 DEF Used, Taken
  <1>6. /\ \A i \in Jobs : key[i] = key[j] => Used(key[i])' = Used(key[i]) \cup {nonce[j]}
        /\ \A i \in Jobs : key[i] # key[j] => Used(key[i])' = Used(key[i])
    BY <1>1 DEF Used, Taken
  <1>7. \A k \in Keys : Used(k)' = IF k = key[j] THEN Used(k) \cup {nonce[j]} ELSE Used(k)
    BY <1>1 DEF Used, Taken
  <1>8. InTurn'
    BY <1>2 DEF InTurn
  <1>9. Told'
    BY <1>1, <1>2 DEF Told
  <1>10. Cached'
    BY <1>2 DEF Cached
  <1>11. \A i \in Jobs : Sends(i)' => Sends(i)
    BY <1>1, <1>3 DEF Sends
  <1>12. Filled'
    <2> SUFFICES ASSUME Calm PROVE Filled'
      BY <1>4 DEF Filled
    <2>1. \A m \in Nat : m < nonce[j] => m \in Used(key[j])
      BY DEF Filled, Sends
    <2>2. \A k \in Keys : \A n \in Used(k)' : \A m \in Nat : m < n => m \in Used(k)'
      BY <1>7, <2>1 DEF Filled
    <2>3. \A i \in Jobs : Sends(i)' => \A m \in Nat : m < nonce[i] => m \in Used(key[i])'
      BY <1>6, <1>11 DEF Filled
    <2> QED BY <2>2, <2>3 DEF Filled
  <1>13. QueueOrder' = QueueOrder
    BY <1>2 DEF QueueOrder
  <1>14. Ordered'
    BY <1>2, <1>4, <1>11, <1>13 DEF Ordered
  <1>15. Unused'
    <2> SUFFICES ASSUME Clean PROVE Unused'
      BY <1>4 DEF Unused
    <2>1. pc[j] = "submitting" /\ ~Clear
      BY DEF Told, Clean, Clear, Sending
    <2>2. \A i \in Jobs : pc[i] \in Sending \/ sub[i] = "wire" => i = j
      BY <2>1, OneActive DEF Told, Clean, Local, Sending
    <2>3. \A n \in Used(key[j]) : n < nonce[j] /\ n \in Nat /\ nonce[j] \in Nat
      BY UsedAreNumbers DEF Unused, TypeOK
    <2>4. \A n \in Used(key[j])' : n <= nonce[j]
      BY <1>5, <2>3 DEF TypeOK
    <2> QED BY <1>1, <1>2, <2>1, <2>2, <2>4 DEF Unused, Sending
  <1> QED BY <1>8, <1>9, <1>10, <1>12, <1>14, <1>15

\* The node mines the next transaction of an account: its nonce stays used.
LEMMA MinedNonce ==
  ASSUME NonceInv, TypeOK', NEW j \in Jobs, NEW s \in {"mined", "reverted"},
         sub[j] = "pool", nonce[j] = mined[key[j]], sub' = [sub EXCEPT ![j] = s],
         mined' = [mined EXCEPT ![key[j]] = @ + 1],
         UNCHANGED <<callVars, pc, queue, served, builderVars, foreign, outside>>
  PROVE  NonceInv'
  <1> USE DEF NonceInv, callVars, builderVars
  <1>1. /\ sub'[j] = s /\ \A i \in Jobs : i # j => sub'[i] = sub[i]
        /\ mined'[key[j]] = mined[key[j]] + 1
        /\ \A k \in Keys : k # key[j] => mined'[k] = mined[k]
    BY DEF TypeOK
  <1>2. Signed' = Signed /\ OneKey' = OneKey /\ Queued' = Queued /\ Clear' = Clear /\ Evicted' = Evicted
    BY <1>1 DEF Signed, OneKey, Queued, Clear, Evicted
  <1>3. /\ \A k \in Keys : Agrees(k)' = Agrees(k)
        /\ \A i \in Jobs : Agrees(key[i])' = Agrees(key[i])
    BY <1>2 DEF Agrees
  <1>4. Calm' = Calm /\ Clean' = Clean
    BY <1>1, <1>2 DEF Calm, Clean
  <1>5. ASSUME NEW k \in Keys PROVE Used(k)' = Used(k)
    <2>1. CASE k # key[j]
      BY <2>1, <1>1 DEF Used, Taken, TypeOK
    <2>2. CASE k = key[j]
      <3>1. Taken(k)' \subseteq Taken(k) /\ Taken(k) \subseteq Taken(k)' \cup {nonce[j]}
        BY <2>2, <1>1 DEF Taken
      <3>2. nonce[j] \in Taken(k)
        BY <2>2 DEF Taken
      <3>3. \A n \in Nat : n < mined'[k] <=> n < mined[k] \/ n = nonce[j]
        BY <2>2, <1>1 DEF TypeOK
      <3>4. nonce[j] \in Nat
        BY DEF TypeOK
      <3> QED BY <3>1, <3>2, <3>3, <3>4 DEF Used
    <2> QED BY <2>1, <2>2
  <1>6. \A i \in Jobs : Used(key[i])' = Used(key[i])
    BY <1>5 DEF TypeOK
  <1>7. InTurn'
    BY <1>2 DEF InTurn
  <1>8. Told'
    BY <1>1, <1>2 DEF Told, TypeOK
  <1>9. Cached'
    BY <1>2 DEF Cached
  <1>10. \A i \in Jobs : Sends(i)' => Sends(i)
    BY <1>1, <1>3 DEF Sends
  <1>11. Filled'
    BY <1>4, <1>5, <1>6, <1>10 DEF Filled
  <1>12. QueueOrder' = QueueOrder
    BY <1>2 DEF QueueOrder
  <1>13. Ordered'
    BY <1>2, <1>4, <1>10, <1>12 DEF Ordered
  <1>14. Unused'
    BY <1>1, <1>2, <1>3, <1>4, <1>5, <1>6 DEF Unused
  <1> QED BY <1>7, <1>8, <1>9, <1>11, <1>13, <1>14

\* Others send with a key of the process: the first free nonce is used, or the
\* next one is mined.
LEMMA OthersNonce ==
  ASSUME NonceInv, TypeOK', NEW k \in Keys, Outside(k)
  PROVE  NonceInv'
  <1> USE DEF NonceInv, callVars, builderVars
  <1>1. /\ UNCHANGED <<key, pc, queue, served, nextNonce, nonce, sub>>
        /\ outside' # 0 /\ outside' >= outside
    BY DEF Outside, OutsideSubmits, OutsideMined, TypeOK, Cached
  <1>2. Signed' = Signed /\ OneKey' = OneKey /\ Queued' = Queued /\ Clear' = Clear /\ Evicted' = Evicted
    BY <1>1 DEF Signed, OneKey, Queued, Clear, Evicted
  <1>3. \A i \in Jobs : Sends(i)' = Sends(i)
    BY <1>1, <1>2 DEF Sends, Agrees
  <1>4. Calm' = Calm /\ ~Clean'
    BY <1>1, <1>2 DEF Calm, Clean
  <1>5. Filled'
    <2> SUFFICES ASSUME Calm PROVE Filled'
      BY <1>4 DEF Filled
    <2>1. \A c \in Keys : /\ Used(c) \subseteq Used(c)'
                          /\ \A n \in Used(c)' : \A m \in Nat : m < n => m \in Used(c)'
      <3> TAKE c \in Keys
      <3>1. CASE OutsideSubmits(k)
        <4>1. PICK n \in PendingCount(k) : foreign' = [foreign EXCEPT ![k] = @ \cup {n}]
          BY <3>1 DEF OutsideSubmits
        <4>2. Taken(c)' = IF c = k THEN Taken(c) \cup {n} ELSE Taken(c)
          BY <4>1, <1>1 DEF Taken, TypeOK
        <4>3. mined' = mined
          BY <3>1 DEF OutsideSubmits
        <4>4. Used(c)' = IF c = k THEN Used(c) \cup {n} ELSE Used(c)
          BY <4>2, <4>3 DEF Used
        <4>5. \A m \in Nat : m < n => m \in Used(k)
          BY <4>1 DEF PendingCount, Used, TypeOK
        <4> QED BY <4>4, <4>5 DEF Filled
      <3>2. CASE OutsideMined(k)
        <4>1. /\ mined[k] \in foreign[k]
              /\ mined' = [mined EXCEPT ![k] = @ + 1]
              /\ foreign' = [foreign EXCEPT ![k] = @ \ {mined[k]}]
          BY <3>2 DEF OutsideMined
        <4>2. CASE c # k
          <5>1. mined'[c] = mined[c] /\ foreign'[c] = foreign[c]
            BY <4>1, <4>2 DEF TypeOK
          <5>2. Used(c)' = Used(c)
            BY <5>1, <1>1 DEF Used, Taken
          <5> QED BY <5>2 DEF Filled
        <4>3. CASE c = k
          <5>1. mined'[k] = mined[k] + 1 /\ foreign'[k] = foreign[k] \ {mined[k]} /\ mined[k] \in Nat
            BY <4>1 DEF TypeOK
          <5>2. mined[k] \in Taken(k)
            BY <4>1 DEF Taken
          <5>3. Taken(k)' \subseteq Taken(k) /\ Taken(k) \subseteq Taken(k)' \cup {mined[k]}
            BY <5>1, <1>1 DEF Taken
          <5>4. \A n \in Nat : n < mined'[k] <=> n < mined[k] \/ n = mined[k]
            BY <5>1
          <5>5. Used(k)' = Used(k)
            BY <5>1, <5>2, <5>3, <5>4 DEF Used
          <5> QED BY <4>3, <5>5 DEF Filled
        <4> QED BY <4>2, <4>3
      <3> QED BY <3>1, <3>2 DEF Outside
    <2>2. \A i \in Jobs : Used(key[i]) \subseteq Used(key[i])'
      <3> TAKE i \in Jobs
      <3>1. key[i] \in Keys /\ key'[i] = key[i]
        BY <1>1 DEF TypeOK
      <3>2. \A c \in Keys : Used(c) \subseteq Used(c)'
        BY <2>1
      <3> QED BY <3>1, <3>2 DEF Used, Taken
    <2> QED BY <1>1, <1>3, <2>1, <2>2 DEF Filled
  <1>6. InTurn'
    BY <1>1, <1>2 DEF InTurn
  <1>7. Told'
    <2>1. \A c \in Keys : mined'[c] >= mined[c] /\ mined[c] \in Nat /\ mined'[c] \in Nat
      <3>1. mined' = mined \/ mined' = [mined EXCEPT ![k] = @ + 1]
        BY DEF Outside, OutsideSubmits, OutsideMined
      <3>2. mined \in [Keys -> Nat]
        BY DEF TypeOK
      <3> QED BY <3>1, <3>2
    <2>2. \A i \in Jobs : key[i] \in Keys /\ nonce[i] \in Nat
      BY DEF TypeOK
    <2> QED BY <1>1, <1>2, <2>1, <2>2 DEF Told
  <1>8. Cached'
    BY <1>1, <1>2 DEF Cached
  <1>9. QueueOrder' = QueueOrder
    BY <1>1, <1>2 DEF QueueOrder
  <1>10. Ordered'
    BY <1>1, <1>2, <1>3, <1>4, <1>9 DEF Ordered
  <1>11. Unused'
    BY <1>4 DEF Unused
  <1> QED BY <1>5, <1>6, <1>7, <1>8, <1>10, <1>11

-----------------------------------------------------------------------------

\* No call has a nonce before the first one.
LEMMA InitNonceInv == Init => NonceInv
  <1> SUFFICES ASSUME Init PROVE NonceInv
    OBVIOUS
  <1>1. TypeOK
    BY InitIInv DEF IInv
  <1>2. Signed = {} /\ Queued = {} /\ nextNonce = NoNonce /\ \A j \in Jobs : pc[j] = "idle" /\ sub[j] = "none"
    BY DEF Init, Signed, Queued
  <1>3. \A k \in Keys : Used(k) = {}
    BY DEF Init, Used, Taken
  <1>4. InTurn /\ Told /\ Cached
    BY <1>2 DEF Init, InTurn, Told, Cached, Local, Sending
  <1>5. Filled /\ Ordered
    BY <1>2, <1>3 DEF Init, Filled, Ordered, QueueOrder, Sends, Sending
  <1>6. Unused
    BY <1>2, <1>3 DEF Unused
  <1> QED BY <1>1, <1>4, <1>5, <1>6 DEF NonceInv

\* A step of a call keeps the invariant of the nonces.
LEMMA CallNonce ==
  ASSUME NonceInv, TypeOK', NEW j \in Jobs, Execute(j) \/ JobStep(j) \/ Answer(j)
  PROVE  NonceInv'
  <1>1. CASE Execute(j) \/ KeyProvided(j) \/ WalletUserKnown(j) \/ BrowserRoute(j) \/ SnAnswers(j)
    BY <1>1, RoutingNonce
  <1>2. CASE Starts(j)
    BY <1>2, QuietStep DEF Starts, callVars, builderVars, chainVars
  <1>3. CASE ReadsDocument(j)
    BY <1>3, QuietStep DEF ReadsDocument, callVars, chainVars
  <1>4. CASE Prepared(j)
    <2>1. CASE nextNonce # NoNonce /\ Allocates(j, nextNonce)
      <3>1. nextNonce \in Nat
        BY <2>1 DEF NonceInv, TypeOK
      <3> QED BY <1>4, <2>1, <3>1, AllocatingNonce DEF Prepared
    <2>2. CASE pc' = [pc EXCEPT ![j] = "counting"] /\ UNCHANGED <<nextNonce, nonce, expected>>
      BY <1>4, <2>2, QuietStep DEF Prepared, callVars, chainVars
    <2> QED BY <1>4, <2>1, <2>2 DEF Prepared
  <1>5. CASE Counted(j)
    <2>1. PICK n \in PendingCount(key[j]) : Allocates(j, n)
      BY <1>5 DEF Counted, CountOf
    <2>2. n \in mined[key[j]] .. mined[key[j]] + Cardinality(Taken(key[j])) /\ mined[key[j]] \in Nat
      BY DEF PendingCount, NonceInv, TypeOK
    <2>3. n \in Nat
      BY <2>2
    <2> QED BY <1>5, <2>1, <2>3, AllocatingNonce DEF Counted
  <1>6. CASE BuildFails(j)
    BY <1>6, OverNonce DEF BuildFails, Outcomes
  <1>7. CASE Submits(j)
    BY <1>7, SubmitNonce
  <1>8. CASE SubmitAnswered(j)
    <2>1. CASE sub[j] \in {"pool", "mined", "reverted", "evicted"} /\ JobOver(j, "ok")
      BY <1>8, <2>1, OverNonce DEF SubmitAnswered, Outcomes
    <2>2. CASE sub[j] = "rejected" /\ JobOver(j, "rejected")
      BY <1>8, <2>2, OverNonce DEF SubmitAnswered, Outcomes
    <2> QED BY <1>8, <2>1, <2>2 DEF SubmitAnswered
  <1>9. CASE SubmitUnanswered(j)
    BY <1>9, OverNonce DEF SubmitUnanswered, Outcomes
  <1> QED BY <1>1, <1>2, <1>3, <1>4, <1>5, <1>6, <1>7, <1>8, <1>9 DEF JobStep, Answer

\* A step of the node keeps it.
LEMMA NodeNonce ==
  ASSUME NonceInv, TypeOK', NEW j \in Jobs, NodeStep(j)
  PROVE  NonceInv'
  <1>1. CASE NodeReceives(j)
    <2>1. CASE nonce[j] < mined[key[j]] \/ nonce[j] \in Taken(key[j])
      <3>1. nonce[j] \in Used(key[j])
        BY <2>1 DEF Used, NonceInv, TypeOK
      <3> QED BY <1>1, <2>1, <3>1, RefusedNonce DEF NodeReceives
    <2>2. CASE ~(nonce[j] < mined[key[j]] \/ nonce[j] \in Taken(key[j]))
      <3>1. nonce[j] \notin Used(key[j])
        BY <2>2 DEF Used
      <3> QED BY <1>1, <2>2, <3>1, PooledNonce DEF NodeReceives
    <2> QED BY <2>1, <2>2
  <1>2. CASE Lost(j)
    BY <1>2, RefusedNonce DEF Lost
  <1>3. CASE Evicts(j)
    BY <1>3, RefusedNonce DEF Evicts
  <1>4. CASE Mines(j)
    BY <1>4, MinedNonce DEF Mines
  <1> QED BY <1>1, <1>2, <1>3, <1>4 DEF NodeStep

\* The invariant of the nonces, of every execution.
THEOREM NonceInvariant == Spec => []NonceInv
  <1>1. NonceInv /\ TypeOK' /\ [Next]_vars => NonceInv'
    <2> SUFFICES ASSUME NonceInv, TypeOK', [Next]_vars PROVE NonceInv'
      OBVIOUS
    <2>1. CASE UNCHANGED vars
      BY <2>1 DEF vars, NonceInv, InTurn, Told, Cached, Filled, Ordered, Unused, Queued, Clear, Agrees,
                  Used, Taken, Calm, Clean, Sends, OneKey, Signed, Evicted, QueueOrder
    <2> QED BY <2>1, CallNonce, NodeNonce, OthersNonce DEF Next
  <1> QED BY <1>1, InitNonceInv, TypeCorrect, PTL DEF Spec

\* Calls of one executor get nonces that the node accepts, mines, and mines in
\* the order of the queue, whatever fails, is lost or comes late.
THEOREM NoncesInOrder == Spec => []NonceOrder
  <1>1. NonceInv => NonceOrder
    <2> SUFFICES ASSUME NonceInv PROVE NonceOrder
      OBVIOUS
    <2>1. NoSelfConflict
      BY DEF NonceInv, NoSelfConflict, Unused, Clean, Calm, TypeOK
    <2>2. NoGap
      <3> SUFFICES ASSUME Calm, NEW j \in Jobs, sub[j] = "pool", NEW n \in mined[key[j]] .. nonce[j]
                   PROVE  n \in Taken(key[j])
        BY DEF NoGap, Calm
      <3>1. key[j] \in Keys /\ mined[key[j]] \in Nat /\ nonce[j] \in Nat
        BY DEF NonceInv, TypeOK
      <3>2. nonce[j] \in Taken(key[j])
        BY DEF Taken
      <3>3. n \in Nat /\ ~(n < mined[key[j]])
        BY <3>1
      <3>4. n \in Used(key[j])
        BY <3>1, <3>2, <3>3 DEF NonceInv, Filled, Sends, Used
      <3> QED BY <3>3, <3>4 DEF Used
    <2>3. QueueOrder
      BY DEF NonceInv, Ordered, Calm, QueueOrder
    <2> QED BY <2>1, <2>2, <2>3 DEF NonceOrder
  <1> QED BY <1>1, NonceInvariant, PTL
==============================================================================
