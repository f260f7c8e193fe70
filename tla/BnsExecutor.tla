----------------------------- MODULE BnsExecutor -----------------------------
(***************************************************************************)
(* BnsTxExecutor (src/src/bns_tx_executor.ts) and the BnsEvmTxBuilder it   *)
(* drives (src/src/bns_evm_tx.ts): concurrent calls of execute() choose a  *)
(* route each; the local ones go one after another through                 *)
(* localExecutionTail, and each reads the document, allocates a nonce,     *)
(* signs and submits.  The chain node, the SN proxy, the key provider and  *)
(* the wallet are modelled from how that code uses them: a submission may  *)
(* be lost, or reach the node after its caller has given up; the node may  *)
(* evict a transaction; the keys may be used outside this process.         *)
(***************************************************************************)
EXTENDS Integers, Sequences, FiniteSets

CONSTANTS
  Jobs,        \* the calls of execute()
  Values,      \* the record values of the document
  Op,          \* Op[j]: the operation of call j
  Keys,        \* the accounts whose private key the provider may return
  Runtimes,    \* bound: the runtime types the calls may see
  Options,     \* bound: which clients the executor may have been given
  MaxOutside,  \* bound: transactions sent with these keys by others
  MaxEvicted   \* bound: transactions the node evicts

ASSUME OpAssumption ==
  Op \in [Jobs -> [mode : {"add", "remove", "replace"}, value : Values]]
ASSUME RuntimesAssumption == Runtimes \subseteq {"browser", "wallet", "local"}
ASSUME OptionsAssumption == Options \subseteq [evm : BOOLEAN, bns : BOOLEAN, sn : BOOLEAN]
ASSUME KeysAssumption == Keys # {}
ASSUME BoundsAssumption == MaxOutside \in Nat /\ MaxEvicted \in Nat

NoNonce == -1

VARIABLES
  options,    \* which clients the executor was given
  pc,         \* pc[j]: where call j is, or how it ended
  runtime,    \* runtime[j]: the runtime type call j saw
  key,        \* key[j]: the account call j signs for
  queue,      \* the local calls in the order they were chained
  served,     \* how many of them are over
  nextNonce,  \* the builder's cached nonce
  plan,       \* plan[j]: the document call j read
  nonce,      \* nonce[j]: the nonce call j signed with
  expected,   \* expected[j]: the expectedVersion call j signed
  sub,        \* sub[j]: what became of the transaction of call j
  mined,      \* mined[k]: the transactions of account k mined so far
  foreign,    \* foreign[k]: nonces of pending transactions sent by others
  outside,    \* how many those were
  doc         \* the document on the chain

callVars == <<options, runtime, key>>
builderVars == <<nextNonce, plan, nonce, expected>>
chainVars == <<mined, foreign, outside, doc>>
vars == <<options, pc, runtime, key, queue, served, nextNonce, plan, nonce,
          expected, sub, mined, foreign, outside, doc>>

Ledger == INSTANCE BnsLedger
            WITH records <- doc.records, done <- {j \in Jobs : sub[j] = "mined"}

Outcomes == {"ok", "failed", "rejected", "unanswered"}
Local == {"queued", "document", "prepared", "counting", "signing", "submitting"}

Init ==
  /\ options \in Options
  /\ pc = [j \in Jobs |-> "idle"]
  /\ runtime = [j \in Jobs |-> "browser"]
  /\ key = [j \in Jobs |-> CHOOSE k \in Keys : TRUE]
  /\ queue = <<>> /\ served = 0
  /\ nextNonce = NoNonce
  /\ plan = [j \in Jobs |-> [version |-> 0, records |-> {}]]
  /\ nonce = [j \in Jobs |-> 0]
  /\ expected = [j \in Jobs |-> 0]
  /\ sub = [j \in Jobs |-> "none"]
  /\ mined = [k \in Keys |-> 0]
  /\ foreign = [k \in Keys |-> {}]
  /\ outside = 0
  /\ doc = [version |-> 0, records |-> {}]

-----------------------------------------------------------------------------
(* Routing.                                                                *)

Execute(j) ==
  /\ pc[j] = "idle"
  /\ pc' = [pc EXCEPT ![j] = "routing"]
  /\ \E r \in Runtimes : runtime' = [runtime EXCEPT ![j] = r]
  /\ UNCHANGED <<options, key, queue, served, builderVars, sub, chainVars>>

\* executeWithSn.
ExecuteWithSn(j) ==
  /\ pc' = [pc EXCEPT ![j] = IF options.sn THEN "sn" ELSE "failed"]
  /\ UNCHANGED <<key, queue>>

\* executeLocally: the builder exists if the BNS client and the EVM config do.
ExecuteLocally(j, k) ==
  /\ key' = [key EXCEPT ![j] = k]
  /\ IF options.bns
       THEN pc' = [pc EXCEPT ![j] = "queued"] /\ queue' = Append(queue, j)
       ELSE pc' = [pc EXCEPT ![j] = "failed"] /\ UNCHANGED queue

KeyProvided(j) ==
  /\ pc[j] = "routing" /\ runtime[j] = "local"
  /\ \/ ExecuteWithSn(j)                                 \* no key
     \/ \E k \in Keys :
          IF options.evm THEN ExecuteLocally(j, k) ELSE ExecuteWithSn(j)
     \/ pc' = [pc EXCEPT ![j] = "failed"] /\ UNCHANGED <<key, queue>>
  /\ UNCHANGED <<options, runtime, served, builderVars, sub, chainVars>>

\* The wallet's user has an SN account, or not, or the wallet fails.
WalletUserKnown(j) ==
  /\ pc[j] = "routing" /\ runtime[j] = "wallet"
  /\ \/ ExecuteWithSn(j)
     \/ pc' = [pc EXCEPT ![j] = "failed"] /\ UNCHANGED <<key, queue>>
  /\ UNCHANGED <<options, runtime, served, builderVars, sub, chainVars>>

BrowserRoute(j) ==
  /\ pc[j] = "routing" /\ runtime[j] = "browser"
  /\ ExecuteWithSn(j)
  /\ UNCHANGED <<options, runtime, served, builderVars, sub, chainVars>>

SnAnswers(j) ==
  /\ pc[j] = "sn"
  /\ \E outcome \in {"ok", "failed"} : pc' = [pc EXCEPT ![j] = outcome]
  /\ UNCHANGED <<callVars, queue, served, builderVars, sub, chainVars>>

-----------------------------------------------------------------------------
(* The local calls, one at a time.                                         *)

\* localExecutionTail: the call whose predecessors are all over.
Turn(j) == served < Len(queue) /\ queue[served + 1] = j

\* Seeded: resetNonce is forgotten.
NonceKept == nextNonce

\* The nonce cached after a failure.
AfterFailure == NoNonce

\* getTransactionCount(address, "pending").
Taken(k) == foreign[k] \cup {nonce[j] : j \in {i \in Jobs : sub[i] = "pool" /\ key[i] = k}}

\* The first free nonce, as the only element of a set.
PendingCount(k) ==
  {n \in mined[k] .. mined[k] + Cardinality(Taken(k)) :
     n \notin Taken(k) /\ \A m \in mined[k] .. n - 1 : m \in Taken(k)}

CountOf(k) == PendingCount(k)

\* The version a call read: 0 where there is no document.
VersionRead == doc.version

\* Seeded: the version is asked for again when the transaction is built.
VersionNow(j) == doc.version

\* The expectedVersion a call signs.
ExpectedVersion(j) == plan[j].version

\* Seeded: the next call waits for good after a failed one.
HeldUp(outcome) == IF outcome = "ok" THEN served + 1 ELSE served

\* The chain goes on whatever became of a call.
ServedAfter(outcome) == served + 1

JobOver(j, outcome) ==
  /\ pc' = [pc EXCEPT ![j] = outcome]
  /\ served' = ServedAfter(outcome)
  /\ nextNonce' = IF outcome = "ok" THEN nextNonce ELSE AfterFailure

Starts(j) ==
  /\ pc[j] = "queued" /\ Turn(j)
  /\ pc' = [pc EXCEPT ![j] = "document"]
  /\ UNCHANGED <<callVars, queue, served, builderVars, sub, chainVars>>

ReadsDocument(j) ==
  /\ pc[j] = "document"
  /\ plan' = [plan EXCEPT ![j] = [version |-> VersionRead, records |-> doc.records]]
  /\ pc' = [pc EXCEPT ![j] = "prepared"]
  /\ UNCHANGED <<callVars, queue, served, nextNonce, nonce, expected, sub, chainVars>>

\* allocateNonce, once the nonce is known, and the transaction it goes into.
Allocates(j, n) ==
  /\ nonce' = [nonce EXCEPT ![j] = n]
  /\ nextNonce' = n + 1
  /\ expected' = [expected EXCEPT ![j] = ExpectedVersion(j)]
  /\ pc' = [pc EXCEPT ![j] = "signing"]

\* The name state arrived too: the transaction takes the cached nonce, or
\* asks for one.
Prepared(j) ==
  /\ pc[j] = "prepared"
  /\ \/ nextNonce # NoNonce /\ Allocates(j, nextNonce)
     \/ /\ nextNonce = NoNonce
        /\ pc' = [pc EXCEPT ![j] = "counting"]
        /\ UNCHANGED <<nextNonce, nonce, expected>>
  /\ UNCHANGED <<callVars, queue, served, plan, sub, chainVars>>

Counted(j) ==
  /\ pc[j] = "counting"
  /\ \E n \in CountOf(key[j]) : Allocates(j, n)
  /\ UNCHANGED <<callVars, queue, served, plan, sub, chainVars>>

\* The document or the name cannot be read or used, the node does not count,
\* or the signer fails.
BuildFails(j) ==
  /\ pc[j] \in {"document", "prepared", "counting", "signing"}
  /\ JobOver(j, "failed")
  /\ UNCHANGED <<callVars, queue, plan, nonce, expected, sub, chainVars>>

Submits(j) ==
  /\ pc[j] = "signing"
  /\ pc' = [pc EXCEPT ![j] = "submitting"]
  /\ sub' = [sub EXCEPT ![j] = "wire"]
  /\ UNCHANGED <<callVars, queue, served, builderVars, chainVars>>

SubmitAnswered(j) ==
  /\ pc[j] = "submitting"
  /\ \/ sub[j] \in {"pool", "mined", "reverted", "evicted"} /\ JobOver(j, "ok")
     \/ sub[j] = "rejected" /\ JobOver(j, "rejected")
  /\ UNCHANGED <<callVars, queue, plan, nonce, expected, sub, chainVars>>

\* tx.submit_raw fails without an answer of the node, wherever its
\* transaction is.
SubmitUnanswered(j) ==
  /\ pc[j] = "submitting"
  /\ JobOver(j, "unanswered")
  /\ UNCHANGED <<callVars, queue, plan, nonce, expected, sub, chainVars>>

-----------------------------------------------------------------------------
(* The chain.                                                              *)

NodeReceives(j) ==
  /\ sub[j] = "wire"
  /\ sub' = [sub EXCEPT ![j] =
       IF nonce[j] < mined[key[j]] \/ nonce[j] \in Taken(key[j])
         THEN "rejected" ELSE "pool"]
  /\ UNCHANGED <<callVars, pc, queue, served, builderVars, chainVars>>

Lost(j) ==
  /\ sub[j] = "wire"
  /\ sub' = [sub EXCEPT ![j] = "lost"]
  /\ UNCHANGED <<callVars, pc, queue, served, builderVars, chainVars>>

\* The registry refuses a document whose expectedVersion is not current, and
\* may refuse it for other reasons.
Mines(j) ==
  /\ sub[j] = "pool" /\ nonce[j] = mined[key[j]]
  /\ mined' = [mined EXCEPT ![key[j]] = @ + 1]
  /\ \/ /\ expected[j] = doc.version
        /\ sub' = [sub EXCEPT ![j] = "mined"]
        /\ doc' = [version |-> doc.version + 1,
                   records |-> Ledger!Effect(Op[j], plan[j].records)]
     \/ sub' = [sub EXCEPT ![j] = "reverted"] /\ UNCHANGED doc
  /\ UNCHANGED <<callVars, pc, queue, served, builderVars, foreign, outside>>

Evicted == {j \in Jobs : sub[j] = "evicted"}

Evicts(j) ==
  /\ sub[j] = "pool" /\ Cardinality(Evicted) < MaxEvicted
  /\ sub' = [sub EXCEPT ![j] = "evicted"]
  /\ UNCHANGED <<callVars, pc, queue, served, builderVars, chainVars>>

OutsideSubmits(k) ==
  /\ outside < MaxOutside
  /\ outside' = outside + 1
  /\ \E n \in PendingCount(k) : foreign' = [foreign EXCEPT ![k] = @ \cup {n}]
  /\ UNCHANGED <<callVars, pc, queue, served, builderVars, sub, mined, doc>>

OutsideMined(k) ==
  /\ mined[k] \in foreign[k]
  /\ mined' = [mined EXCEPT ![k] = @ + 1]
  /\ foreign' = [foreign EXCEPT ![k] = @ \ {mined[k]}]
  /\ \/ UNCHANGED doc
     \/ \E new \in SUBSET Values : doc' = [version |-> doc.version + 1, records |-> new]
  /\ UNCHANGED <<callVars, pc, queue, served, builderVars, sub, outside>>

-----------------------------------------------------------------------------

\* Steps of the SDK itself.
JobStep(j) ==
  \/ BrowserRoute(j) \/ Starts(j) \/ Prepared(j) \/ Submits(j)
  \/ SubmitAnswered(j)

\* Answers the SDK waits for.
Answer(j) ==
  \/ KeyProvided(j) \/ WalletUserKnown(j) \/ SnAnswers(j)
  \/ ReadsDocument(j) \/ Counted(j) \/ BuildFails(j) \/ SubmitUnanswered(j)

NodeStep(j) == NodeReceives(j) \/ Lost(j) \/ Mines(j) \/ Evicts(j)

Outside(k) == OutsideSubmits(k) \/ OutsideMined(k)

Next ==
  \/ \E j \in Jobs : Execute(j) \/ JobStep(j) \/ Answer(j) \/ NodeStep(j)
  \/ \E k \in Keys : Outside(k)

Spec == Init /\ [][Next]_vars

\* Every service that is asked answers or fails in the end.
AnsweredSpec == Spec /\ \A j \in Jobs : WF_vars(JobStep(j) \/ Answer(j))

-----------------------------------------------------------------------------
(* Properties.                                                             *)

\* The type of every variable; a document version is a number.
TypeOK ==
  /\ options \in Options
  /\ pc \in [Jobs -> {"idle", "routing", "sn"} \cup Local \cup Outcomes]
  /\ runtime \in [Jobs -> {"browser", "wallet", "local"}]
  /\ key \in [Jobs -> Keys]
  /\ queue \in Seq(Jobs)
  /\ served \in Nat
  /\ nextNonce \in Nat \cup {NoNonce}
  /\ plan \in [Jobs -> [version : Nat, records : SUBSET Values]]
  /\ nonce \in [Jobs -> Nat]
  /\ expected \in [Jobs -> Nat]
  /\ sub \in [Jobs -> {"none", "wire", "pool", "mined", "reverted", "rejected", "evicted", "lost"}]
  /\ mined \in [Keys -> Nat]
  /\ foreign \in [Keys -> SUBSET Nat]
  /\ outside \in Nat
  /\ doc \in [version : Nat, records : SUBSET Values]

Signed == {j \in Jobs : sub[j] # "none"}
OneKey == \A i, j \in Signed : key[i] = key[j]

\* A call is refused by the node for its nonce only if something outside the
\* executor interfered: the key was used elsewhere, an answer was missing, a
\* transaction was evicted, or the provider returned another key.  Calls of
\* one executor never take each other's nonce.
NoSelfConflict ==
  (\E j \in Jobs : sub[j] = "rejected") =>
    outside > 0 \/ Evicted # {} \/ ~OneKey \/ \E j \in Jobs : pc[j] = "unanswered"

\* With one key and no eviction no transaction waits for a nonce that nobody
\* sent: whatever failed or was lost on the way, every pending transaction
\* can be mined.
NoGap ==
  OneKey /\ Evicted = {} =>
    \A j \in Jobs : sub[j] = "pool" =>
      \A n \in mined[key[j]] .. nonce[j] : n \in Taken(key[j])

\* With one key and no eviction the calls that were accepted are mined in
\* the order they entered the queue, though the calls between them failed.
QueueOrder ==
  OneKey /\ Evicted = {} =>
    \A a, b \in DOMAIN queue :
      a < b /\ pc[queue[a]] = "ok" /\ pc[queue[b]] = "ok"
        => nonce[queue[a]] < nonce[queue[b]]

\* Whatever fails, is lost or comes late: calls of one executor get nonces that
\* the node accepts, mines, and mines in the order of the queue
\* (localExecutionTail, bns_tx_executor.ts:256; resetNonce, l.248).
NonceOrder == NoSelfConflict /\ NoGap /\ QueueOrder

\* An operation takes effect in full on the document as it is when it is
\* mined: no call overwrites what another writer did since it read.
ImplementsLedger == Ledger!Spec

\* Every call returns, and a failed call does not hold up those behind it: each
\* is made once, so again and again none is waited for.
CallsReturn == []<>(\A j \in Jobs : pc[j] \in Outcomes \cup {"idle"})
-----------------------------------------------------------------------------
(* Three calls on one document for TLC: add a record, replace all, remove  *)
(* one; and the clients that a runtime may have for them.                  *)
AddReplaceRemove ==
  [j1 |-> [mode |-> "add", value |-> "v1"], j2 |-> [mode |-> "replace", value |-> "v2"],
   j3 |-> [mode |-> "remove", value |-> "v1"]]
Client(evm, bns, sn) == [evm |-> evm, bns |-> bns, sn |-> sn]
SomeClients == {Client(TRUE, TRUE, TRUE), Client(FALSE, TRUE, FALSE), Client(FALSE, FALSE, FALSE)}
=============================================================================
