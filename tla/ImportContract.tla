---------------------------- MODULE ImportContract ----------------------------
(***************************************************************************)
(* What an NDM import session promises its callers (doc/ndm_client.md,     *)
(* "States and lifecycle"), without chunks, workers or requests:           *)
(*   - an attempt at a time, and it ends before the next one begins;       *)
(*   - `ready` is published by a running attempt, only over roots the      *)
(*     server has registered, and never changes again;                     *)
(*   - once cancelled, an attempt cannot publish;                          *)
(*   - ensureUploaded resolves only when the objects are ready.            *)
(***************************************************************************)
CONSTANT Callers

VARIABLES outcome,  \* "pending", "ready", "failed" or "cancelled"
          running,  \* an attempt is in progress
          roots,    \* the server has registered the import's roots
          answer    \* each ensureUploaded call: "none", "open", "ok" or "error"

cvars == <<outcome, running, roots, answer>>

Init == /\ outcome = "pending" /\ running = FALSE /\ roots = FALSE
        /\ answer = [e \in Callers |-> "none"]

Asks == \/ UNCHANGED answer
        \/ \E e \in Callers : /\ answer[e] = "none"
                              /\ answer' = [answer EXCEPT ![e] = "open"]

Begin == /\ ~running /\ outcome /= "ready"
         /\ outcome' = "pending" /\ running' = TRUE
         /\ Asks /\ UNCHANGED roots

Ask == Asks /\ UNCHANGED <<outcome, running, roots>>

\* A rejected start forgets the previous outcome.
Forget == /\ ~running /\ outcome /= "ready" /\ outcome' = "pending"
          /\ UNCHANGED <<running, roots, answer>>

Cancel == /\ outcome /= "ready" /\ outcome' = "cancelled"
          /\ UNCHANGED <<running, roots, answer>>

Register == /\ running /\ roots' = TRUE
            /\ UNCHANGED <<outcome, running, answer>>

Publish == /\ running /\ roots /\ outcome = "pending" /\ outcome' = "ready"
           /\ UNCHANGED <<running, roots, answer>>

GiveUp == /\ running
          /\ \/ outcome = "pending" /\ outcome' \in {"failed", "cancelled"}
             \/ outcome = "cancelled" /\ outcome' = outcome
          /\ UNCHANGED <<running, roots, answer>>

\* The attempt ends; without `ready` the calls that waited for it fail.
End == /\ running /\ outcome /= "pending" /\ running' = FALSE
       /\ answer' = [e \in Callers |->
            IF answer[e] = "open" /\ outcome /= "ready"
            THEN "error" ELSE answer[e]]
       /\ UNCHANGED <<outcome, roots>>

\* A call that resolves after `ready` may still fail: the session is released.
Answer(e) == /\ answer[e] = "open" /\ ~running
             /\ \/ outcome = "ready" /\ answer' = [answer EXCEPT ![e] = "ok"]
                \/ answer' = [answer EXCEPT ![e] = "error"]
             /\ UNCHANGED <<outcome, running, roots>>

Next == \/ Begin \/ Ask \/ Forget \/ Cancel \/ Register \/ Publish \/ GiveUp \/ End
        \/ \E e \in Callers : Answer(e)

ContractSpec == Init /\ [][Next]_cvars
=============================================================================
