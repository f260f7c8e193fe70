------------------------------ MODULE BnsLedger ------------------------------
(***************************************************************************)
(* What the callers of BnsTxExecutor are promised about one inline BNS     *)
(* document: every operation that takes effect does so once, in full, on   *)
(* the document as it then is.  Other holders of the name may replace the  *)
(* document at any time.                                                   *)
(***************************************************************************)
CONSTANTS
  Jobs,    \* the calls of execute()
  Values,  \* the record values of the document
  Op       \* Op[j]: what call j asks for, a mode ("add", "remove", "replace") and a value

VARIABLES
  records,  \* the records of the document
  done      \* the operations that took effect

\* The document an operation makes of the document `base`.
Effect(op, base) ==
  IF op.mode = "add" THEN base \cup {op.value}
  ELSE IF op.mode = "remove" THEN base \ {op.value}
  ELSE {op.value}

Init == records = {} /\ done = {}

Applies(j) ==
  /\ j \notin done
  /\ done' = done \cup {j}
  /\ records' = Effect(Op[j], records)

OutsideUpdate ==
  /\ records' \in SUBSET Values
  /\ UNCHANGED done

Next == OutsideUpdate \/ \E j \in Jobs : Applies(j)

Spec == Init /\ [][Next]_<<records, done>>
==============================================================================
