---------------------------- MODULE NdnMessages ----------------------------
(***************************************************************************)
(* The checked entry of MsgObject (src/src/ndn_types.ts): a message that   *)
(* arrives as JSON, or as the claims of a JWT, is decoded with the rules   *)
(* of the Rust struct, validated, and must be the canonical form of        *)
(* itself, since its receiver keeps it under the ObjId of what came.       *)
(*                                                                         *)
(* A message maps its fields to the class of the value found there.        *)
(***************************************************************************)
EXTENDS Naturals, FiniteSets, TLC

CONSTANTS
  Together,  \* sets of fields in which a message may differ from Plain
  MaxInbox   \* bound: messages kept

VARIABLE inbox   \* messages accepted: what came (its ObjId), what it was read as

-----------------------------------------------------------------------------
(* Fields.                                                                 *)

Records == {"content", "thread", "relates_to", "mentions", "machine"}

\* The record a field is found in.
ParentOf ==
  [f \in {"title", "format", "body", "refs", "machine"} |-> "content"]
    @@ [f \in {"topic"} |-> "thread"]
    @@ [f \in {"rel", "target", "key"} |-> "relates_to"]
    @@ [f \in {"dids", "all"} |-> "mentions"]
    @@ [f \in {"data"} |-> "machine"]

Required == {"from", "to", "kind", "content", "rel", "target"}

\* Option<T>: null is absence.
Optional == {"to_session", "relates_to", "mentions", "workspace", "expires_at_ms", "nonce",
             "title", "format", "machine", "topic", "key"}

\* Only `undefined` is absence, and the empty value is dropped.
Defaulted == {"thread", "created_at_ms", "dids", "all", "body", "refs", "data"}

\* Kept as they are: `proof` and the flattened meta.
Free == {"meta", "proof"}

Fields == Required \cup Optional \cup Defaulted \cup Free

\* "default": the empty value of the type; "bad": a value of another type.
Values(f) ==
  {"absent", "null", "bad"}
    \cup (IF f \in Records THEN {"record"} ELSE {"default", "given"})
    \cup (CASE f = "to" -> {"two"}
            [] f = "to_session" -> {"invalid"}
            [] f = "format" -> {"alias"}
            [] f = "target" -> {"other type"}
            [] f = "rel" -> {"reaction", "unknown"}
            [] f = "key" -> {"too long"}
            [] OTHER -> {})

Plain == [f \in Fields |->
            IF f = "content" THEN "record"
            ELSE IF f \in Required /\ f \notin DOMAIN ParentOf THEN "given" ELSE "absent"]

There(x, f) == f \in DOMAIN ParentOf => x[ParentOf[f]] = "record"

\* Plain with the fields of a set changed, and the records these need.
Messages ==
  {[f \in Fields |->
      IF f \in DOMAIN c THEN c[f]
      ELSE IF \E g \in DOMAIN c \cap DOMAIN ParentOf : ParentOf[g] = f THEN "record"
      ELSE IF f \in {"rel", "target"} /\ DOMAIN c \cap {"rel", "target", "key"} # {} THEN "given"
      ELSE Plain[f]] :
     c \in UNION {{d \in [F -> UNION {Values(f) : f \in F}] : \A f \in F : d[f] \in Values(f)} :
                    F \in Together}}

-----------------------------------------------------------------------------
(* Decoding: decodeMsgObject and the decoders of its fields.               *)

Fails(x, f) ==
  /\ f \notin Free /\ There(x, f)
  /\ \/ x[f] = "bad"
     \/ x[f] = "null" /\ f \notin Optional
     \/ x[f] = "absent" /\ f \in Required

\* Seeded: an alias of a format stays what it is.
ReadVerbatim(x, f) ==
  IF f \in Free THEN x[f]
  ELSE IF ~There(x, f) \/ x[f] = "null" \/ (x[f] = "default" /\ f \in Defaulted) THEN "absent"
  ELSE x[f]

\* null and defaults are dropped, aliases resolved.
ReadField(x, f) ==
  IF f \in Free THEN x[f]
  ELSE IF ~There(x, f) \/ x[f] = "null" \/ (x[f] = "default" /\ f \in Defaulted) THEN "absent"
  ELSE IF x[f] = "alias" THEN "given"
  ELSE x[f]

\* A thread of which nothing is left is dropped; other records stay.
DecodeMsg(x) ==
  [f \in Fields |-> IF f = "thread" /\ ReadField(x, "topic") = "absent" THEN "absent"
                    ELSE ReadField(x, f)]

-----------------------------------------------------------------------------
(* validateMsgObject.                                                      *)

SessionValid(m) == m["to_session"] \in {"absent", "given"} /\ (m["to_session"] = "given" => m["to"] = "given")

MentionsValid(m) == m["mentions"] = "record" => m["dids"] # "absent" \/ m["all"] = "given"

RelationValid(m) ==
  m["relates_to"] = "record" =>
    /\ m["target"] = "given"
    /\ m["rel"] = "reaction" => m["key"] = "given"
    /\ m["rel"] = "given" => m["key"] = "absent"

ValidMsg(m) == SessionValid(m) /\ MentionsValid(m) /\ RelationValid(m) /\ m["proof"] = "absent"

\* msgObjectFromJsonChecked.
Checked(x) ==
  /\ \A f \in Fields : ~Fails(x, f)
  /\ ValidMsg(DecodeMsg(x))
  /\ DecodeMsg(x) = x

-----------------------------------------------------------------------------
Init == inbox = {}

\* decodeMsgJwtHeader, and the signature under the key resolved for its kid.
HeaderValid(h) == h.alg = "EdDSA" /\ h.kid /\ h.signed

JwtHeaders == [alg : {"EdDSA", "none"}, kid : BOOLEAN, signed : BOOLEAN]

Receive(x) ==
  /\ Checked(x)
  /\ inbox' = inbox \cup {[id |-> x, msg |-> DecodeMsg(x)]}

ReceiveJwt(x, h) == HeaderValid(h) /\ Receive(x)

Next ==
  /\ Cardinality(inbox) < MaxInbox
  /\ \E x \in Messages : Receive(x) \/ \E h \in JwtHeaders : ReceiveJwt(x, h)

Spec == Init /\ [][Next]_inbox

-----------------------------------------------------------------------------
\* What a message says: the fields a reader of the standard finds in it.
Says(x) ==
  {<<f, IF x[f] = "alias" THEN "given" ELSE x[f]>> :
     f \in {g \in Fields : /\ x[g] # "absent"
                           /\ x[g] = "null" => g \in Free
                           /\ x[g] = "default" => g \notin Defaulted
                           /\ (g = "thread" => x["topic"] \notin {"absent", "null"})}}

\* Messages are kept by their ObjIds: what says the same in two spellings is
\* never kept twice, and what was kept is accepted again, as itself, when it
\* is passed on.
OneIdPerMessage ==
  \A a, b \in inbox :
    /\ Says(a.id) = Says(b.id) => a.id = b.id
    /\ Checked(a.msg) /\ Says(a.msg) = Says(a.id)
=============================================================================
