------------------------------- MODULE NdnIds -------------------------------
(***************************************************************************)
(* Object ids and their codecs (src/src/ndn_types.ts): hex, base32 and     *)
(* varint, ObjId, ChunkId, and an id that is passed on in one of its forms *)
(* after the other: text, base32 (the host name form), bytes, a path.      *)
(*                                                                         *)
(* Bytes are numbers, hex and base32 texts are the sequences of their      *)
(* digits; a type is the sequence of its bytes.  What may throw returns a  *)
(* set: {} is an error.                                                    *)
(***************************************************************************)
EXTENDS Naturals, Sequences, FiniteSets, SequencesExt

CONSTANTS
  MaxSafe,    \* the greatest integer a number holds: 2^53 - 1 in the code
  Spelling,   \* object type -> its bytes, the chunk types among them
  Hashes,     \* hashes the ids have
  Around    \* what may stand before an id in a path: parts that parse as no id

Colon == 58

-----------------------------------------------------------------------------
(* Codecs.                                                                 *)

BytesToHex(b) == FlattenSeq([i \in DOMAIN b |-> <<b[i] \div 16, b[i] % 16>>])

HexToBytes(d) ==
  IF Len(d) % 2 # 0 THEN {}
  ELSE {[i \in 1..(Len(d) \div 2) |-> (16 * d[2 * i - 1]) + d[2 * i]]}

\* `value` is an int of 32 bits that is never masked; the digits read its low
\* 12 bits, so it keeps 16 here.
Shifted(value, bits, digit) == (value * 2^bits + digit) % 2^16

LastDigit(s) == IF s.bits = 0 THEN s.out ELSE Append(s.out, (s.value * 2^(5 - s.bits)) % 32)

Base32Encode(bytes) ==
  LET Step(s, b) ==
        LET v == Shifted(s.value, 8, b)
            n == s.bits + 8
        IN  [value |-> v, bits |-> n % 5,
             out |-> s.out \o [k \in 1..(n \div 5) |-> (v \div 2^(n - 5 * k)) % 32]]
  IN  LastDigit(FoldLeft(Step, [value |-> 0, bits |-> 0, out |-> <<>>], bytes))

Base32Decode(digits) ==
  LET Step(s, d) ==
        LET v == Shifted(s.value, 5, d)
            n == s.bits + 5
        IN  IF n < 8 THEN [value |-> v, bits |-> n, out |-> s.out]
            ELSE [value |-> v, bits |-> n - 8, out |-> Append(s.out, (v \div 2^(n - 8)) % 256)]
  IN  FoldLeft(Step, [value |-> 0, bits |-> 0, out |-> <<>>], digits).out

Groups(n) == CHOOSE k \in 1..5 : n < 128^k /\ (k = 1 \/ n >= 128^(k - 1))

VarintEncode(n) ==
  IF n > MaxSafe THEN {}
  ELSE {[i \in 1..Groups(n) |-> ((n \div 128^(i - 1)) % 128) + (IF i < Groups(n) THEN 128 ELSE 0)]}

\* The value, if the bytes up to the first one without its high bit make a
\* number that is safe at each of them.
VarintDecode(bytes) ==
  LET Part[i \in 0..Len(bytes)] ==
        IF i = 0 THEN 0 ELSE Part[i - 1] + ((bytes[i] % 128) * 128^(i - 1))
      ends == {i \in DOMAIN bytes : /\ bytes[i] < 128
                                    /\ \A j \in 1..(i - 1) : bytes[j] >= 128 /\ Part[j] <= MaxSafe
                                    /\ Part[i] <= MaxSafe}
  IN  {Part[i] : i \in ends}

-----------------------------------------------------------------------------
(* Types.                                                                  *)

MixOf == [sha256 |-> "mix256", sha512 |-> "mix512", qcid |-> "qcid",
          blake2s256 |-> "mixblake2s256", keccak256 |-> "mixkeccak256"]
HashMethods == DOMAIN MixOf
MixTypes == {MixOf[h] : h \in HashMethods}
ChunkTypes == MixTypes \cup HashMethods

IsMix(t) == t \in MixTypes
FromHashType(h, mix) == IF mix THEN {MixOf[h]} ELSE {h} \ {"qcid"}
ToHashMethod(t) == {h \in HashMethods : t \in {h, MixOf[h]}}

Containers == {"cydir", "cymap", "cylist", "clist"}
IsChunk(t) == t \in ChunkTypes
IsJson(t) == t \notin ChunkTypes \cup Containers \cup {"cypack"}

-----------------------------------------------------------------------------
(* ObjId and ChunkId.                                                      *)

\* utf8Decode of the bytes of a type.
TypeOf(bytes) == {t \in DOMAIN Spelling : Spelling[t] = bytes}

IdToBytes(id) == Spelling[id.type] \o <<Colon>> \o id.hash

FirstColon(b) == {i \in DOMAIN b : b[i] = Colon /\ \A j \in 1..(i - 1) : b[j] # Colon}

Split(b) ==
  UNION {{[type |-> t, hash |-> SubSeq(b, i + 1, Len(b))] : t \in TypeOf(SubSeq(b, 1, i - 1))}
           : i \in FirstColon(b)}

IdFromBytes(b) == IF Len(b) < 3 THEN {} ELSE Split(b)

\* The text has a colon, or is base32.
IdToText(id) == [type |-> id.type, digits |-> BytesToHex(id.hash)]
IdToBase32(id) == [type |-> "", digits |-> Base32Encode(IdToBytes(id))]

IdFromText(s) ==
  IF s.type = "" THEN Split(Base32Decode(s.digits))
  ELSE {[type |-> s.type, hash |-> h] : h \in HexToBytes(s.digits)}

\* The first part of a path that parses, and what comes after it.
IdFromPath(path) ==
  LET parts == {i \in DOMAIN path : (path[i].type # "" \/ path[i].digits # <<>>) /\ IdFromText(path[i]) # {}}
      first == {i \in parts : \A j \in parts : i <= j}
  IN  UNION {{[id |-> id, rest |-> SubSeq(path, i + 1, Len(path))] : id \in IdFromText(path[i])}
               : i \in first}

MixLengthAndHash(n, hash) == {v \o hash : v \in VarintEncode(n)}
MixId(type, n, hash) == {[type |-> type, hash |-> h] : h \in MixLengthAndHash(n, hash)}

GetLength(id) == IF id.hash = <<>> \/ ~IsMix(id.type) THEN {} ELSE VarintDecode(id.hash)

-----------------------------------------------------------------------------
(* An id on its way.                                                       *)

VARIABLES
  id,     \* the id that is passed on
  shown   \* its current form, and the form's value

vars == <<id, shown>>

Lengths == {0, 1, 127, 128, 300, 16384, MaxSafe}

Ids == (UNION {MixId(t, n, h) : t \in DOMAIN Spelling \cap MixTypes, n \in Lengths, h \in Hashes})
         \cup {[type |-> t, hash |-> h] : t \in DOMAIN Spelling \ MixTypes, h \in Hashes}

Init ==
  /\ id \in Ids
  /\ shown = [form |-> "bytes", value |-> IdToBytes(id)]

Read ==
  CASE shown.form = "bytes" -> IdFromBytes(shown.value)
    [] shown.form = "text" -> IdFromText(shown.value)
    [] shown.form = "path" -> {p.id : p \in IdFromPath(shown.value)}

Shows(form, Value(_)) ==
  /\ \E i \in Read : shown' = [form |-> form, value |-> Value(i)]
  /\ UNCHANGED id

ToBytes == Shows("bytes", IdToBytes)
ToText == Shows("text", IdToText)
ToBase32 == Shows("text", IdToBase32)

\* As a part of a path, in either text form.
ToPath ==
  /\ \E i \in Read, p \in Around, rest \in Around :
       \E t \in {IdToText(i), IdToBase32(i)} : shown' = [form |-> "path", value |-> p \o <<t>> \o rest]
  /\ UNCHANGED id

Next == ToBytes \/ ToText \/ ToBase32 \/ ToPath

Spec == Init /\ [][Next]_vars

-----------------------------------------------------------------------------
\* Whatever forms an id is passed on in, one after the other, it is read as
\* the id it was made as, and an id of mixed content keeps its length.
NameIsKept ==
  /\ Read = {id}
  /\ IsMix(id.type) => \E n \in Lengths, h \in Hashes :
                          GetLength(id) = {n} /\ id \in MixId(id.type, n, h)
  /\ IsChunk(id.type) => UNION {FromHashType(h, IsMix(id.type)) : h \in ToHashMethod(id.type)} = {id.type}
=============================================================================
