----------------------------- MODULE ObjectUrl -----------------------------
(***************************************************************************)
(* System URLs (src/src/object_url.ts): strict parsing and formatting, and *)
(* what is derived from an address: its resource key, its event key, its   *)
(* DID and its endpoint.                                                   *)
(*                                                                         *)
(* A name is the sequence of its characters, a text the sequence of its    *)
(* cells, each a character that stands for itself or is escaped; the path  *)
(* of a text is the sequence of what stands between its slashes.  What may *)
(* throw returns a set: {} is an error.                                    *)
(***************************************************************************)
EXTENDS Naturals, Sequences, FiniteSets, FiniteSetsExt, SequencesExt

CONSTANTS
  Texts,     \* what is parsed: [scheme, host, path, query]
  Services,  \* OBJ_SERVICE_NAMES
  ObjIds,    \* labels that are strict object ids
  NoLabel,   \* labels no hostname has
  Zone,      \* the hostname of the current Zone
  LevelsOf,  \* the segments an event key has at most
  MaxInputs  \* bound: addresses a run looks at

VARIABLES seen \* the URLs that were parsed

-----------------------------------------------------------------------------
(* Encoding.  "%" that begins no escape, and "bad", an escape that is not  *)
(* UTF-8, are refused.                                                     *)

Word == {"a", "x", "3", "_"}            \* [A-Za-z0-9_-]
Unreserved == Word \cup {".", "~"}
InSegment == Unreserved \cup {":", "&", "+", "="}
InQuery == Unreserved \cup {":", "/"}
Hex(c) == CASE c = ":" -> <<"3", "a">> [] c = "x" -> <<"7", "8">> [] c = "a" -> <<"6", "1">> [] c = "3" -> <<"3", "3">>
            [] c = "." -> <<"2", "e">> [] OTHER -> <<"?", c>>

Cell(c, escaped) == [c |-> c, escaped |-> escaped]
PercentDecode(t) ==
  IF \E i \in DOMAIN t : (t[i].c = "%" /\ ~t[i].escaped) \/ t[i].c = "bad" THEN {}
  ELSE {[i \in DOMAIN t |-> t[i].c]}
EncodeWith(s, kept) == [i \in DOMAIN s |-> Cell(s[i], s[i] \notin kept)]

\* (mutant) A segment is checked, and kept as it is written.
KeptAsWritten(t) == {t : s \in PercentDecode(t) \ {<<>>, <<".">>, <<".", ".">>}}
NormalSegment(t) == {EncodeWith(s, InSegment) : s \in PercentDecode(t) \ {<<>>, <<".">>, <<".", ".">>}}

\* normalizePath: a slash at the end is dropped, or kept as an empty last segment.
NormalizePath(path, trim) ==
  LET body   == IF trim /\ Last(path) = <<>> /\ Len(path) > 1 THEN Front(path) ELSE path
      slash  == ~trim /\ Last(body) = <<>>
      names  == IF slash THEN Front(body) ELSE body
  IN IF \E i \in DOMAIN names : NormalSegment(names[i]) = {} THEN {}
     ELSE {[i \in DOMAIN names |-> CHOOSE s \in NormalSegment(names[i]) : TRUE] \o (IF slash THEN <<<<>>>> ELSE <<>>)}

\* parseQuery: "+" is a space, a selector is brought to its canonical form, a key that repeats is refused.
Spaced(t) == [i \in DOMAIN t |-> IF t[i] = Cell("+", FALSE) THEN Cell(" ", TRUE) ELSE t[i]]
CanonicalJson(s) == IF s = <<" ", "{}">> THEN {<<"{}">>} ELSE IF s = <<"{}">> THEN {s} ELSE {}
ValueOf(key, value) == IF key = <<"selector">> THEN CanonicalJson(value) ELSE {value}
ParseQuery(pairs) ==
  LET Pair(p) == {<<k, v>> : k \in PercentDecode(Spaced(p[1])), v \in PercentDecode(Spaced(p[2]))}
      Read(p) == UNION {{<<kv[1], v>> : v \in ValueOf(kv[1], kv[2])} : kv \in Pair(p)}
      all     == UNION {Read(pairs[i]) : i \in DOMAIN pairs}
  IN IF \/ \E i \in DOMAIN pairs : Read(pairs[i]) = {}
        \/ \E i, j \in DOMAIN pairs : i # j /\ {p[1] : p \in Read(pairs[i])} \cap {p[1] : p \in Read(pairs[j])} # {}
     THEN {} ELSE {all}

-----------------------------------------------------------------------------
(* Hosts: sequences of labels.                                             *)

Lowered(host) == [i \in DOMAIN host |-> IF host[i] = "Home" THEN "home" ELSE host[i]]
IsHostname(host) == host # <<>> /\ \A i \in DOMAIN host : host[i] \notin NoLabel \cup {""}
IsObjId(host) == host # <<>> /\ Head(host) \in ObjIds

\* parseObjHost
ObjHost(host) ==
  IF Len(host) = 1 /\ Head(host) \in Services THEN {[kind |-> "service", name |-> host]}
  ELSE IF Len(host) < 2 \/ ~IsHostname(host) \/ Head(host) \in Services \/ IsObjId(host) THEN {}
  ELSE {[kind |-> "entity", name |-> host]}

-----------------------------------------------------------------------------
(* Parsing and formatting.                                                 *)

File(device, path) == [kind |-> "file", host |-> device, path |-> path, query |-> {}]
CyfsPath(zone, path) == [kind |-> "cyfs_path", host |-> zone, path |-> path, query |-> {}]
CyfsObject(host, path) == [kind |-> "cyfs_object", host |-> host, path |-> path, query |-> {}]
Obj(host, path, query) == [kind |-> "obj", host |-> host.name, path |-> path, query |-> query]
Root == <<<<>>>> \* the path "/"

\* A path that names nothing under its host.
Inner(path, trim) == IF path \in {<<>>, Root} THEN {<<>>} ELSE NormalizePath(path, trim)

ParseObjectUrl(text) ==
  LET host == Lowered(text.host)
  IN CASE text.scheme = "file" ->
            IF text.query # <<>> \/ text.path = <<>> \/ ~(host \in {<<>>, <<"localhost">>} \/ IsHostname(host)) THEN {}
            ELSE {File(IF host = <<"localhost">> THEN <<>> ELSE host, p) : p \in NormalizePath(text.path, FALSE)}
       [] text.scheme = "cyfs" ->
            IF text.query # <<>> THEN {}
            ELSE IF host \in {<<>>, <<"_">>} THEN
              IF text.path = <<>> THEN {} ELSE {CyfsPath(<<>>, p) : p \in NormalizePath(text.path, FALSE)}
            ELSE IF IsObjId(host) THEN
              IF Len(host) > 1 /\ ~IsHostname(Tail(host)) THEN {} ELSE {CyfsObject(host, p) : p \in Inner(text.path, FALSE)}
            ELSE IF ~IsHostname(host) \/ Len(host) = 1 \/ text.path = <<>> THEN {}
            ELSE {CyfsPath(host, p) : p \in NormalizePath(text.path, FALSE)}
       [] text.scheme = "obj" ->
            UNION {{Obj(h, p, q) : p \in Inner(text.path, TRUE), q \in ParseQuery(text.query)} : h \in ObjHost(host)}

\* formatObjectUrl: keys in an order of their own.
FormatObjectUrl(url) ==
  [scheme |-> IF url.kind \in {"cyfs_path", "cyfs_object"} THEN "cyfs" ELSE url.kind,
   host   |-> url.host,
   path   |-> IF url.kind = "cyfs_object" /\ url.path = <<>> THEN Root ELSE url.path,
   query  |-> SetToSeq({<<EncodeWith(p[1], InQuery), EncodeWith(p[2], InQuery)>> : p \in url.query})]

-----------------------------------------------------------------------------
(* What is derived from an address.  The Zone's own name stands for the    *)
(* DFS of the current Zone.                                                *)

IsService(url) == url.kind = "obj" /\ Len(url.host) = 1
InZone(url) == url.kind = "cyfs_path" /\ url.host \in {<<>>, Zone}

\* rbacResourceKey
ResourceKey(url) ==
  IF url.kind = "obj" THEN {<<url.host, url.path>>} ELSE IF InZone(url) THEN {<<<<"dfs">>, url.path>>} ELSE {}

\* (mutant) A segment of plain words is kept, whatever it begins with.
WordsAsTheyAre(s) == IF s # <<>> /\ ToSet(s) \subseteq Word THEN s ELSE <<"x">> \o FlattenSeq([i \in DOMAIN s |-> Hex(s[i])])

\* keventSegment
KEventSegment(s) ==
  IF s # <<>> /\ ToSet(s) \subseteq Word /\ Head(s) # "x" THEN s
  ELSE <<"x">> \o FlattenSeq([i \in DOMAIN s |-> Hex(s[i])])

\* objectEventKey, but for the event's name; a path that is too deep has none.
DecodedSegments(url) == [i \in DOMAIN url.path |-> CHOOSE s \in PercentDecode(url.path[i]) : TRUE]
EventKey(url) ==
  IF url.kind # "obj" \/ Len(url.path) > LevelsOf THEN {}
  ELSE {<<url.host, [i \in DOMAIN url.path |-> KEventSegment(DecodedSegments(url)[i])]>>}

\* objectDid: what follows the DID of the Zone or of the entity.
Coloned(segment) == [i \in DOMAIN segment |-> IF segment[i].c = ":" THEN Cell(":", TRUE) ELSE segment[i]]
ObjectDid(url) ==
  IF url.kind # "obj" THEN {}
  ELSE {<<IF IsService(url) THEN Zone ELSE url.host,
          (IF IsService(url) THEN <<<<Cell(Head(url.host), FALSE)>>>> ELSE <<>>) \o [i \in DOMAIN url.path |-> Coloned(url.path[i])]>>}

\* objectEndpoint, without the query: what the gateway of the current Zone, or of an object's own, is asked for.
WithoutSlash(path) == IF path # <<>> /\ Last(path) = <<>> THEN Front(path) ELSE path
ObjectEndpoint(url) ==
  CASE url.kind = "obj" -> {<<Zone, "kapi", url.host, url.path>>}
    [] url.kind = "cyfs_path" -> IF InZone(url) THEN {<<Zone, "kapi", <<"dfs">>, WithoutSlash(url.path)>>} ELSE {}
    [] url.kind = "cyfs_object" ->
         {<<IF Len(url.host) > 1 THEN Tail(url.host) ELSE Zone, "ndn", <<Head(url.host)>>, WithoutSlash(url.path)>>}
    [] OTHER -> {}

-----------------------------------------------------------------------------
Init == seen = {}

Take(text) == Cardinality(seen) < MaxInputs /\ seen' = seen \cup ParseObjectUrl(text)

Next == \E text \in Texts : Take(text)

Spec == Init /\ [][Next]_seen

-----------------------------------------------------------------------------
(***************************************************************************)
(* What an address is formatted to is read back as the same address, so    *)
(* normalising twice changes nothing and two spellings of one address have *)
(* one normal form.                                                        *)
(***************************************************************************)
AddressesAreCanonical == \A u \in seen : ParseObjectUrl(FormatObjectUrl(u)) = {u}

Object(u) == <<u.host, u.path>>
SameIff(key(_), u, v) == key(u) # {} /\ key(v) # {} => (key(u) = key(v) <=> Object(u) = Object(v))

(***************************************************************************)
(* Every key derived from addresses of objects names one object: two of    *)
(* them have the same resource key, event key, DID or endpoint exactly     *)
(* when host and path are the same, and an alias of a file of the Zone is  *)
(* asked for where the file is, under the file's resource key unless it    *)
(* ends in a slash.                                                        *)
(***************************************************************************)
KeysNameOneObject ==
  \A u, v \in seen :
    /\ u.kind = "obj" /\ v.kind = "obj" =>
         SameIff(ResourceKey, u, v) /\ SameIff(EventKey, u, v) /\ SameIff(ObjectDid, u, v) /\ SameIff(ObjectEndpoint, u, v)
    /\ InZone(u) /\ v.kind = "obj" /\ WithoutSlash(u.path) = u.path =>
         (ObjectEndpoint(u) = ObjectEndpoint(v) <=> ResourceKey(u) = ResourceKey(v))
=============================================================================
