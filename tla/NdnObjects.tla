----------------------------- MODULE NdnObjects -----------------------------
(***************************************************************************)
(* Named objects (src/src/ndn_types.ts): an object's id is the hash of its *)
(* canonical JSON, so whoever decodes an object and encodes it again must  *)
(* get the JSON it was named by; a directory is named by the ids of its    *)
(* children, whichever way it holds them.                                  *)
(*                                                                         *)
(* The hash is injective.  JSON objects are functions: canonicalizeJson    *)
(* makes the order of keys meaningless.  A field has the class of its      *)
(* value: "default" is the empty value (or 0) of its type, "odd" a value   *)
(* of another type.                                                        *)
(***************************************************************************)
EXTENDS Naturals, FiniteSets, FiniteSetsExt

CONSTANTS
  Names,      \* names in a directory
  Files,      \* file objects, functions from fields to values
  Sizes,      \* sizes of files and directories
  OddBodies,  \* whether a relation's body may have an iat that is no number
  MaxCount    \* bound: files counted in the directory

Id(type, json) == [type |-> type, hash |-> json]

\* Two JSON objects in one; where both have a field, the first one's.
With(f, g) == [x \in DOMAIN f \cup DOMAIN g |-> IF x \in DOMAIN f THEN f[x] ELSE g[x]]

\* verifyNamedObject and its variants, for JSON and for the claims of a JWT.
Verifies(id, json) == Id(id.type, json) = id

-----------------------------------------------------------------------------
(* fromJSON followed by toJSON, field by field.                            *)

BaseRules ==
  With([f \in {"did", "copyright"} |-> "kept"],
  With([f \in {"name", "author", "owner", "tags", "categories", "directory", "references", "exp"} |-> "nonempty"],
  With([f \in {"create_time", "last_update_time"} |-> "always"],
       [f \in {"base_on"} |-> "id or none"])))

FileRules ==
  With(BaseRules, With([f \in {"size", "content"} |-> "nonempty"], [f \in {"meta"} |-> "free"]))

PathRules == [path |-> "always", target |-> "id", iat |-> "always", exp |-> "always",
              host |-> "typed"]

ProofRules ==
  With([content_id |-> "id", iat |-> "always", exp |-> "always", collection |-> "nonempty",
        review_url |-> "typed"],
       [f \in {"content_obj", "curator", "editor", "meta", "rank"} |-> "always"])

RelationRules == [source |-> "id", target |-> "id", relation |-> "always", iat |-> "typed",
                  exp |-> "typed", range |-> "free"]

\* normalizePackageMetaForObjId.
PackageRules ==
  With([f \in {"did", "copyright", "base_on", "version_tag"} |-> "kept"],
  With([f \in {"name", "author", "tags", "categories", "directory", "references", "exp",
                "size", "content", "deps"} |-> "not default"],
  With([f \in {"owner"} |-> "nonempty"],
       [f \in {"version", "extra"} |-> "free"])))

RulesOf(type) ==
  CASE type = "cyfile" -> FileRules
    [] type = "cypath" -> PathRules
    [] type = "cyinc" -> ProofRules
    [] type = "cyrel" -> RelationRules
    [] type = "pkg" -> PackageRules

\* fromJSON; missing and null are the same to an instance.
Decoded(rule, v) ==
  CASE rule \in {"kept", "nonempty", "id or none"} -> IF v = "null" THEN "absent" ELSE v
    [] rule = "typed" -> IF v \in {"null", "odd"} THEN "absent" ELSE v
    [] rule = "always" -> IF v \in {"null", "absent"} THEN "default" ELSE v
    [] rule \in {"id", "free", "not default"} -> v

\* toJSON.
Encoded(rule, v) ==
  IF rule \in {"nonempty", "not default"} /\ v = "default" THEN "absent" ELSE v

\* ObjId.fromString throws.
Readable(type, json) ==
  \A f \in DOMAIN json :
    /\ RulesOf(type)[f] = "id" => json[f] = "given"
    /\ RulesOf(type)[f] = "id or none" => json[f] \in {"absent", "null", "given"}

Reencoded(type, json) ==
  [f \in DOMAIN json |-> Encoded(RulesOf(type)[f], Decoded(RulesOf(type)[f], json[f]))]

Types == {"cyfile", "cypath", "cyinc", "cyrel", "pkg"}

FieldValues(rule) ==
  CASE rule = "id" -> {"given"}
    [] rule = "id or none" -> {"absent", "given"}
    [] rule = "always" -> {"default", "given"}
    [] OTHER -> {"absent", "default", "given"}

\* Instances with a field that is not given.
Instances(type) ==
  LET R == RulesOf(type)
  IN  UNION {{[[g \in DOMAIN R |-> "given"] EXCEPT ![f] = v] : v \in FieldValues(R[f])} : f \in DOMAIN R}

\* What an instance emits: a relation writes its body over its own fields
\* first, then its iat and exp if they are numbers.
Emitted(type) ==
  {[f \in DOMAIN x |-> Encoded(RulesOf(type)[f], x[f])] : x \in Instances(type)}
    \cup (IF type = "cyrel" /\ OddBodies
          THEN {[[f \in DOMAIN RelationRules |-> "given"] EXCEPT !.iat = "odd"]} ELSE {})

-----------------------------------------------------------------------------
(* Directories: SimpleMapItem, SimpleObjectMap, DirObject.                 *)

ByRef(id) == [kind |-> "objId", type |-> id.type, of |-> id.hash]
Inline(type, body) == [kind |-> "object", type |-> type, of |-> body]
Signed(type, body) == [kind |-> "objectJwt", type |-> type, of |-> body]

\* A JWT's object id is that of its claims.
ItemId(item) == Id(item.type, item.of)

VARIABLES
  dir,   \* a DirObject under construction
  sent   \* an object that was emitted, and what it is after being passed on

vars == <<dir, sent>>

\* toJSON, the storage form: children as they are held.
ItemJson(item) ==
  CASE item.kind = "objId" -> ItemId(item)
    [] item.kind = "object" -> [obj_type |-> item.type, body |-> item.of]
    [] item.kind = "objectJwt" -> [obj_type |-> item.type, jwt |-> item.of]

\* Seeded: children are named as they are held.
InlineBody(d) == [n \in DOMAIN d.entries |-> ItemJson(d.entries[n])]

BodyOf(d) == [n \in DOMAIN d.entries |-> ItemId(d.entries[n])]

\* genObjId leaves out meta.
DirJson(d) == [name |-> d.name, total_size |-> d.total, file_count |-> d.count,
               file_size |-> d.size, body |-> BodyOf(d)]
DirId(d) == Id("cydir", DirJson(d))

StorageJson(d) ==
  With([DirJson(d) EXCEPT !.body = [n \in DOMAIN d.entries |-> ItemJson(d.entries[n])]],
       IF d.meta THEN [meta |-> TRUE] ELSE <<>>)

\* fromJSON of either form.
ItemFromJson(v) ==
  IF "hash" \in DOMAIN v THEN ByRef(v)
  ELSE IF "jwt" \in DOMAIN v THEN Signed(v.obj_type, v.jwt) ELSE Inline(v.obj_type, v.body)

DirFromJson(json) ==
  [name |-> json.name, meta |-> "meta" \in DOMAIN json, total |-> json.total_size,
   count |-> json.file_count, size |-> json.file_size,
   entries |-> [n \in DOMAIN json.body |-> ItemFromJson(json.body[n])]]

\* KnownStandardObject.getChildObjs.
ChildIds(d) == {ItemId(d.entries[n]) : n \in DOMAIN d.entries}

IsFile(d, n) == n \in DOMAIN d.entries /\ d.entries[n].kind = "object" /\ d.entries[n].type = "cyfile"
IsDirectory(d, n) ==
  n \in DOMAIN d.entries /\ d.entries[n].kind # "object" /\ d.entries[n].type = "cydir"

Init ==
  /\ dir = [name |-> "given", meta |-> FALSE, total |-> 0, count |-> 0, size |-> 0,
            entries |-> <<>>]
  /\ \E t \in Types : \E x \in Emitted(t) : sent = [type |-> t, id |-> Id(t, x), json |-> x]

Put(d, n, item) == [d EXCEPT !.entries = With([m \in {n} |-> item], @)]

\* A name that is there already is replaced, and counted again.
AddFile(n, f, s) ==
  /\ dir.count < MaxCount
  /\ dir' = [Put(dir, n, Inline("cyfile", f)) EXCEPT !.size = @ + s, !.count = @ + 1, !.total = @ + s]
  /\ UNCHANGED sent

\* Throws for an id of another type.
AddDirectory(n, id, s) ==
  /\ id.type = "cydir" /\ dir.total + s <= MaxCount * Max(Sizes)
  /\ dir' = [Put(dir, n, ByRef(id)) EXCEPT !.total = @ + s]
  /\ UNCHANGED sent

Delete(n) ==
  /\ n \in DOMAIN dir.entries
  /\ dir' = [dir EXCEPT !.entries = [m \in DOMAIN @ \ {n} |-> @[m]]]
  /\ UNCHANGED sent

SetMeta == dir' = [dir EXCEPT !.meta = TRUE] /\ UNCHANGED sent

\* A child's file object comes signed instead: same claims.
SignChild(n) ==
  /\ IsFile(dir, n)
  /\ dir' = Put(dir, n, Signed("cyfile", dir.entries[n].of))
  /\ UNCHANGED sent

Store == dir' = DirFromJson(StorageJson(dir)) /\ UNCHANGED sent

\* The object string that was hashed is verified and loaded elsewhere.
Fetch ==
  /\ Verifies(DirId(dir), DirJson(dir))
  /\ dir' = DirFromJson(DirJson(dir))
  /\ UNCHANGED sent

\* An object is decoded and encoded again.
PassOn ==
  /\ Readable(sent.type, sent.json)
  /\ sent' = [sent EXCEPT !.json = Reencoded(sent.type, @)]
  /\ UNCHANGED dir

Next ==
  \/ \E n \in Names : \/ \E f \in Files, s \in Sizes : AddFile(n, f, s)
                      \/ \E t \in {"cydir", "cylist"}, s \in Sizes : AddDirectory(n, Id(t, "sub"), s)
                      \/ Delete(n) \/ SignChild(n)
  \/ SetMeta \/ Store \/ Fetch \/ PassOn

Spec == Init /\ [][Next]_vars

-----------------------------------------------------------------------------
\* What an object was named by verifies against its id whoever decoded and
\* encoded it in between.
PassedOnIsItself == Verifies(sent.id, sent.json)

\* A directory that is stored or fetched, or whose children come signed, is
\* still the directory of the same id, with the same children.
KeepsChildren ==
  (\E n \in Names : SignChild(n)) \/ Fetch \/ Store
    => DirId(dir') = DirId(dir) /\ ChildIds(dir') = ChildIds(dir)
SameChildrenSameId == [][KeepsChildren]_vars
=============================================================================
