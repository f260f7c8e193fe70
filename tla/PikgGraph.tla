----------------------------- MODULE PikgGraph -----------------------------
(***************************************************************************)
(* What a PIKG says of itself and how it is verified: the object graph of  *)
(* src/cli/modules/pikg_protocol.ts, as buildCommand (pikg.ts) makes it    *)
(* and packSnapshot and inspectPikg check it.  An archive starts as one    *)
(* build packed it; then parts of it are replaced by those of other builds *)
(* or lost.  A hash is modelled by what it is of.  Which of several faults *)
(* is named is left out.                                                   *)
(***************************************************************************)
EXTENDS Naturals, FiniteSets, TLC

CONSTANTS
  Builds,   \* inputs of builds: [app_type, version, owner, time, odd, payloads: keys -> Payload]
  MaxEdits, \* bound: parts replaced or lost
  MaxInspections \* bound

VARIABLES
  archive,   \* the PIKG
  edits,
  accepted   \* what inspectPikg returned so far

vars == <<archive, edits, accepted>>

-----------------------------------------------------------------------------
(* Payloads: the tree of a sub package.                                    *)

\* Its content; the manifest in it, if any; commands with a launcher in bin/; faults of the
\* layout ("stray" file, launcher "not executable", smoke script "missing", a
\* path of the machine that built it, a control whose digest is not its own).
Tree(kind, content, manifests, launchers, faults) ==
  [kind |-> kind, content |-> content, manifests |-> manifests, launchers |-> launchers, faults |-> faults]

Digest(payload) == <<"sha256", payload>>
ChunkOf(payload) == <<"mix256", payload>>

Platforms == [ext_tools_linux_x86_64 |-> "linux-x86_64", ext_tools_darwin_arm64 |-> "darwin-arm64"]

\* A platform that a sub package of that name is for, if its name says so.
DerivedSelector(key) ==
  CASE key = "ext_tools_linux_x86_64" -> [os |-> "linux", arch |-> "x86_64"]
    [] key = "ext_tools_darwin_arm64" -> [os |-> "macos", arch |-> "aarch64"]
    [] OTHER -> <<>>
SelectorCompatible(key, selector) ==
  selector = {} \/ DerivedSelector(key) = <<>> \/ selector = {DerivedSelector(key)}

-----------------------------------------------------------------------------
(* Documents.                                                              *)

Namespace(doc) == doc.did
PackageName(key, did) == <<IF DerivedSelector(key) = <<>> THEN "all" ELSE key, key, did>>
InNamespace(name, doc) == name[3] = Namespace(doc)

PackageMeta(key, b) ==
  [name |-> PackageName(key, b.did), version |-> b.version, owner |-> b.owner, time |-> b.time,
   content |-> ChunkOf(b.payloads[key]), deps |-> {}]
ObjectId(meta) == <<"pkg", meta>>

\* Sections of an App document beside its packages, each with rules of its own;
\* "odd" are those that break them.
Permissions == "permissions"
Buckets == "buckets"
ServiceConfigTips == "service_config_tips"
ContentHandlers == "content_handlers"
Presentation == "presentation"
Fields == "fields"
Sections == {Permissions, Buckets, ServiceConfigTips, ContentHandlers, Presentation, Fields}

AppDoc(b) ==
  [did |-> b.did, version |-> b.version, owner |-> b.owner, app_type |-> b.app_type, time |-> b.time, odd |-> b.odd,
   pkg_list |-> [k \in DOMAIN b.payloads |->
     [pkg_id |-> <<PackageName(k, b.did), b.version>>, pkg_objid |-> ObjectId(PackageMeta(k, b)),
      selector |-> {}, source_url |-> FALSE]]]
AppDocObjectId(doc) == <<"appdoc", doc>>

\* The document's own rules.  content_handlers is looked at only when it is
\* written (app.json): a document may hold any array.
AppDocShape(doc) ==
  /\ doc.odd \cap (Sections \ {ContentHandlers}) = {}
  /\ DOMAIN doc.pkg_list # {}
  /\ doc.app_type \in {"agent_skills", "aiws"} => DOMAIN doc.pkg_list = {doc.app_type}
  /\ \A k \in DOMAIN doc.pkg_list : k \in DOMAIN Platforms <=> doc.app_type = "ext_tools"
AppMetaValid(b) == b.odd \cap Sections = {}

\* content_index maps a digest to the sub package, the entry and the digest again.
ContentEntry(key, payload) == [sub |-> key, path |-> key, digest |-> Digest(payload)]
ContentIndex(b) ==
  [d \in {Digest(b.payloads[k]) : k \in DOMAIN b.payloads} |->
    LET key == CHOOSE k \in DOMAIN b.payloads : Digest(b.payloads[k]) = d IN ContentEntry(key, b.payloads[key])]

\* Two sub packages with one content cannot be built (DUPLICATE_PAYLOAD_DIGEST).
Buildable(b) == AppMetaValid(b) /\ \A k, l \in DOMAIN b.payloads : b.payloads[k] = b.payloads[l] => k = l

MetaFile(b) ==
  [app_doc_id |-> AppDocObjectId(AppDoc(b)),
   package_objects |-> [id \in {ObjectId(PackageMeta(k, b)) : k \in DOMAIN b.payloads} |-> id[2]],
   content_index |-> ContentIndex(b)]

-----------------------------------------------------------------------------
(* Verification.                                                           *)

\* One entry of content_index: filed under its own digest, named after its sub
\* package, and the payload that is there has that digest.
EntryValid(meta, payloads, d) ==
  LET e == meta.content_index[d] IN
  /\ e.path = e.sub /\ e.digest = d
  /\ e.path \in DOMAIN payloads /\ Digest(payloads[e.path]) = d
EntriesOf(meta, key) == {d \in DOMAIN meta.content_index : meta.content_index[d].sub = key}

\* The chunk id of the package object is that of the payload.
ChunkContent(object, entry) == object.content[2] = entry.digest[2]
ValidateChunkContent(object, entry) == ChunkContent(object, entry)

SubpackageValid(doc, meta, key) ==
  LET desc == doc.pkg_list[key] IN
  /\ ~desc.source_url
  /\ desc.pkg_id[2] = doc.version /\ InNamespace(desc.pkg_id[1], doc)
  /\ desc.pkg_objid \in DOMAIN meta.package_objects
  /\ LET object == meta.package_objects[desc.pkg_objid] IN
     /\ ObjectId(object) = desc.pkg_objid
     /\ object.name = desc.pkg_id[1] /\ object.version = desc.pkg_id[2]
     /\ object.owner = doc.owner /\ object.deps = {}
     /\ \E d \in EntriesOf(meta, key) : ValidateChunkContent(object, meta.content_index[d])
  /\ SelectorCompatible(key, desc.selector)

ObjectGraph(doc, meta, payloads) ==
  /\ AppDocShape(doc)
  /\ meta.app_doc_id = AppDocObjectId(doc)
  /\ \A d \in DOMAIN meta.content_index : EntryValid(meta, payloads, d)
  /\ \A d, e \in DOMAIN meta.content_index : meta.content_index[d].sub = meta.content_index[e].sub => d = e
  /\ \A k \in DOMAIN doc.pkg_list : SubpackageValid(doc, meta, k)
  /\ DOMAIN meta.package_objects = {doc.pkg_list[k].pkg_objid : k \in DOMAIN doc.pkg_list}
  /\ {meta.content_index[d].sub : d \in DOMAIN meta.content_index} = DOMAIN doc.pkg_list
  /\ Cardinality({doc.pkg_list[k].pkg_id : k \in DOMAIN doc.pkg_list}) = Cardinality(DOMAIN doc.pkg_list)

\* A bundle of AI Workspace controls is checked as the library does.
AiwsPayload(payload) == payload.kind = "aiws" /\ payload.manifests # {} /\ payload.faults = {}

\* One payload of extension tools, with the manifest that lies in it.
ExtToolsManifest(manifest) == manifest.provides # {} /\ manifest.platforms # {}
ExtToolsOf(doc, manifest, platform) ==
  /\ manifest.id = doc.did /\ manifest.version = doc.version
  /\ platform \in manifest.platforms
  /\ manifest.platforms \subseteq {Platforms[k] : k \in DOMAIN doc.pkg_list}
ExtToolsPayload(payload, manifest) == payload.launchers = manifest.provides /\ payload.faults = {}
VerifyExtToolsPayload(doc, key, payload) ==
  /\ payload.kind = "tools"
  /\ \E manifest \in payload.manifests :
       ExtToolsManifest(manifest) /\ ExtToolsOf(doc, manifest, Platforms[key]) /\ ExtToolsPayload(payload, manifest)

ContentValid(doc, payloads) ==
  /\ doc.app_type = "aiws" => \A k \in DOMAIN doc.pkg_list : AiwsPayload(payloads[k])
  /\ doc.app_type = "ext_tools" => \A k \in DOMAIN doc.pkg_list : VerifyExtToolsPayload(doc, k, payloads[k])

\* validateSnapshot, before packing.
Snapshot(b) == [json |-> {AppDoc(b)}, jwt |-> {}, wt |-> FALSE, meta |-> {MetaFile(b)}, entries |-> b.payloads, objects |-> {}]
ValidSnapshot(b) ==
  /\ ObjectGraph(AppDoc(b), MetaFile(b), b.payloads)
  /\ ContentValid(AppDoc(b), b.payloads)

\* inspectPikg: either document, both if they are the same; the one that is
\* signed is the one that counts.  Objects filed under objects/ are only
\* compared with their names.
AppDocOf(a) == CHOOSE doc \in IF a.jwt # {} THEN a.jwt ELSE a.json : TRUE
Inspects(a) ==
  /\ ~a.wt /\ a.json \cup a.jwt # {}
  /\ \A d \in a.json, e \in a.jwt : AppDocObjectId(d) = AppDocObjectId(e)
  /\ \A o \in a.objects : o.name = ObjectId(o.value)
  /\ \E meta \in a.meta : ObjectGraph(AppDocOf(a), meta, a.entries)
  /\ ContentValid(AppDocOf(a), a.entries)
Inspection(a) ==
  LET doc == AppDocOf(a)   first == CHOOSE k \in DOMAIN doc.pkg_list : TRUE IN
  [app_doc_object_id |-> AppDocObjectId(doc),
   payloads |-> [k \in DOMAIN doc.pkg_list |-> a.entries[k]],
   tools |-> IF doc.app_type = "ext_tools" THEN UNION {m.provides : m \in a.entries[first].manifests} ELSE {}]

-----------------------------------------------------------------------------
Nothing == [json |-> {}, jwt |-> {}, wt |-> FALSE, meta |-> {}, entries |-> <<>>, objects |-> {}]

Init == archive = Nothing /\ edits = 0 /\ accepted = {}

\* `pikg build` and `pikg pack`.
PackSnapshot(b) ==
  /\ Buildable(b) /\ ValidSnapshot(b)
  /\ archive' = Snapshot(b)
  /\ edits' = 0 /\ UNCHANGED accepted

\* A part comes from another build, or is lost.
Edit(a) == archive.meta # {} /\ edits < MaxEdits /\ archive' = a /\ edits' = edits + 1 /\ UNCHANGED accepted
TakeDocument(b) == Edit([archive EXCEPT !.json = {AppDoc(b)}]) \/ Edit([archive EXCEPT !.jwt = {AppDoc(b)}])
DropDocument == Edit([archive EXCEPT !.json = {}]) \/ Edit([archive EXCEPT !.wt = TRUE])
TakeMetadata(b) ==
  \/ Edit([archive EXCEPT !.meta = {[m EXCEPT !.content_index = ContentIndex(b)] : m \in @}])
  \/ Edit([archive EXCEPT !.meta = {[m EXCEPT !.package_objects = MetaFile(b).package_objects @@ @] : m \in @}])
  \/ Edit([archive EXCEPT !.meta = {MetaFile(b)}])
TakePayload(b) == \E k \in DOMAIN b.payloads : Edit([archive EXCEPT !.entries = (k :> b.payloads[k]) @@ @])
TakeObject(b, c) ==
  \E k \in DOMAIN b.payloads, l \in DOMAIN c.payloads :
    Edit([archive EXCEPT !.objects = @ \cup {[name |-> ObjectId(PackageMeta(k, b)), value |-> PackageMeta(l, c)]}])

\* `pikg info`, and every reader of the file.
Inspect ==
  /\ archive.meta # {}
  /\ Inspects(archive) /\ Cardinality(accepted) < MaxInspections
  /\ accepted' = accepted \cup {Inspection(archive)} /\ UNCHANGED <<archive, edits>>

Next ==
  \/ \E b \in Builds : PackSnapshot(b) \/ TakeDocument(b) \/ TakeMetadata(b) \/ TakePayload(b)
  \/ \E b, c \in Builds : TakeObject(b, c)
  \/ DropDocument \/ Inspect

Spec == Init /\ [][Next]_vars

-----------------------------------------------------------------------------
(* The App document decides everything: however archives were put          *)
(* together, two that are accepted with one document have the same         *)
(* payloads, and what was just packed is accepted (validateObjectGraph).   *)
DocumentDecides ==
  /\ \A i, j \in accepted : i.app_doc_object_id = j.app_doc_object_id => i.payloads = j.payloads
  /\ archive.meta # {} /\ edits = 0 => Inspects(archive)
=============================================================================
