-------------------------- MODULE ImportSelection --------------------------
(* What an import is before anything is uploaded (ndm_client.ts): the files   *)
(* a user picks, or a tree an application hands over, are checked, looked up   *)
(* in the store by a quick hash, or read and cut into chunks, by a worker or,  *)
(* when it fails, by the page itself, and put together to a session: items,    *)
(* the chunks to send, and the manifest of the objects to register. The        *)
(* application may abort at any time. ImportSession takes over from there.     *)
EXTENDS Integers, Sequences, FiniteSets, SequencesExt, FiniteSetsExt

CONSTANTS Selections,  \* what may be picked or handed over
          Answers,     \* what the store may answer to a lookup
          ChunkSize,   \* DEFAULT_CHUNK_SIZE, in bytes of the files
          MinQcid      \* MIN_QCID_FILE_SIZE: smaller files are not looked up

VARIABLES phase,    \* where importSelectedFiles stands
          sel,      \* the selection: mode, tree, picker, files, dirs, ...
          aborted,  \* options.signal
          done,     \* the files materialised so far: what is kept of each
          pieces,   \* the chunks of the current file hashed so far
          session   \* what sessionRegistry holds in the end
vars == <<phase, sel, aborted, done, pieces, session>>

NoSession == [items |-> <<>>, manifest |-> {}, states |-> <<>>, links |-> {}]
Init == /\ phase = "idle" /\ sel \in Selections /\ aborted = FALSE
        /\ done = <<>> /\ pieces = <<>> /\ session = NoSession

-----------------------------------------------------------------------------
(* Names and trees. A path is a sequence of names, its root first.            *)
ValidName(n) == n # "odd"
ValidPath(p) == \A i \in DOMAIN p : ValidName(p[i])
Above(p) == {SubSeq(p, 1, i) : i \in 1..(Len(p) - 1)}

\* buildDirTree: the directories that the files' paths go through; no path is
\* taken twice, as a file or as a file and a directory.
DirsOf(fs) == UNION {Above(fs[i].path) : i \in DOMAIN fs}
Conflicts(fs) == \E i, j \in DOMAIN fs : \/ i # j /\ fs[i].path = fs[j].path
                                         \/ fs[i].path \in Above(fs[j].path)

FolderRefused(fs) ==
    \/ \E i \in DOMAIN fs : Len(fs[i].path) < 2 \/ fs[i].path[1] # fs[1].path[1]
    \/ \E i \in DOMAIN fs : fs[i].name # Last(fs[i].path)
    \/ Conflicts(fs)

\* importDirectory's walk: no two children of a directory have one name.
TreeRefused(s) ==
    \/ \E d \in s.dirs : ~ValidPath(d)
    \/ \E i, j \in DOMAIN s.files : i # j /\ s.files[i].path = s.files[j].path
    \/ \E i \in DOMAIN s.files : s.files[i].path \in s.dirs

Refused(s) ==
    \/ s.files = <<>> /\ ~s.tree
    \/ s.mode = "single_file" /\ Len(s.files) # 1
    \/ \E i \in DOMAIN s.files : ~ValidPath(s.files[i].path)
    \/ s.tree /\ TreeRefused(s)
    \/ ~s.tree /\ s.mode = "single_dir" /\ FolderRefused(s.files)

-----------------------------------------------------------------------------
(* Objects. An id stands for what it is the hash of.                           *)
ChunkId(bytes) == <<"chunk", bytes>>
ListId(ids) == <<"chunklist", ids>>
FileId(name, size, content) == <<"file", name, size, content>>
DirId(name, children) == <<"dir", name, children>>

Piece(data, offset) ==
    LET end == Min({offset + ChunkSize, Len(data)})
    IN  [id |-> ChunkId(SubSeq(data, offset + 1, end)), offset |-> offset, length |-> end - offset]
ReadTo(ps) == IF ps = <<>> THEN 0 ELSE Last(ps).offset + Last(ps).length
AllRead(data, ps) == ps # <<>> /\ ReadTo(ps) = Len(data)
Ids(ps) == [i \in DOMAIN ps |-> ps[i].id]

\* extractLookupContentId and the conditions of lookupFileByQcid around it.
ContentOf(a) == IF a.same_as # "none" THEN a.same_as
                ELSE IF a.direct # "none" THEN a.direct ELSE a.object_id
Hit(a) == /\ a.reusable /\ a.state \in {"completed", "same_as", "local_link"}
          /\ a.fits /\ ContentOf(a) \in {"chunk", "chunklist"}

\* What is kept of a file: its object, its chunks and the objects to register.
FromHit(f, a) ==
    LET id == FileId(f.name, Len(f.data), <<"stored", ContentOf(a)>>)
    IN  [path |-> f.path, id |-> id, chunks |-> <<>>, objects |-> {id}, stored |-> TRUE]
FromPieces(f, ps) ==
    LET content == IF Len(ps) = 1 THEN ps[1].id ELSE ListId(Ids(ps))
        id == FileId(f.name, Len(f.data), content)
    IN  [path |-> f.path, id |-> id, chunks |-> ps, stored |-> FALSE,
         objects |-> IF Len(ps) = 1 THEN {id} ELSE {content, id}]

\* computeDirObjectIds: a directory's object names its children's.
DirObjects(dirs, placed) ==
    LET object[p \in dirs] == DirId(Last(p), {object[d] : d \in {q \in dirs : Front(q) = p}}
                                             \union {k.id : k \in {k \in placed : Front(k.path) = p}})
    IN  object

DirsIn(s) == IF s.tree THEN s.dirs ELSE IF s.mode = "single_dir" THEN DirsOf(s.files) ELSE {}
\* The tail of importSelectedFiles: items, states and manifest of the session.
Registered(s, kept) ==
    LET placed == ToSet(kept)
        dirs == DirsIn(s)
        objects == DirObjects(dirs, placed)
        LastOf(id) == Max({i \in DOMAIN kept : kept[i].id = id})
    IN  [items |-> IF dirs = {} THEN [i \in DOMAIN kept |-> kept[i].id]
                   ELSE <<objects[CHOOSE d \in dirs : Len(d) = 1]>>,
         manifest |-> (UNION {k.objects : k \in placed}) \union {objects[d] : d \in dirs},
         states |-> [id \in {k.id : k \in placed} |-> kept[LastOf(id)].chunks],
         links |-> {<<k.path, k.id[4]>> : k \in {k \in placed : k.id[3] >= MinQcid}}]

-----------------------------------------------------------------------------
File == sel.files[Len(done) + 1]
Fails == /\ phase' = "failed" /\ UNCHANGED <<sel, aborted, done, pieces, session>>
Goes(to) == phase' = to /\ UNCHANGED <<sel, aborted, done, pieces, session>>
Reading == IF sel.worker /\ Len(File.data) > 0 THEN "hashing" ELSE "reading"

Finish(kept) ==
    /\ phase' = "done" /\ session' = Registered(sel, kept) /\ done' = kept /\ pieces' = <<>>
    /\ UNCHANGED <<sel, aborted>>
NextFile(kept) ==
    IF Len(kept) = Len(sel.files) THEN Finish(kept)
    ELSE IF aborted THEN Fails
    ELSE phase' = "meta" /\ done' = kept /\ pieces' = <<>> /\ UNCHANGED <<sel, aborted, session>>

\* pickupAndImport asks the provider, importFiles and importDirectory do not.
Call == /\ phase = "idle"
        /\ IF aborted \/ (sel.picker /\ sel.mode = "mixed") THEN Fails
           ELSE IF sel.picker THEN Goes("picking")
           ELSE IF Refused(sel) THEN Fails
           ELSE IF sel.files = <<>> THEN Finish(<<>>) ELSE Goes("meta")
Picks == /\ phase = "picking" /\ IF Refused(sel) THEN Fails ELSE Goes("meta")
PickCancelled == phase = "picking" /\ Fails

MetaRead == /\ phase = "meta"
            /\ IF aborted THEN Fails ELSE IF sel.endpoint THEN Goes("qcid") ELSE Goes(Reading)
QcidRead == /\ phase = "qcid"
            /\ IF aborted THEN Fails
               ELSE IF Len(File.data) < MinQcid THEN Goes(Reading) ELSE Goes("lookup")
LookupAnswers == \E a \in Answers :
    /\ phase = "lookup"
    /\ IF Hit(a) THEN IF sel.thumbnails THEN /\ phase' = "thumbnail" /\ done' = Append(done, FromHit(File, a))
                                             /\ UNCHANGED <<sel, aborted, pieces, session>>
                      ELSE NextFile(Append(done, FromHit(File, a)))
       ELSE Goes(Reading)
\* An error, other than not found, is kept as a warning.
LookupFails == phase = "lookup" /\ Goes(Reading)

\* hash_worker.ts: one message for each chunk, then one for the end.
WorkerPosts == /\ phase = "hashing" /\ ReadTo(pieces) < Len(File.data)
               /\ pieces' = Append(pieces, Piece(File.data, ReadTo(pieces)))
               /\ UNCHANGED <<phase, sel, aborted, done, session>>
WorkerDone == phase = "hashing" /\ AllRead(File.data, pieces) /\ Goes("link")
\* A plausible slip: the chunks the worker posted before it failed are kept.
KeepsPosted == phase' = "reading" /\ UNCHANGED <<sel, aborted, done, pieces, session>>
\* An error of the worker, or five minutes: the page reads the file itself.
FallsBack == phase' = "reading" /\ pieces' = <<>> /\ UNCHANGED <<sel, aborted, done, session>>
WorkerFails == phase = "hashing" /\ FallsBack
\* materializeFile: chunk by chunk, asking for the signal around every read.
ReadsPiece == /\ phase = "reading"
              /\ IF aborted THEN Fails
                 ELSE LET ps == Append(pieces, Piece(File.data, ReadTo(pieces)))
                      IN  /\ pieces' = ps
                          /\ phase' = IF AllRead(File.data, ps) THEN "link" ELSE "reading"
                          /\ UNCHANGED <<sel, aborted, done, session>>
\* A file that changed or vanished since it was picked cannot be read.
ReadFails == phase \in {"meta", "qcid", "reading", "link"} /\ Fails

Linked == /\ phase = "link"
          /\ IF aborted THEN Fails
             ELSE IF sel.thumbnails
             THEN /\ phase' = "thumbnail" /\ done' = Append(done, FromPieces(File, pieces)) /\ pieces' = <<>>
                  /\ UNCHANGED <<sel, aborted, session>>
             ELSE NextFile(Append(done, FromPieces(File, pieces)))
\* generateThumbnail never rejects, and nobody asks for the signal after it.
Thumbnail == phase = "thumbnail" /\ NextFile(done)

\* The picker, the worker and the fetch listen to the signal, the rest asks.
Aborts == /\ ~aborted /\ phase \notin {"failed", "done"} /\ aborted' = TRUE
          /\ phase' = IF phase \in {"picking", "hashing", "lookup"} THEN "failed" ELSE phase
          /\ UNCHANGED <<sel, done, pieces, session>>

Next == \/ Call \/ Picks \/ PickCancelled \/ MetaRead \/ QcidRead \/ LookupAnswers \/ LookupFails
        \/ WorkerPosts \/ WorkerDone \/ WorkerFails \/ ReadsPiece \/ ReadFails
        \/ Linked \/ Thumbnail \/ Aborts
Spec == Init /\ [][Next]_vars

-----------------------------------------------------------------------------
\* The session accounts for every byte and every place of the selection: each
\* file's chunks, in order, are its bytes (or the store granted the content),
\* every object is in the manifest with the objects it names, the files lie
\* where the user had them, one thing at a place, and a quick hash is linked to its file's content.
BytesOf(chunks) == FlattenSeq([i \in DOMAIN chunks |-> chunks[i].id[2]])
Sent(f, k) == \/ /\ ~k.stored /\ BytesOf(k.chunks) = f.data
                 /\ k.id[4] = IF Len(f.data) <= ChunkSize THEN ChunkId(f.data) ELSE ListId(Ids(k.chunks))
              \/ k.stored /\ k.id[4][1] = "stored" /\ Len(f.data) >= MinQcid
Closed(m) == \A o \in m : CASE o[1] = "dir" -> o[3] \subseteq m
                            [] o[1] = "file" -> o[4][1] = "chunklist" => o[4] \in m
                            [] OTHER -> TRUE
\* What is found in an object at each depth, by the names on the way to it.
FoundIn(root, depth) ==
    LET found[n \in 1..depth] ==
          IF n = 1 THEN {<<<<root[2]>>, root>>}
          ELSE UNION {{<<Append(p[1], c[2]), c>> : c \in p[2][3]} : p \in {p \in found[n - 1] : p[2][1] = "dir"}}
    IN  found
Depth(s) == Max({1} \union {Len(s.files[i].path) : i \in DOMAIN s.files} \union {Len(d) : d \in DirsIn(s)})
PlacesAreKept ==
    LET depth == Depth(sel) + 1
        found == FoundIn(session.items[1], depth)
        places == UNION {found[n] : n \in 1..depth}
    IN  /\ {p \in places : p[2][1] = "file"} = {<<sel.files[i].path, done[i].id>> : i \in DOMAIN done}
        /\ \A p, q \in places : p[1] = q[1] => p = q
        /\ found[depth] = {}
SelectionIsWhole ==
    phase = "done" =>
        /\ Len(done) = Len(sel.files)
        /\ \A i \in DOMAIN done : /\ Sent(sel.files[i], done[i])
                                  /\ done[i].id \in session.manifest
                                  /\ done[i].id \in DOMAIN session.states
        /\ Closed(session.manifest) /\ ToSet(session.items) \subseteq session.manifest
        /\ sel.mode = "single_dir" => PlacesAreKept
        /\ \A l \in session.links : \E i \in DOMAIN done : l = <<done[i].path, done[i].id[4]>>
=============================================================================
