----------------------------- MODULE PikgBuild -----------------------------
(***************************************************************************)
(* The local PIKG commands (src/cli/modules/pikg.ts): `init` makes         *)
(* dapp_meta, `build` makes the snapshot dapp_dist of it, `pack` the PIKG  *)
(* in that snapshot, `clean` removes it.  Commands overlap on one project, *)
(* the user edits sources and adds files, a command may be killed at any   *)
(* step and a call of the host may fail.  What a snapshot and a PIKG must  *)
(* be is PikgGraph's; here a snapshot is the document a build made and the *)
(* payloads it archived.                                                   *)
(***************************************************************************)
EXTENDS Naturals, FiniteSets

CONSTANTS
  Commands,   \* Processes -> the verb each runs
  Together,   \* which processes run on one project
  SourceKind, \* of the sub package: "directory" "tar.gz" "docker"
  MaxEdits    \* bound: edits of the sources by the user

VARIABLES
  meta,    \* dapp_meta: "absent" "empty" "ours" "files" (of the user)
  source,  \* what the sub package's source holds, and how often it changed
  dist,    \* dapp_dist: the directory that is there, if any
  backups, \* directories that a build moved aside
  pc,      \* Processes -> where the command is
  mine,    \* Processes -> what it remembers
  removed  \* a clean removed the snapshot that was there

vars == <<meta, source, dist, backups, pc, mine, removed>>

-----------------------------------------------------------------------------
Processes == DOMAIN Commands

\* A document and the payloads that lie beside it.
Snapshot(p, content) == [doc |-> p, of |-> content, content |-> content]
Whole(s) == s.of = s.content

\* A directory: the snapshot that its manifest lists, PIKGs by the name they
\* have ("final", or of a process), and whether the user put a file there.
Directory(s) == [snapshot |-> s, pikg |-> <<>>, foreign |-> FALSE]
Named(d) == DOMAIN d.pikg
Put(d, name, s) == [d EXCEPT !.pikg = [n \in Named(d) \cup {name} |-> IF n = name THEN s ELSE d.pikg[n]]]
Drop(d, name) == [d EXCEPT !.pikg = [n \in Named(d) \ {name} |-> d.pikg[n]]]
Temp(p) == <<"tmp", p>>
Previous(p) == <<"previous", p>>
Final == <<"final", "final">>

\* validateManagedDist: nothing but the manifest, what it lists and the PIKG.
Managed(d) == ~d.foreign /\ Named(d) \subseteq {Final}
Torn == [doc |-> "none", of |-> 0, content |-> 1]

Init ==
  /\ meta \in {"absent", "empty", "ours", "files"}
  /\ source = [content |-> 1, edits |-> 0]
  /\ dist = {} /\ backups = {} /\ removed = FALSE
  /\ \E team \in Together : pc = [p \in Processes |-> IF p \in team THEN "start" ELSE "done"]
  /\ mine = [p \in Processes |-> Snapshot("none", 0)]

At(p, verb, place) == Commands[p] = verb /\ pc[p] = place
Goes(p, place) == pc' = [pc EXCEPT ![p] = place]
Keeps(p, s) == mine' = [mine EXCEPT ![p] = s]
Same == UNCHANGED <<meta, source, dist, backups, removed>>

-----------------------------------------------------------------------------
(* init.                                                                   *)

\* Refused unless dapp_meta is not there, or empty.
InitStart(p) ==
  /\ At(p, "init", "start")
  /\ Goes(p, CASE meta = "absent" -> "init rename" [] meta = "empty" -> "init remove" [] OTHER -> "done")
  /\ UNCHANGED mine /\ Same
\* The empty directory goes first: the host removes no directory with files.
InitRemove(p) ==
  /\ At(p, "init", "init remove")
  /\ IF meta = "empty" THEN meta' = "absent" /\ Goes(p, "init rename") ELSE UNCHANGED meta /\ Goes(p, "done")
  /\ UNCHANGED <<source, dist, backups, mine, removed>>
InitRename(p) ==
  /\ At(p, "init", "init rename")
  /\ meta' = IF meta \in {"absent", "empty"} THEN "ours" ELSE meta
  /\ Goes(p, "done") /\ UNCHANGED <<source, dist, backups, mine, removed>>

-----------------------------------------------------------------------------
(* build.                                                                  *)

BuildStart(p) ==
  /\ At(p, "build", "start")
  /\ Goes(p, IF meta = "ours" /\ \A d \in dist : Managed(d) THEN "prepare" ELSE "done")
  /\ UNCHANGED mine /\ Same
\* The source is archived, or copied, beside dapp_dist ...
Prepare(p) ==
  /\ At(p, "build", "prepare")
  /\ Keeps(p, Snapshot(p, source.content)) /\ Goes(p, "prepared") /\ Same
\* ... and refused when it is not the same after that as before; an image is
\* exported by its identity, that no edit changes.
Prepared(p) ==
  /\ At(p, "build", "prepared")
  /\ Goes(p, IF SourceKind = "docker" \/ mine[p].content = source.content THEN "replace" ELSE "done")
  /\ UNCHANGED mine /\ Same

\* replaceDirectory.
Replace(p) ==
  /\ At(p, "build", "replace")
  /\ Goes(p, IF dist = {} THEN "move in" ELSE "move aside")
  /\ UNCHANGED mine /\ Same
MoveAside(p) ==
  /\ At(p, "build", "move aside")
  /\ IF dist = {} THEN Goes(p, "done") /\ UNCHANGED <<dist, backups>>
     ELSE /\ backups' = backups \cup {[by |-> p, was |-> d] : d \in dist}
          /\ dist' = {} /\ Goes(p, "move in")
  /\ UNCHANGED <<meta, source, mine, removed>>
MoveIn(p) ==
  /\ At(p, "build", "move in")
  /\ IF dist = {}
     THEN dist' = {Directory(mine[p])} /\ removed' = FALSE /\ Goes(p, "remove backup")
     ELSE UNCHANGED <<dist, removed>> /\ Goes(p, "move back")
  /\ UNCHANGED <<meta, source, backups, mine>>
MoveInFails(p) == At(p, "build", "move in") /\ Goes(p, "move back") /\ UNCHANGED mine /\ Same
MoveBack(p) ==
  /\ At(p, "build", "move back")
  /\ IF dist = {}
     THEN dist' = {b.was : b \in {c \in backups : c.by = p}} /\ backups' = {b \in backups : b.by # p}
     ELSE UNCHANGED <<dist, backups>>
  /\ Goes(p, "done") /\ UNCHANGED <<meta, source, mine, removed>>
RemoveBackup(p) ==
  /\ At(p, "build", "remove backup")
  /\ backups' = {b \in backups : b.by # p}
  /\ Goes(p, "done") /\ UNCHANGED <<meta, source, dist, mine, removed>>

-----------------------------------------------------------------------------
(* pack: everything by path, in the directory that is there by then.       *)

\* The manifest and every file it lists; then the documents and payloads again.
PackStart(p) ==
  /\ At(p, "pack", "start")
  /\ IF \E d \in dist : Managed(d)
     THEN \E d \in dist : Keeps(p, d.snapshot) /\ Goes(p, "validate")
     ELSE Goes(p, "done") /\ UNCHANGED mine
  /\ Same
Validate(p) ==
  /\ At(p, "pack", "validate")
  /\ Goes(p, IF \E d \in dist : d.snapshot.doc = mine[p].doc /\ Whole(d.snapshot) THEN "write" ELSE "done")
  /\ UNCHANGED mine /\ Same
\* packSnapshot: the documents held, the payloads that lie there.
OpenPikg(p) ==
  /\ At(p, "pack", "write")
  /\ IF \E d \in dist : d.snapshot.content = mine[p].of
     THEN dist' = {Put(d, Temp(p), Torn) : d \in dist} /\ Goes(p, "copy")
     ELSE UNCHANGED dist /\ Goes(p, "done")
  /\ UNCHANGED <<meta, source, backups, mine, removed>>
WritePikg(p) ==
  /\ At(p, "pack", "copy")
  /\ dist' = {Put(d, Temp(p), [mine[p] EXCEPT !.content = d.snapshot.content]) : d \in dist}
  /\ Goes(p, IF dist = {} THEN "done" ELSE "inspect")
  /\ UNCHANGED <<meta, source, backups, mine, removed>>
Holds(name) == \E d \in dist : name \in Named(d)
InspectPikg(p) ==
  /\ At(p, "pack", "inspect")
  /\ IF \E d \in dist : Temp(p) \in Named(d) /\ Whole(d.pikg[Temp(p)])
     THEN Goes(p, "replace file") /\ UNCHANGED dist
     ELSE dist' = {Drop(d, Temp(p)) : d \in dist} /\ Goes(p, "done")
  /\ UNCHANGED <<meta, source, backups, mine, removed>>

\* replaceFile.
ReplaceFile(p) ==
  /\ At(p, "pack", "replace file")
  /\ Goes(p, IF Holds(Final) THEN "file aside" ELSE "file in")
  /\ UNCHANGED mine /\ Same
FileAside(p) ==
  /\ At(p, "pack", "file aside")
  /\ IF Holds(Final)
     THEN dist' = {Drop(Put(d, Previous(p), d.pikg[Final]), Final) : d \in dist} /\ Goes(p, "file in")
     ELSE dist' = {Drop(d, Temp(p)) : d \in dist} /\ Goes(p, "done")
  /\ UNCHANGED <<meta, source, backups, mine, removed>>
FileIn(p) ==
  /\ At(p, "pack", "file in")
  /\ IF Holds(Temp(p))
     THEN dist' = {Drop(Put(d, Final, d.pikg[Temp(p)]), Temp(p)) : d \in dist} /\ Goes(p, "drop previous")
     ELSE UNCHANGED dist /\ Goes(p, "file back")
  /\ UNCHANGED <<meta, source, backups, mine, removed>>
FileInFails(p) == At(p, "pack", "file in") /\ Goes(p, "file back") /\ UNCHANGED mine /\ Same
FileBack(p) ==
  /\ At(p, "pack", "file back")
  /\ dist' = {Drop(IF Previous(p) \in Named(d) THEN Drop(Put(d, Final, d.pikg[Previous(p)]), Previous(p)) ELSE d,
                   Temp(p)) : d \in dist}
  /\ Goes(p, "done") /\ UNCHANGED <<meta, source, backups, mine, removed>>
DropPrevious(p) ==
  /\ At(p, "pack", "drop previous")
  /\ dist' = {Drop(d, Previous(p)) : d \in dist}
  /\ Goes(p, "done") /\ UNCHANGED <<meta, source, backups, mine, removed>>

-----------------------------------------------------------------------------
(* clean.                                                                  *)

CleanStart(p) ==
  /\ At(p, "clean", "start")
  /\ Goes(p, IF meta = "ours" /\ \E d \in dist : Managed(d) THEN "confirm" ELSE "done")
  /\ UNCHANGED mine /\ Same
CleanConfirmed(p) ==
  /\ At(p, "clean", "confirm")
  /\ dist' = {} /\ removed' = (removed \/ dist # {})
  /\ Goes(p, "done") /\ UNCHANGED <<meta, source, backups, mine>>
CleanDeclined(p) == At(p, "clean", "confirm") /\ Goes(p, "done") /\ UNCHANGED mine /\ Same

-----------------------------------------------------------------------------
\* A command is killed, or a call of the host fails where nothing is undone.
Dies(p) == pc[p] # "done" /\ Goes(p, "done") /\ UNCHANGED mine /\ Same

UserEdits ==
  /\ source.edits < MaxEdits
  /\ source' = [content |-> source.content + 1, edits |-> source.edits + 1]
  /\ UNCHANGED <<meta, dist, backups, pc, mine, removed>>
UserAddsFile ==
  /\ source.edits < MaxEdits
  /\ source' = [source EXCEPT !.edits = @ + 1]
  /\ \/ dist # {} /\ dist' = {[d EXCEPT !.foreign = TRUE] : d \in dist} /\ UNCHANGED meta
     \/ meta \in {"absent", "empty"} /\ meta' = "files" /\ UNCHANGED dist
  /\ UNCHANGED <<backups, pc, mine, removed>>

Next ==
  \/ \E p \in Processes :
       \/ InitStart(p) \/ InitRemove(p) \/ InitRename(p)
       \/ BuildStart(p) \/ Prepare(p) \/ Prepared(p) \/ Replace(p) \/ MoveAside(p) \/ MoveIn(p) \/ MoveInFails(p)
       \/ MoveBack(p) \/ RemoveBackup(p)
       \/ PackStart(p) \/ Validate(p) \/ OpenPikg(p) \/ WritePikg(p) \/ InspectPikg(p)
       \/ ReplaceFile(p) \/ FileAside(p) \/ FileIn(p) \/ FileInFails(p) \/ FileBack(p) \/ DropPrevious(p)
       \/ CleanStart(p) \/ CleanConfirmed(p) \/ CleanDeclined(p) \/ Dies(p)
  \/ UserEdits \/ UserAddsFile

Spec == Init /\ [][Next]_vars

-----------------------------------------------------------------------------
(* Whoever overlaps and whatever dies, a PIKG under its final name is the  *)
(* whole of one build: its payloads are those its document names, also     *)
(* when a build replaced the snapshot while it was packed (packCommand).   *)
PackedIsWhole == \A d \in dist : Final \in Named(d) => Whole(d.pikg[Final])

(* A snapshot that was built is never lost but to `clean`: when dapp_dist  *)
(* is not there, the one it held lies beside it (replaceDirectory); and    *)
(* no command takes dapp_meta from the user.                               *)
KeepsSnapshot ==
  /\ dist # {} /\ dist' = {} => removed' \/ backups' # {}
  /\ meta = "files" => meta' = "files"
NothingIsLost == [][KeepsSnapshot]_vars
=============================================================================
