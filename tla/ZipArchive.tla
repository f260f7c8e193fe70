----------------------------- MODULE ZipArchive -----------------------------
(***************************************************************************)
(* The ZIP container of a package (src/cli/modules/pikg_archive.ts): how   *)
(* it is written from files that others edit meanwhile, opened and read,   *)
(* damaged on the way or not.  A file is a sequence of cells: a header is  *)
(* one, and so is a unit of content; Wide stands for 0xffffffff, which a   *)
(* 32-bit field holds when the number is in the ZIP64 extra field.  A      *)
(* digest (CRC-32, SHA-256) is the content it is of.                       *)
(***************************************************************************)
EXTENDS Naturals, Sequences, FiniteSets, SequencesExt

CONSTANTS
  Names,      \* that the writer is given, in order: [path, directory]
  Contents,   \* of files
  Others,     \* archives that others made
  Cells,      \* what damage puts in the place of a cell
  Wide,       \* the largest number that a field holds
  MaxEntries,
  MaxEdits    \* bound: edits of the files while they are archived

VARIABLES
  files,      \* the contents on disk
  edits,
  digests,    \* writeStoredZip: what the sources were when they were digested
  stage, offset, central, file,
  opened,     \* the entries of an archive that was opened
  damaged,
  read        \* what was read and passed the checks

vars == <<files, edits, digests, stage, offset, central, file, opened, damaged, read>>

-----------------------------------------------------------------------------
Cell(is) == [is |-> is, name |-> [path |-> <<>>, directory |-> FALSE], digest |-> <<>>, mark |-> 0,
             size |-> 0, packed |-> 0, at |-> 0, count |-> 0, extra |-> <<>>,
             deflated |-> FALSE, encrypted |-> FALSE, link |-> FALSE]
Data(content) == [i \in DOMAIN content |-> [Cell("data") EXCEPT !.mark = content[i]]]
\* A count of entries that says: see the ZIP64 record.
Many == MaxEntries + 1

Init ==
  /\ files \in [Range(Names) -> Contents] /\ edits = 0 /\ digests = <<>>
  /\ stage = "digest" /\ offset = 0 /\ central = <<>> /\ file = <<>>
  /\ opened = <<>> /\ damaged = FALSE /\ read = {}

Edit(n, c) ==
  /\ stage \in {"digest", "entries"} /\ edits < MaxEdits /\ files[n] # c
  /\ files' = [files EXCEPT ![n] = c] /\ edits' = edits + 1
  /\ UNCHANGED <<digests, stage, offset, central, file, opened, damaged, read>>

\* Every source is digested before the first byte is written.
Digest ==
  /\ stage = "digest"
  /\ digests' = Append(digests, files[Names[Len(digests) + 1]])
  /\ stage' = IF Len(digests') = Len(Names) THEN "entries" ELSE "digest"
  /\ UNCHANGED <<files, edits, offset, central, file, opened, damaged, read>>

\* The local header and the central record of a source; the extra field has
\* what a field is too narrow for, all of it or none.
Narrow(size) == size <= Wide /\ offset <= Wide
LocalOf(n, digest) ==
  LET size == Len(digest) IN
  [Cell("local") EXCEPT !.name = n, !.digest = digest,
     !.size = IF Narrow(size) THEN size ELSE Wide, !.packed = IF Narrow(size) THEN size ELSE Wide,
     !.extra = IF Narrow(size) THEN <<>> ELSE <<size, size>>]
CentralOf(n, digest) ==
  LET size == Len(digest) IN
  [LocalOf(n, digest) EXCEPT !.is = "central",
     !.at = IF Narrow(size) THEN offset ELSE Wide,
     !.extra = IF Narrow(size) THEN <<>> ELSE <<size, size, offset>>]
\* An entry is copied from the file as it is by now; the next offset counts
\* what the digest said.
WriteEntry ==
  /\ stage = "entries"
  /\ LET k == Len(central) + 1
         n == Names[k] IN
       /\ file' = (file \o <<LocalOf(n, digests[k])>>) \o Data(files[n])
       /\ central' = Append(central, CentralOf(n, digests[k]))
       /\ offset' = offset + 1 + Len(digests[k])
       /\ stage' = IF k = Len(Names) THEN "directory" ELSE "entries"
  /\ UNCHANGED <<files, edits, digests, opened, damaged, read>>
\* The central directory, the ZIP64 records where one number needs them, the end.
NeedsZip64 == offset > Wide \/ Len(central) > Wide \/ \E c \in Range(central) : c.extra # <<>>
End(wide) == [Cell("end") EXCEPT !.count = IF wide THEN Many ELSE Len(central),
                                 !.size = IF wide THEN Wide ELSE Len(central), !.at = IF wide THEN Wide ELSE offset]
WriteDirectory ==
  /\ stage = "directory"
  /\ file' = (file \o central) \o
       (IF NeedsZip64
        THEN <<[Cell("end64") EXCEPT !.count = Len(central), !.size = Len(central), !.at = offset],
               [Cell("locator") EXCEPT !.at = offset + Len(central)]>>
        ELSE <<>>) \o <<End(NeedsZip64)>>
  /\ stage' = "written"
  /\ UNCHANGED <<files, edits, digests, offset, central, opened, damaged, read>>

-----------------------------------------------------------------------------
(* openZip.                                                                *)

\* readAt: past the end there is nothing.
At(f, position) == IF position + 1 \in DOMAIN f THEN f[position + 1] ELSE Cell("nothing")

ValidName(n) == n.path # <<>> /\ ".." \notin Range(n.path)

\* The value of the extra field that a field takes: those that need one, in order.
ValueOf(c) ==
  LET one(b) == IF b THEN 1 ELSE 0
      s == one(c.size = Wide)  p == s + one(c.packed = Wide) IN
  [size |-> IF c.size = Wide THEN s ELSE 0, packed |-> IF c.packed = Wide THEN p ELSE 0,
   at |-> IF c.at = Wide THEN p + 1 ELSE 0]
Values(c) == LET v == ValueOf(c) IN {v.size, v.packed, v.at} \ {0}
EntryOf(c) ==
  LET v == ValueOf(c) IN
  [name |-> c.name, digest |-> c.digest, deflated |-> c.deflated,
   size |-> IF v.size = 0 THEN c.size ELSE c.extra[v.size],
   packed |-> IF v.packed = 0 THEN c.packed ELSE c.extra[v.packed],
   local |-> IF v.at = 0 THEN c.at ELSE c.extra[v.at]]

\* Where the end record, or the one it points to, puts the central directory.
Directory(f) ==
  LET end == f[Len(f)]
      locator == At(f, Len(f) - 2)
      end64 == At(f, locator.at) IN
  IF end.count = Many \/ end.size = Wide \/ end.at = Wide
  THEN IF locator.is = "locator" /\ end64.is = "end64" THEN {end64} ELSE {}
  ELSE {end}
RecordsOf(f, d) == IF d.at + d.size > Len(f) THEN <<Cell("nothing")>> ELSE SubSeq(f, d.at + 1, d.at + d.size)
GoodRecord(c) ==
  /\ c.is = "central" /\ ValidName(c.name) /\ ~c.encrypted /\ ~c.link
  /\ \A k \in Values(c) : k \in DOMAIN c.extra

PrefixesOf(path) == {SubSeq(path, 1, k) : k \in 1..Len(path) - 1}
DirectoriesOf(es) == UNION {IF e.name.directory THEN {e.name.path} ELSE PrefixesOf(e.name.path) : e \in es}
GoodLocal(f, e, directoryAt) ==
  LET l == At(f, e.local) IN
    /\ l.is = "local" /\ l.name = e.name /\ l.deflated = e.deflated
    /\ e.local + 1 + e.packed <= directoryAt
\* Sorted by where they start, each after the end of the one before.
Apart(es) == \A k \in 1..Len(es) - 1 :
  LET sorted == SortSeq(es, LAMBDA a, b : a.local < b.local) IN
    sorted[k + 1].local >= sorted[k].local + 1 + sorted[k].packed

\* The entries, in the order of the central directory; <<>> is a refusal.
OpenZip(f) ==
  LET d == CHOOSE x \in Directory(f) : TRUE
      records == RecordsOf(f, d)
      entries == [k \in DOMAIN records |-> EntryOf(records[k])] IN
  IF /\ Len(f) > 0 /\ f[1].is = "local" /\ f[Len(f)].is = "end" /\ Directory(f) # {}
     /\ d.count <= MaxEntries /\ d.count = Len(records)
     /\ \A k \in DOMAIN records : GoodRecord(records[k])
     /\ Cardinality({c.name : c \in Range(records)}) = Len(records)
     /\ \A e \in Range(entries) : ~e.name.directory => e.name.path \notin DirectoriesOf(Range(entries))
     /\ \A e \in Range(entries) : GoodLocal(f, e, d.at)
     /\ Apart(entries)
  THEN entries ELSE <<>>

-----------------------------------------------------------------------------
(* An entry is read (readZipEntry) or verified (verifyZipEntry).           *)

\* A deflated cell is two.
Inflated(cells, deflated) ==
  LET marks == [i \in DOMAIN cells |-> cells[i].mark] IN
  IF deflated THEN [i \in 1..2 * Len(marks) |-> marks[(i + 1) \div 2]] ELSE marks
Verified(e, content) == Len(content) = e.size /\ content = e.digest
\* What an entry reads as in a file; a refusal, and an entry cut short, is none.
Reads(f, e) ==
  LET start == e.local + 1
      cells == SubSeq(f, start + 1, start + e.packed)
      content == Inflated(cells, e.deflated) IN
  IF start + e.packed <= Len(f) /\ (\A c \in Range(cells) : c.is = "data") /\ Verified(e, content) THEN {content} ELSE {}

Open ==
  /\ stage = "written" /\ opened = <<>> /\ OpenZip(file) # <<>>
  /\ opened' = OpenZip(file)
  /\ UNCHANGED <<files, edits, digests, stage, offset, central, file, damaged, read>>
\* The path is opened again for every entry.
Read(k) ==
  /\ k \in DOMAIN opened /\ Reads(file, opened[k]) # {}
  /\ read' = read \cup {[name |-> opened[k].name, content |-> c] : c \in Reads(file, opened[k])}
  /\ UNCHANGED <<files, edits, digests, stage, offset, central, file, opened, damaged>>

\* A cell becomes another, one number of it does, it is lost, or all from it on is.
Damage(i, c) ==
  /\ stage = "written" /\ ~damaged /\ damaged' = TRUE
  /\ file' \in {[file EXCEPT ![i] = c], [file EXCEPT ![i].size = c.size], [file EXCEPT ![i].at = c.at],
                [file EXCEPT ![i].packed = c.packed], [file EXCEPT ![i].name = c.name],
                RemoveAt(file, i), SubSeq(file, 1, i - 1)}
  /\ UNCHANGED <<files, edits, digests, stage, offset, central, opened, read>>
Download(f) ==
  /\ stage = "digest" /\ digests = <<>> /\ edits = 0
  /\ stage' = "written" /\ damaged' = TRUE /\ file' = f
  /\ UNCHANGED <<files, edits, digests, offset, central, opened, read>>

Next ==
  \/ \E n \in Range(Names), c \in Contents : Edit(n, c)
  \/ Digest \/ WriteEntry \/ WriteDirectory \/ Open
  \/ \E k \in 1..Len(opened) : Read(k)
  \/ \E i \in 1..Len(file), c \in Cells : Damage(i, c)
  \/ \E f \in Others : Download(f)

Spec == Init /\ [][Next]_vars

-----------------------------------------------------------------------------
\* A number that is exactly Wide is written as itself, and is read as a sign
\* that the number is elsewhere, where it is not.
AtTheEdge == Wide \in {offset, Len(central)} \cup {c.at : c \in {x \in Range(central) : x.extra = <<>>}}
                        \cup {c.size : c \in {x \in Range(central) : x.extra = <<>>}}

(* Sources are edited between their digest and their copy, and the archive *)
(* is damaged before it is opened or between two reads: what is read from  *)
(* it is the source as it was digested, or nothing is.  What is written    *)
(* undisturbed opens and reads back, beyond the width of a field too (but  *)
(* for a number that is exactly the widest).  And the entries of whatever  *)
(* opens lie apart, before the directory, one to a name, no file being a   *)
(* directory of another.                                                   *)
ReadsWhatWasWritten ==
  /\ \A r \in read : digests # <<>> => \E k \in DOMAIN digests : r = [name |-> Names[k], content |-> digests[k]]
  /\ stage = "written" /\ ~damaged /\ edits = 0 /\ ~AtTheEdge =>
       /\ [k \in DOMAIN OpenZip(file) |-> OpenZip(file)[k].name] = Names
       /\ \A k \in DOMAIN digests : Reads(file, OpenZip(file)[k]) = {digests[k]}
OpenedIsSound ==
  \A i, j \in DOMAIN opened : i # j =>
    LET a == opened[i]  b == opened[j] IN
      /\ a.local + 1 + a.packed <= b.local \/ b.local + 1 + b.packed <= a.local
      /\ a.name # b.name /\ (~a.name.directory => a.name.path \notin PrefixesOf(b.name.path))
=============================================================================
