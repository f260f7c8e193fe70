----------------------------- MODULE TarArchive -----------------------------
(***************************************************************************)
(* A payload's tar archive (src/cli/modules/pikg_archive.ts): made from a  *)
(* directory that others edit meanwhile, and listed from a stream whose    *)
(* chunks end anywhere.  A tar is a sequence of cells, Block of them a     *)
(* header or a unit of padding; gzip is left out.  A stamp is what stat    *)
(* says of a file besides its size and mode: every edit makes a new one.   *)
(***************************************************************************)
EXTENDS Naturals, Sequences, FiniteSets, SequencesExt

CONSTANTS
  Names,    \* of the entries of the directory, in the order of the archive
  Entries,  \* what an entry can be: [kind, content, executable]
  Foreign,  \* archives that others made
  Small,    \* names of the files that a listing captures
  Block,    \* cells of a block
  Limit,    \* of the cells of an archive that is read
  MaxEdits  \* bound: edits of the directory

VARIABLES
  tree,     \* the directory
  stage, before, after, tar, copied,  \* createDeterministicTarGz
  moment,   \* (history) the directory as it was when the first byte was written
  archive,  \* the cells that are read
  reader    \* listTarGzStream

vars == <<tree, stage, before, after, tar, copied, moment, archive, reader>>

-----------------------------------------------------------------------------
Cell(is, of) == [is |-> is, of |-> of]
Nothing == [path |-> "", kind |-> "", size |-> 0, executable |-> FALSE, mark |-> 0]
Data(mark) == Cell("data", [Nothing EXCEPT !.mark = mark])
Zeros(n) == [i \in 1..n |-> Cell("zero", Nothing)]
Header(h) == [i \in 1..Block |-> IF i = 1 THEN Cell("head", h) ELSE Cell("rest", Nothing)]
Rounded(size) == ((size + Block - 1) \div Block) * Block

\* parseTarHeader: a path that leaves the directory and a link are refused.
Parsed(block) ==
  IF block[1].is # "head" \/ block[1].of.kind \in {"unsafe", "link"} THEN "refused" ELSE block[1].of.kind
Blank(block) == \A c \in Range(block) : c.is = "zero"

File(h, body) == [path |-> h.path, size |-> h.size, executable |-> h.executable, content |-> body]
Marks(cells) == [i \in DOMAIN cells |-> cells[i].of.mark]

\* readTarGz.
Begun == [ok |-> TRUE, over |-> FALSE, offset |-> 0, files |-> {}]
Refuses == [Begun EXCEPT !.ok = FALSE, !.over = TRUE]
ReadEntry(t, r) ==
  LET block == SubSeq(t, r.offset + 1, r.offset + Block)
      h == block[1].of
      start == r.offset + Block IN
  CASE r.over \/ start > Len(t) \/ Blank(block) -> [r EXCEPT !.over = TRUE]
    [] Parsed(block) = "refused" \/ start + h.size > Len(t) -> Refuses
    [] h.kind = "file" /\ \E f \in r.files : f.path = h.path -> Refuses
    [] OTHER -> [r EXCEPT !.offset = start + Rounded(h.size),
                          !.files = IF h.kind # "file" THEN @
                                    ELSE @ \cup {File(h, Marks(SubSeq(t, start + 1, start + h.size)))}]
\* No more entries than cells.
ReadTarGz(t) ==
  LET r == IF Len(t) > Limit THEN Refuses
           ELSE FoldLeft(LAMBDA s, cell : ReadEntry(t, s), Begun, t) IN
  [ok |-> r.ok, files |-> r.files]

-----------------------------------------------------------------------------
NoReader == [said |-> "", at |-> 0, fill |-> <<>>, skip |-> 0, body |-> <<>>, wants |-> 0, path |-> "",
             files |-> {}, captured |-> {}, ended |-> FALSE]
Init ==
  /\ tree \in [Range(Names) -> {[e EXCEPT !.stamp = 0] : e \in Entries}]
  /\ stage = "before" /\ before = <<>> /\ after = <<>> /\ tar = <<>> /\ copied = 0
  /\ moment = {} /\ archive = <<>> /\ reader = NoReader

Making == <<before, after, tar, copied, moment>>
Edits == FoldSet(LAMBDA n, sum : sum + tree[n].stamp, 0, Range(Names))
Edit(n, e) ==
  /\ stage \in {"before", "next", "write", "after"} /\ Edits < MaxEdits
  /\ tree' = [tree EXCEPT ![n] = [e EXCEPT !.stamp = tree[n].stamp + 1]]
  /\ UNCHANGED <<stage, before, after, tar, copied, moment, archive, reader>>

FilesOf(t) == {File([path |-> n, size |-> Len(t[n].content), executable |-> t[n].executable], t[n].content) :
                 n \in {m \in Range(Names) : t[m].kind = "file"}}

\* collectTarSources, an entry a step: what it is, and the digest of a file.
Source(n) == [path |-> n, is |-> tree[n]]
Collect ==
  /\ stage \in {"before", "after"}
  /\ LET seen == IF stage = "before" THEN before ELSE after
         n == Names[Len(seen) + 1] IN
       /\ Len(seen) < Len(Names)
       /\ IF tree[n].kind \in {"special", "escapes"} THEN stage' = "refused" /\ UNCHANGED <<before, after>>
          ELSE /\ IF stage = "before" THEN before' = Append(before, Source(n)) /\ UNCHANGED after
                  ELSE after' = Append(after, Source(n)) /\ UNCHANGED before
               /\ UNCHANGED stage
  /\ UNCHANGED <<tree, tar, copied, moment, archive, reader>>

\* The entries to write, and the files among them that are written.
Sources == SelectSeq(before, LAMBDA s : s.is.kind # "none")
Headers(t) == Cardinality({i \in DOMAIN t : t[i].is = "head"})
HeaderOf(s) == [Nothing EXCEPT !.path = s.path, !.kind = s.is.kind,
                               !.size = Len(s.is.content), !.executable = s.is.executable]
OpenTar ==
  /\ stage = "before" /\ Len(before) = Len(Names)
  /\ stage' = "next" /\ moment' = FilesOf(tree)
  /\ UNCHANGED <<tree, before, after, tar, copied, archive, reader>>
\* A header, of what the entry was; one that has no place in a header ends it.
WriteHeader ==
  /\ stage = "next"
  /\ LET k == Headers(tar) + 1 IN
       IF k > Len(Sources) THEN stage' = "after" /\ tar' = tar \o Zeros(2 * Block)
       ELSE IF Sources[k].is.kind = "long" THEN stage' = "refused" /\ UNCHANGED tar
       ELSE /\ tar' = tar \o Header(HeaderOf(Sources[k]))
            /\ stage' = IF Sources[k].is.kind = "file" THEN "write" ELSE "next"
  /\ copied' = 0 /\ UNCHANGED <<tree, before, after, moment, archive, reader>>
\* copyFileToWriter: a piece at a time, of the file as it is by now, to its
\* end; then the padding of its size as it was.
Copy ==
  /\ stage = "write"
  /\ LET s == Sources[Headers(tar)]
         now == tree[s.path] IN
       IF now.kind # "file" THEN stage' = "refused" /\ UNCHANGED <<tar, copied>>
       ELSE IF copied < Len(now.content)
       THEN /\ tar' = Append(tar, Data(now.content[copied + 1])) /\ copied' = copied + 1
            /\ UNCHANGED stage
       ELSE /\ tar' = tar \o Zeros(Rounded(Len(s.is.content)) - Len(s.is.content)) /\ stage' = "next"
            /\ UNCHANGED copied
  /\ UNCHANGED <<tree, before, after, moment, archive, reader>>

\* Seeded: the entries are compared, and not what stat says of them.
SameEntries == [i \in DOMAIN before |-> before[i].path] = [i \in DOMAIN after |-> after[i].path]
SameSources == before = after
\* The archive is there only when the second look saw what the first did.
Finish ==
  /\ stage = "after" /\ Len(after) = Len(Names)
  /\ IF SameSources THEN stage' = "made" /\ archive' = tar ELSE stage' = "refused" /\ UNCHANGED archive
  /\ UNCHANGED <<tree, before, after, tar, copied, moment, reader>>

-----------------------------------------------------------------------------
(* An archive is read; it may also come from elsewhere, or be cut short.   *)

Download(t, n) ==
  /\ stage = "before" /\ before = <<>> /\ Edits = 0
  /\ stage' = "foreign" /\ archive' = SubSeq(t, 1, n)
  /\ UNCHANGED <<tree, Making, reader>>

FillOf(r, cells) == r.fill \o cells

\* One round of listTarGzStream's inner loop over what a chunk has left.
Refused(r) == [r EXCEPT !.said = "refused"]
Skips(r, cells) ==
  LET take == IF r.skip < Len(cells) THEN r.skip ELSE Len(cells)
      wanted == r.wants - Len(r.body)
      part == Marks(SubSeq(cells, 1, IF take < wanted THEN take ELSE wanted))
      body == r.body \o part IN
  IF r.wants = 0 THEN [r EXCEPT !.skip = @ - take]
  ELSE IF Len(body) < r.wants THEN [r EXCEPT !.skip = @ - take, !.body = body]
  ELSE [r EXCEPT !.skip = @ - take, !.body = <<>>, !.wants = 0, !.captured = @ \cup {[path |-> r.path, content |-> body]}]
Entry(r, block) ==
  LET h == block[1].of
      next == [r EXCEPT !.fill = <<>>, !.skip = Rounded(h.size)] IN
  CASE Blank(block) -> [r EXCEPT !.fill = <<>>, !.ended = TRUE]
    [] Parsed(block) = "refused" -> Refused(r)
    [] h.kind # "file" -> next
    [] \E f \in r.files : f.path = h.path -> Refused(r)
    [] OTHER ->
       LET listed == [next EXCEPT !.files = @ \cup {[path |-> h.path, size |-> h.size, executable |-> h.executable]}] IN
       IF h.path \notin Small THEN listed
       ELSE IF h.size = 0 THEN [listed EXCEPT !.captured = @ \cup {[path |-> h.path, content |-> <<>>]}]
       ELSE [listed EXCEPT !.wants = h.size, !.path = h.path]
Round(s) ==
  LET r == s.reader
      cells == s.left
      wanted == IF r.skip > 0 THEN r.skip ELSE Block - Len(r.fill)
      take == IF wanted < Len(cells) THEN wanted ELSE Len(cells)
      fill == FillOf(r, SubSeq(cells, 1, take)) IN
  IF cells = <<>> \/ r.ended \/ r.said # "" THEN s
  ELSE [reader |-> IF r.skip > 0 THEN Skips(r, cells)
                   ELSE IF Len(fill) < Block THEN [r EXCEPT !.fill = fill] ELSE Entry(r, fill),
        left |-> SubSeq(cells, take + 1, Len(cells))]
\* A round takes a cell or more.
Scan(r, cells) == FoldLeft(LAMBDA s, cell : Round(s), [reader |-> r, left |-> cells], cells).reader

\* A chunk arrives.
Chunk(n) ==
  /\ stage \in {"made", "foreign"} /\ reader.said = "" /\ reader.at + n <= Len(archive)
  /\ reader' = IF reader.at + n > Limit THEN Refused(reader)
               ELSE [Scan(reader, SubSeq(archive, reader.at + 1, reader.at + n)) EXCEPT !.at = reader.at + n]
  /\ UNCHANGED <<tree, stage, Making, archive>>
\* The stream ends.
Listed ==
  /\ stage \in {"made", "foreign"} /\ reader.said = "" /\ reader.at = Len(archive)
  /\ reader' = IF reader.skip > 0 \/ reader.fill # <<>> \/ reader.wants > 0 THEN Refused(reader)
               ELSE [reader EXCEPT !.said = "listed"]
  /\ UNCHANGED <<tree, stage, Making, archive>>

Next ==
  \/ \E n \in Range(Names), e \in Entries : Edit(n, e)
  \/ Collect \/ OpenTar \/ WriteHeader \/ Copy \/ Finish
  \/ \E t \in Foreign : \E n \in Len(t) - Block..Len(t) : Download(t, n)
  \/ \E n \in 1..Block + 1 : Chunk(n)
  \/ Listed

Spec == Init /\ [][Next]_vars

-----------------------------------------------------------------------------
(* The directory is edited while it is archived, and no lock is held: the  *)
(* archive that is made nevertheless holds the directory as it was at one  *)
(* moment, whole and with every file as it was, or there is no archive.    *)
ArchiveIsOneMoment ==
  stage = "made" /\ Len(archive) <= Limit => ReadTarGz(archive) = [ok |-> TRUE, files |-> moment]

(* The archive is listed without holding it, from chunks that end within a *)
(* header, a file or its padding: a listing has the files that reading the *)
(* whole has, with the contents of those it was asked to keep; and a whole *)
(* archive is listed.                                                      *)
ListingIsTheArchive ==
  /\ reader.said = "listed" =>
       LET whole == ReadTarGz(archive) IN
         /\ whole.ok
         /\ reader.files = {[path |-> f.path, size |-> f.size, executable |-> f.executable] : f \in whole.files}
         /\ reader.captured = {[path |-> f.path, content |-> f.content] : f \in {g \in whole.files : g.path \in Small}}
  /\ stage = "made" /\ Len(archive) <= Limit => reader.said # "refused"
=============================================================================
