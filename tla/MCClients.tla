------------------------------ MODULE MCClients ------------------------------
(***************************************************************************)
(* One run for the clients and the tools whose properties are safety: the  *)
(* components of Clients, with values for their constants, and those that  *)
(* read, name, write and pack texts and contents that are given here.      *)
(***************************************************************************)
EXTENDS Clients, TLC

CONSTANT Parts \* the components that the run looks at

-----------------------------------------------------------------------------
(* Values of the constants of Clients.                                     *)

\* An answer that is given to a question.
TextAnswer == {[dismiss |-> FALSE, option |-> "none", text |-> TRUE]}

\* A client or a service that was told its pair at its start or gets it.
NodeStart ==
  {[target |-> "node", type |-> "", service |-> FALSE, pair |-> FALSE, host |-> TRUE, material |-> TRUE]}

\* A developer may have the DID of an operator, too.
FirstIdentity == <<"o1">>
DeveloperIdentities == <<"d1", "d2", "o1">>
SessionsGiven ==
  {[token |-> 0, identity |-> "none", terminal |-> FALSE, files |-> TRUE],
   [token |-> 0, identity |-> "none", terminal |-> TRUE, files |-> FALSE],
   [token |-> 0, identity |-> "d1", terminal |-> FALSE, files |-> TRUE],
   [token |-> 2, identity |-> "none", terminal |-> FALSE, files |-> FALSE]}

\* A file that is not there, holds a version to come, is as the tool writes
\* it or was edited by hand.
Holding(values) == [kind |-> "object", version |-> 1, settings |-> values]
NoFile == [kind |-> "absent"]
FilesFound ==
  [config : {NoFile, [Holding(<<>>) EXCEPT !.version = 2]},
   profile : {NoFile, Holding([zone |-> "good"]), Holding([endpoint |-> "odd"])}]
Nothing == [profile |-> "none", zone |-> "none", endpoint |-> "none", output |-> "none"]
Invoked(explicit, environment, interactive) ==
  [explicit |-> explicit, environment |-> environment, interactive |-> interactive]
ToolRuns ==
  {Invoked(Nothing, Nothing, TRUE), Invoked(Nothing, [Nothing EXCEPT !.endpoint = "odd"], FALSE),
   Invoked(Nothing, [Nothing EXCEPT !.output = "odd"], FALSE), Invoked([Nothing EXCEPT !.profile = "good"], Nothing, FALSE)}
Sets(file, key, value) == [file |-> file, key |-> key, value |-> value]
ConfigSets ==
  {Sets("config", "output", "good"), Sets("config", "default_profile", "odd"),
   Sets("config", "default_profile", "good"), Sets("profile", "endpoint", "odd"),
   Sets("profile", "identity", "odd"), Sets("profile", "hue", "good")}

Named(source, pikg, from, disk) == [source |-> source, pikg |-> pikg, from |-> from, disk |-> disk]
SourcesNamed ==
  {Named("name", "", "", "none"), Named("path", "", "", "file"), Named("path", "", "", "other"),
   Named("did:key", "", "catalog", "none"), Named("", "", "", "none"),
   Named("name", "path", "", "none"), Named("path", "", "", "none")}

PikgCommands == [b1 |-> "build", b2 |-> "build", k1 |-> "pack", k2 |-> "pack", c |-> "clean", i |-> "init"]
PikgTeams == {{"b1", "b2", "k1"}, {"b1", "k1", "k2"}, {"b1", "b2", "c"}, {"i", "b1"}}

\* Every field alone, and those that are read together.
MessageFields ==
  {"from", "to", "kind", "content", "rel", "target", "to_session", "relates_to", "mentions", "workspace",
   "expires_at_ms", "nonce", "title", "format", "machine", "topic", "key", "thread", "created_at_ms",
   "dids", "all", "body", "refs", "data", "meta", "proof"}
FieldsTogether ==
  {{f} : f \in MessageFields}
    \cup {{"thread", "topic"}, {"mentions", "dids", "all"}, {"rel", "key", "target"}, {"to", "to_session"},
          {"format", "body"}, {"machine", "data"}, {"created_at_ms", "nonce"}}

FolderNames == <<"a", "b">>
FolderSizes == [mine |-> 1, large |-> 2, theirs |-> 1, listed |-> 0] @@ ("" :> 0)

-----------------------------------------------------------------------------
(* The SN: where it is mounted, what it serves, regions others name.       *)

SnBases ==
  [scheme : {"https"}, host : {"sn"},
   path : {<<>>, <<"x">>, <<"kapi", "sn">>, <<"kapi", "sn", "bns">>, <<"x", "kapi", "sn", "auth">>,
           <<"kapi", "sn", "region-probe-config.json">>}]
  \cup {[scheme |-> "http", host |-> "sn", path |-> <<>>]}

SnNamed(x) == [kind |-> "name", name |-> x]
SnAddress(a, b, c) == [kind |-> "ipv4", ip |-> <<a, b, c, 1>>]
SnUrl(id, host) == [id |-> id, scheme |-> "https", user |-> FALSE, port |-> 443, host |-> host]
SnRegion(id, urls) == [id |-> id, urls |-> urls]
SnDocument ==
  [size |-> 2, wrong |-> {}, schema |-> 1, id |-> "v1", from |-> 0, until |-> 1,
   policy |-> [method |-> "tcp_connect", family |-> "ipv4", samples |-> 3, connect |-> 1, round |-> 30000,
               concurrency |-> 1, minimum |-> 2, ratio |-> 100, ttl |-> 1],
   regions |-> <<SnRegion("eu", <<SnUrl("1", SnNamed("a")), SnUrl("2", SnNamed("b"))>>)>>]
SnDocuments ==
  {SnDocument, [SnDocument EXCEPT !.until = 2], [SnDocument EXCEPT !.size = 3],
   [SnDocument EXCEPT !.wrong = {"regions"}], [SnDocument EXCEPT !.id = "bad"],
   [SnDocument EXCEPT !.from = 1], [SnDocument EXCEPT !.policy.minimum = 3],
   [SnDocument EXCEPT !.regions = <<>>]}
  \cup {[SnDocument EXCEPT !.regions = <<SnRegion("eu", <<SnUrl(i, h), SnUrl("2", SnNamed("b"))>>)>>] :
          i \in {"1", "2"}, h \in {SnNamed("a"), SnNamed("b"), SnNamed(""), SnAddress(8, 8, 8), SnAddress(192, 168, 1)}}
  \cup {[SnDocument EXCEPT !.regions = @ \o <<SnRegion(r, <<SnUrl("3", SnNamed(h)), SnUrl("4", SnNamed("d"))>>)>>] :
          r \in {"eu", "us"}, h \in {"a", "c"}}

Sn == INSTANCE SnProbe WITH
  Bases <- SnBases, Documents <- SnDocuments,
  Hints <- {<<>>, <<"a", "a">>, <<"A", "-", "a">>, <<"a", "-">>, <<"a", "@">>, <<"a", "a", "a", "a", "a">>},
  BadIds <- {"bad"}, Limits <- [bytes |-> 2, regions |-> 2, perRegion |-> 3, total |-> 4, hint |-> 4],
  Tokens <- {"device"}, MaxTime <- 1,
  url <- s1, root <- s2, fetch <- s3, timer <- s4, now <- s5, result <- s6, token <- s7, synced <- s8

-----------------------------------------------------------------------------
(* Addresses and objects.                                                  *)

UrlPlain(c) == [c |-> c, escaped |-> FALSE]
UrlEscaped(c) == [c |-> c, escaped |-> TRUE]
UrlSegments ==
  {<<>>, <<UrlPlain("a")>>, <<UrlEscaped("a")>>, <<UrlPlain(":")>>, <<UrlEscaped(":")>>,
   <<UrlPlain("x"), UrlPlain("3"), UrlPlain("a")>>, <<UrlPlain(".")>>, <<UrlPlain("."), UrlEscaped(".")>>,
   <<UrlEscaped("/")>>, <<UrlPlain("%")>>, <<UrlEscaped("%"), UrlPlain("3"), UrlPlain("a")>>}
UrlPaths ==
  {<<>>} \cup {<<s>> : s \in UrlSegments} \cup {<<s, t>> : s, t \in {<<>>, <<UrlPlain("a")>>}}
UrlHosts ==
  {<<>>, <<"_">>, <<"dfs">>, <<"Home", "zone">>, <<"eve", "zone">>, <<"oid">>, <<"oid", "zone">>, <<"-a">>}
UrlPair(key, value) == <<<<key>>, <<value>>>>
UrlQueries ==
  {<<>>, <<UrlPair(UrlPlain("a"), UrlPlain("a"))>>, <<UrlPair(UrlEscaped("a"), UrlPlain("+"))>>,
   <<UrlPair(UrlPlain("a"), UrlPlain("a")), UrlPair(UrlEscaped("a"), UrlPlain("x"))>>,
   <<UrlPair(UrlPlain("selector"), UrlPlain("{}"))>>, <<UrlPair(UrlPlain("selector"), UrlPlain("a"))>>}
UrlTexts ==
  [scheme : {"file", "cyfs", "obj"}, host : UrlHosts, path : UrlPaths, query : {<<>>}]
  \cup [scheme : {"file", "cyfs", "obj"}, host : {<<"dfs">>, <<"eve", "zone">>},
        path : {<<<<UrlPlain("a")>>>>}, query : UrlQueries]

Url == INSTANCE ObjectUrl WITH
  Texts <- UrlTexts, Services <- {"dfs", "config"}, ObjIds <- {"oid"}, NoLabel <- {"-a"},
  Zone <- <<"home", "zone">>, LevelsOf <- 3, MaxInputs <- 2, seen <- s1

\* A type may be spelled with the bytes of digits.
IdHashes == UNION {[1..n -> {0, 58, 128, 255}] : n \in 0..2}
Id == INSTANCE NdnIds WITH
  MaxSafe <- 1000000,
  Spelling <- [mix256 |-> <<109, 50>>, sha256 |-> <<115, 50>>, cyfile |-> <<99, 121>>, qcid |-> <<113, 99>>],
  Hashes <- IdHashes,
  Around <- {<<>>, <<[type |-> "", digits |-> <<>>], [type |-> "", digits |-> <<13, 3, 13>>]>>},
  id <- s1, shown <- s2

-----------------------------------------------------------------------------
(* What a page imports.                                                    *)

PickedFile(path, data) == [path |-> path, name |-> path[Len(path)], data |-> data]
Picked(mode, tree, picker, files, dirs, worker, endpoint, thumbnails) ==
  [mode |-> mode, tree |-> tree, picker |-> picker, files |-> files, dirs |-> dirs,
   worker |-> worker, endpoint |-> endpoint, thumbnails |-> thumbnails]
FlatFiles == {PickedFile(<<"a">>, <<0, 1, 0>>), PickedFile(<<"b">>, <<>>), PickedFile(<<"odd">>, <<1>>)}
FolderFiles ==
  {PickedFile(<<"r", "a">>, <<0, 1, 0>>), PickedFile(<<"r", "d", "a">>, <<0, 1, 0>>),
   PickedFile(<<"r", "d">>, <<1>>), PickedFile(<<"q", "a">>, <<1, 1>>), PickedFile(<<"a">>, <<1>>)}
TreeFiles == {PickedFile(<<"r", "a">>, <<0, 1, 0>>), PickedFile(<<"r", "d", "a">>, <<0, 1, 0>>)}
Lists(S, n) == UNION {[1..k -> S] : k \in 0..n}
Selections ==
  {Picked(m, FALSE, p, fs, {}, w, e, th) :
     m \in {"single_file", "multi_file", "mixed"}, p \in BOOLEAN, fs \in Lists(FlatFiles, 2),
     w \in BOOLEAN, e \in BOOLEAN, th \in BOOLEAN}
  \cup {Picked("single_dir", FALSE, p, fs, {}, w, TRUE, FALSE) :
          p \in BOOLEAN, fs \in Lists(FolderFiles, 3), w \in BOOLEAN}
  \cup {Picked("single_dir", TRUE, FALSE, fs, ds, w, TRUE, FALSE) :
          fs \in Lists(TreeFiles, 2), w \in BOOLEAN,
          ds \in {{<<"r">>, <<"r", "d">>}, {<<"r">>, <<"r", "d">>, <<"r", "a">>}}}
Lookup(reusable, state, fits, same, object) ==
  [reusable |-> reusable, state |-> state, fits |-> fits, same_as |-> same, direct |-> "none", object_id |-> object]
Lookups ==
  {Lookup(TRUE, "completed", TRUE, "none", "chunklist"), Lookup(TRUE, "same_as", TRUE, "chunk", "qcid"),
   Lookup(FALSE, "completed", TRUE, "none", "chunk"), Lookup(TRUE, "completed", TRUE, "none", "qcid"),
   Lookup(TRUE, "completed", FALSE, "none", "chunk"), Lookup(TRUE, "new", TRUE, "none", "none")}

-----------------------------------------------------------------------------
(* The command line tool: a line and its session.                          *)

Word(x) == [k |-> "word", name |-> x, inline |-> "none"]
Option(x) == [k |-> "opt", name |-> x, inline |-> "none"]
OptionIs(x, v) == [k |-> "opt", name |-> x, inline |-> v]
Dashes == [k |-> "end", name |-> "--", inline |-> "none"]
Help == [k |-> "help", name |-> "-h", inline |-> "none"]
FirstOnly(s) == IF s = <<>> THEN <<>> ELSE <<Head(s)>>
LineCommand(positionals, options, raw, local, secret) ==
  [positionals |-> positionals, required |-> FirstOnly(positionals), options |-> options, raw |-> raw,
   local |-> local, secret |-> secret]
LineCommands ==
  [share |-> LineCommand(<<"path">>, [wait |-> "boolean", title |-> "string", key |-> "string"], FALSE, FALSE, FALSE),
   get |-> LineCommand(<<"path", "to">>, [version |-> "integer"], TRUE, FALSE, FALSE),
   pack |-> LineCommand(<<>>, [force |-> "boolean"], FALSE, TRUE, FALSE),
   login |-> LineCommand(<<>>, [title |-> "string"], FALSE, FALSE, TRUE)]
Words ==
  {<<Word("share"), Word("x"), Option("wait")>>, <<Word("share"), Word("x")>>,
   <<Word("share"), Word("x"), Option("yes")>>, <<Word("share"), Dashes, Option("yes")>>,
   <<Word("share"), Word("x"), Option("title"), Option("yes")>>,
   <<Word("share"), Word("x"), OptionIs("title", "t"), Help>>,
   <<Word("share"), Word("x"), Option("key"), Word("k")>>, <<Word("share"), Option("title"), Word("t")>>,
   <<Word("share"), Word("x"), Option("zone"), Word("z")>>,
   <<Word("get"), Word("x"), OptionIs("version", "7")>>, <<Word("get"), Word("x"), OptionIs("version", "q")>>,
   <<Word("get"), Word("x"), Word("y"), Word("z")>>, <<Word("get"), Word("x"), OptionIs("output", "raw")>>,
   <<Word("pack"), Option("force")>>, <<Word("pack"), Option("force"), Option("force")>>,
   <<Word("login")>>, <<Word("share"), Word("x"), Option("yes"), Option("yes")>>}
Globals ==
  {<<>>, <<Option("yes")>>, <<OptionIs("zone", "z")>>, <<Option("non-interactive")>>,
   <<Option("non-interactive"), Option("yes")>>, <<OptionIs("output", "raw")>>, <<OptionIs("zone", "")>>,
   <<Option("what")>>}
LineInvocations ==
  {[globals |-> g, words |-> w] : g \in Globals, w \in Words \cup {<<>>}}
  \cup {[globals |-> <<Option("cli")>> \o g, words |-> w] : g \in Globals, w \in {<<>>, <<Word("share")>>}}
Entered ==
  {[kind |-> "command", words |-> w, secret |-> FALSE,
    hide |-> w[1].name = "login" \/ \E i \in DOMAIN w : w[i].name = "key"] : w \in Words}
  \cup {[kind |-> "command", words |-> <<Word("nope")>>, secret |-> TRUE, hide |-> TRUE],
        [kind |-> "command", words |-> <<Word("shair"), Option("key"), Word("k")>>, secret |-> FALSE, hide |-> TRUE],
        [kind |-> "exit", words |-> <<>>, secret |-> FALSE, hide |-> FALSE],
        [kind |-> "blank", words |-> <<>>, secret |-> FALSE, hide |-> FALSE]}

-----------------------------------------------------------------------------
(* Packages and archives of Apps.                                          *)

Payload(kind, content, manifests, launchers) ==
  [kind |-> kind, content |-> content, manifests |-> manifests, launchers |-> launchers, faults |-> {}]
Plain(content) == Payload("plain", content, {}, {})
Tools(provides) ==
  Payload("tools", "t", {[id |-> "app", version |-> "1", platforms |-> {"linux-x86_64", "darwin-arm64"},
                          provides |-> provides]}, provides)
Web(payloads) ==
  [did |-> "app", app_type |-> "web", version |-> "1", owner |-> "me", time |-> 1, odd |-> {}, payloads |-> payloads]
Graph == INSTANCE PikgGraph WITH
  Builds <- {Web([web |-> Plain("x")]), Web([web |-> Plain("y")]), Web([web |-> Plain("x"), script |-> Plain("x")]),
             Web([ext_tools_linux_x86_64 |-> Tools({"a"}), ext_tools_darwin_arm64 |-> Tools({"a", "b"})])},
  MaxEdits <- 2, MaxInspections <- 2, archive <- s1, edits <- s2, accepted <- s3

\* The entries of a directory that is archived, and archives of others: one
\* with each form, one that names a file twice, links, an unsafe path.
TarEntry(kind, content, executable) == [kind |-> kind, content |-> content, executable |-> executable, stamp |-> 0]
TarNothing == [path |-> "", kind |-> "", size |-> 0, executable |-> FALSE, mark |-> 0]
TarHead(kind, path, size) ==
  <<[is |-> "head", of |-> [TarNothing EXCEPT !.path = path, !.kind = kind, !.size = size]],
    [is |-> "rest", of |-> TarNothing]>>
TarData(marks) == [i \in DOMAIN marks |-> [is |-> "data", of |-> [TarNothing EXCEPT !.mark = marks[i]]]]
TarZeros(n) == [i \in 1..n |-> [is |-> "zero", of |-> TarNothing]]
TarEntries ==
  {TarEntry("file", <<>>, FALSE), TarEntry("file", <<1>>, FALSE), TarEntry("file", <<2>>, TRUE),
   TarEntry("file", <<1, 2, 3>>, FALSE), TarEntry("none", <<>>, FALSE), TarEntry("directory", <<>>, TRUE),
   TarEntry("special", <<>>, FALSE), TarEntry("long", <<>>, FALSE)}
TarForeign ==
  {TarHead("root", "", 0) \o TarHead("file", "a", 1) \o TarData(<<1>>) \o TarZeros(1)
     \o TarHead("file", "b", 3) \o TarData(<<1, 2, 1>>) \o TarZeros(5),
   TarHead("file", "a", 3) \o TarData(<<1, 2, 1>>) \o TarZeros(1) \o TarHead("file", "a", 0) \o TarZeros(4),
   TarHead("file", "b", 0) \o TarHead("link", "a", 0),
   TarHead("unsafe", "a", 0),
   TarHead("directory", "b", 2) \o TarData(<<1, 1>>) \o TarHead("file", "a", 2) \o TarData(<<1, 2>>) \o TarZeros(2)}
Tar == INSTANCE TarArchive WITH
  Names <- <<"a", "b">>, Entries <- TarEntries, Foreign <- TarForeign, Small <- {"a"}, Block <- 2, Limit <- 14,
  MaxEdits <- 1,
  tree <- s1, stage <- s2, before <- s3, after <- s4, tar <- s5, copied <- s6, moment <- s7, archive <- s8,
  reader <- s9

\* Archives of two entries whose sizes, names and places do or do not agree.
ZipName(path, directory) == [path |-> path, directory |-> directory]
ZipCell(is) ==
  [is |-> is, name |-> ZipName(<<>>, FALSE), digest |-> <<>>, mark |-> 0, size |-> 0, packed |-> 0, at |-> 0,
   count |-> 0, extra |-> <<>>, deflated |-> FALSE, encrypted |-> FALSE, link |-> FALSE]
ZipData(mark) == [ZipCell("data") EXCEPT !.mark = mark]
ZipLocal(name, deflated) == [ZipCell("local") EXCEPT !.name = name, !.deflated = deflated]
ZipCentral(name, deflated, size, packed, at, digest) ==
  [ZipCell("central") EXCEPT !.name = name, !.deflated = deflated, !.size = size, !.packed = packed, !.at = at,
                             !.digest = digest]
ZipEnd(n, at) == [ZipCell("end") EXCEPT !.count = n, !.size = n, !.at = at]
ZipFirst == ZipName(<<"a">>, FALSE)
ZipSeconds ==
  {ZipFirst, ZipName(<<"a", "b">>, FALSE), ZipName(<<"b">>, FALSE), ZipName(<<"a">>, TRUE),
   ZipName(<<"..", "b">>, FALSE)}
ZipOthers ==
  {<<ZipLocal(ZipFirst, FALSE), ZipData(1), ZipLocal(y, d), ZipData(2),
     ZipCentral(ZipFirst, FALSE, s, s, 0, <<1>>),
     ZipCentral(z, d, IF d THEN 2 * t ELSE t, t, 2, IF d THEN <<2, 2>> ELSE <<2>>), ZipEnd(2, 4)>> :
     s \in {1, 3}, t \in {1, 2}, d \in BOOLEAN, y \in ZipSeconds, z \in ZipSeconds}
Zip == INSTANCE ZipArchive WITH
  Names <- <<ZipFirst, ZipName(<<"d", "b">>, FALSE)>>, Contents <- {<<>>, <<1>>, <<1, 2>>, <<1, 2, 1, 2, 1>>},
  Others <- ZipOthers,
  Cells <- {ZipCell("nothing"), [ZipData(2) EXCEPT !.at = 2, !.packed = 1], ZipEnd(1, 2),
            [ZipLocal(ZipFirst, FALSE) EXCEPT !.size = 2]},
  Wide <- 4, MaxEntries <- 8, MaxEdits <- 1,
  files <- s1, edits <- s2, digests <- s3, stage <- s4, offset <- s5, central <- s6, file <- s7, opened <- s8,
  damaged <- s9, read <- s10

-----------------------------------------------------------------------------
Init ==
  /\ part \in Parts
  /\ \/ part = "nfsp" /\ Nfsp!Init
     \/ part = "upload" /\ Upload!Init /\ Free2
     \/ part = "runner" /\ Runner!Init /\ Free3
     \/ part = "answer" /\ Answer!Init /\ Free7
     \/ part = "managed" /\ Managed!Init /\ Free5
     \/ part = "executor" /\ Executor!Init /\ Free7
     \/ part = "config" /\ Config!Init /\ Free8
     \/ part = "sn" /\ Sn!Init /\ Free9
     \/ part = "url" /\ Url!Init /\ Free2
     \/ part = "id" /\ Id!Init /\ Free3
     \/ part = "message" /\ Message!Init /\ Free2
     \/ part = "object" /\ Object!Init /\ Free3
     \/ part = "import" /\ Import!Init /\ Free7
     \/ part = "aiws" /\ Aiws!Init /\ Free9
     \/ part = "line" /\ Line!Init /\ Free9
     \/ part = "login" /\ Login!Init /\ Free10
     \/ part = "files" /\ ConfigFiles!Init /\ Free4
     \/ part = "install" /\ Install!Init /\ Free10
     \/ part = "graph" /\ Graph!Init /\ Free4
     \/ part = "build" /\ Build!Init /\ Free8
     \/ part = "tar" /\ Tar!Init /\ Free10
     \/ part = "zip" /\ Zip!Init /\ Free11

\* A step of one component.
NfspStep == part = "nfsp" /\ Nfsp!Next /\ UNCHANGED part
UploadStep == part = "upload" /\ Upload!Next /\ UNCHANGED <<part, from2>>
RunnerStep == part = "runner" /\ Runner!Next /\ UNCHANGED <<part, from3>>
AnswerStep == part = "answer" /\ AnswerNext /\ UNCHANGED <<part, from7>>
ManagedStep == part = "managed" /\ Managed!Next /\ UNCHANGED <<part, from5>>
ExecutorStep == part = "executor" /\ Executor!Next /\ UNCHANGED <<part, from7>>
ConfigStep == part = "config" /\ Config!Next /\ UNCHANGED <<part, from8>>
SnStep == part = "sn" /\ Sn!Next /\ UNCHANGED <<part, from9>>
UrlStep == part = "url" /\ Url!Next /\ UNCHANGED <<part, from2>>
IdStep == part = "id" /\ Id!Next /\ UNCHANGED <<part, from3>>
MessageStep == part = "message" /\ Message!Next /\ UNCHANGED <<part, from2>>
ObjectStep == part = "object" /\ Object!Next /\ UNCHANGED <<part, from3>>
ImportStep == part = "import" /\ Import!Next /\ UNCHANGED <<part, from7>>
AiwsStep == part = "aiws" /\ Aiws!Next /\ UNCHANGED <<part, from9>>
LineStep == part = "line" /\ Line!Next /\ UNCHANGED <<part, from9>>
LoginStep == part = "login" /\ Login!Next /\ UNCHANGED <<part, from10>>
FilesStep == part = "files" /\ ConfigFiles!Next /\ UNCHANGED <<part, from4>>
InstallStep == part = "install" /\ Install!Next /\ UNCHANGED <<part, from10>>
GraphStep == part = "graph" /\ Graph!Next /\ UNCHANGED <<part, from4>>
BuildStep == part = "build" /\ Build!Next /\ UNCHANGED <<part, from8>>
TarStep == part = "tar" /\ Tar!Next /\ UNCHANGED <<part, from10>>
ZipStep == part = "zip" /\ Zip!Next /\ UNCHANGED <<part, s11>>

Next ==
  \/ NfspStep \/ UploadStep \/ RunnerStep \/ AnswerStep \/ ManagedStep \/ ExecutorStep
  \/ ConfigStep \/ SnStep \/ UrlStep \/ IdStep \/ MessageStep \/ ObjectStep
  \/ ImportStep \/ AiwsStep \/ LineStep \/ LoginStep \/ FilesStep \/ InstallStep
  \/ GraphStep \/ BuildStep \/ TarStep \/ ZipStep

Spec == Init /\ [][Next]_all

-----------------------------------------------------------------------------
(* Properties: what the modules state of the components.                   *)

\* A write is executed once however often it is sent, what is committed is
\* the whole content, and a client reads older than it wrote only what was
\* read before the write was answered and is kept since.
WritesLandOnce ==
  /\ part = "nfsp" => Nfsp!ExactlyOnce /\ Nfsp!NumbersAreUnique
  /\ part = "upload" => Upload!CommittedIsWhole
  /\ part = "config" => Config!OnlyOverlapIsStale

\* What is told of a task, a question or an operation is what became of it.
OutcomesAreTold ==
  /\ part = "runner" => Runner!EndIsHeard
  /\ part = "answer" => Answer!AnswersSettle /\ Answer!RepliesAreTyped
  /\ part = "executor" => Executor!OutcomesAreHonest

\* The pair of a session stays one pair, a request carries the token of its
\* session; a developer's identity is offered only in developer mode, and a
\* search stays within its limit.
SessionsAreHonest ==
  /\ part = "managed" => Managed!PairsStayTogether /\ Managed!RequestsCarryTheirToken
  /\ part = "login" => Login!DeveloperNeedsMode /\ Login!SearchIsBounded

\* An address and an id in text name one thing whoever reads them, and an SN
\* is asked where it is mounted, for what can be probed.
AddressesAreUsable ==
  /\ part = "sn" => Sn!AnsweredCanBeProbed /\ Sn!OneSnOneName
  /\ part = "url" => Url!AddressesAreCanonical /\ Url!KeysNameOneObject
  /\ part = "id" => Id!NameIsKept

\* A message and an object have one id, whoever encodes and decodes them.
IdsNameOneThing ==
  /\ part = "message" => Message!OneIdPerMessage
  /\ part = "object" => Object!PassedOnIsItself

\* A directory that is stored, fetched or signed stays the same directory.
SameChildrenSameId == [][part = "object" => Object!KeepsChildren]_all

\* What is imported is the selection that was made.
SelectionIsWhole == part = "import" => Import!SelectionIsWhole

\* A build replaces no change of the Workspace that its folder has not had.
NothingUnseenIsReplaced == part = "aiws" => Aiws!NothingUnseenIsReplaced

\* A line runs as it says, asks only who can answer, and leaves no secret of a
\* command that is known in the history.
RunsAsSaid == part = "line" => Line!RunsAsSaid /\ Line!AsksOnlyWhoAnswers /\ Line!HistoryIsSafe

\* `install` submits the plan it showed, of the bytes that were staged; a
\* package stays staged after its command only for a task that was left
\* running, or when its release was not served or its staging not answered as
\* it should be.
InstallsWhatWasShown == part = "install" => Install!InstallsWhatWasShown /\ Install!PackagesAreLetGo

\* A package is one document with its payloads, an archive one state of what
\* was archived, and both are read back as they were written; a control's
\* folder is carried inline only within the limit.
PackagesAreWhole ==
  /\ part = "graph" => Graph!DocumentDecides
  /\ part = "build" => Build!PackedIsWhole
  /\ part = "tar" => Tar!ArchiveIsOneMoment /\ Tar!ListingIsTheArchive
  /\ part = "zip" => Zip!ReadsWhatWasWritten /\ Zip!OpenedIsSound
  /\ part = "aiws" => Aiws!InlineFits

\* The tool's files are replaced whole, whoever is killed in between.
FilesSurvive ==
  [][ (part = "files" => ConfigFiles!ChangesWhole) /\ (part = "build" => Build!KeepsSnapshot) ]_all

-----------------------------------------------------------------------------
(* What the code's words say and the components do not do.                 *)

\* After a write the next get of its key asks the service.
OwnWritesAreRead == part = "config" => Config!OwnWritesAreRead

\* A plan is submitted as it was confirmed.
ConfirmedIsSubmitted == part = "install" => Install!ConfirmedIsSubmitted
==============================================================================
