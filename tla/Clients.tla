------------------------------- MODULE Clients -------------------------------
(***************************************************************************)
(* The clients of services, the tool's sessions and its App commands, for  *)
(* any values of their constants.  They share nothing, so that one state   *)
(* of MCClients is a state of one of them: the slots s1, s2, ... hold its  *)
(* variables in the order of their declaration.                            *)
(***************************************************************************)
EXTENDS Integers, Sequences, FiniteSets

CONSTANTS
  Calls, Used, Window,                     \* of the NFSP session
  Content, ChunkSize,                      \* of an upload
  ImportsMade, StoreAnswers,               \* of an import's selection
  PieceSize, LookupSize,
  Runners,                                 \* of a task
  Users, Options, Replies,                 \* of a question
  Actors, InitCalls,                        \* of managed sessions
  Operations,                              \* of an executor
  Callers, ConfigKeys, Cached, CacheTime,  \* of the system configuration
  Identities, Developers, IdentityLimit,   \* of the tool's login
  Sessions, Rejections, Lifetime,
  ToolProcesses, FoundFiles, Invocations,  \* of its configuration
  Settings,
  AppSources,                              \* of App commands
  ToolStarts, LinesGiven, ToolCommands,    \* of a line of the tool
  HistoryLimit, MaxLines,
  Commands, Together, SourceKind,          \* of PIKG commands
  FieldGroups,                             \* of messages
  ItemNames, FileObjects, ItemSizes,       \* of directories and objects
  OddBodies,
  AiwsTools, AiwsNames, AiwsSizes,         \* of a folder of an AI Workspace control
  AiwsObjects, InlineLimit, Workspaces,
  MaxSessions, MaxHellos, MaxTries,        \* bounds of the components
  MaxTaskChanges, MaxVerbs, MaxChanges,
  MaxPairs, MaxStarts, MaxRequests, MaxStreams,
  MaxTime, MaxWrites, MaxCalls, MaxLogins,
  MaxVersion, MaxCommands, MaxEdits,
  MaxInbox, MaxCount, MaxRevision, AiwsEdits,
  Unused                                   \* what the other slots hold

\* Texts, paths and the like are read in order.
IsList(l) == Len(l) \in Nat /\ l = [i \in 1..Len(l) |-> l[i]]

ASSUME UploadAssumption == Content \in Nat /\ ChunkSize \in Nat \ {0}

\* What is imported is a list of files, each at a path and with its bytes in order; a
\* tree that an application hands over is one directory with all that is in it.
ASSUME SelectionAssumption ==
  /\ PieceSize \in Nat \ {0} /\ LookupSize \in Nat
  /\ \A s \in ImportsMade :
       /\ IsList(s.files)
       /\ \A i \in DOMAIN s.files : IsList(s.files[i].data) /\ IsList(s.files[i].path) /\ s.files[i].path # <<>>
       /\ s.tree =>
            /\ ~s.picker /\ s.mode = "single_dir" /\ IsFiniteSet(s.dirs)
            /\ \E root \in s.dirs : Len(root) = 1 /\ \A d \in s.dirs : Len(d) = 1 => d = root
            /\ \A d \in s.dirs : IsList(d) /\ d # <<>> /\ (Len(d) > 1 => SubSeq(d, 1, Len(d) - 1) \in s.dirs)
            /\ \A i \in DOMAIN s.files :
                 LET p == s.files[i].path
                 IN  Len(p) > 1 /\ SubSeq(p, 1, Len(p) - 1) \in s.dirs /\ s.files[i].name = p[Len(p)]

\* Who ended a question is told apart from its users.
ASSUME AnswerAssumption == Users \cap {"none", "other"} = {}
\* The directories of identities are read in order; a token is good until a time.
ASSUME LoginAssumption ==
  /\ \A root \in {Identities, Developers} : Len(root) \in Nat /\ DOMAIN root = 1..Len(root)
  /\ \A g \in Sessions : g.token \in Nat
  /\ Lifetime \in Nat \ {0} /\ IdentityLimit \in Nat \ {0}

\* A folder's files are read in order.
ASSUME FolderAssumption == Len(AiwsNames) \in Nat /\ DOMAIN AiwsNames = 1..Len(AiwsNames)

\* A line is words, plain ones, options, a "--" or a request for help; what a line
\* of a known command hides is told by its text, its command or an option of that name.
ASSUME LineAssumption ==
  /\ HistoryLimit \in Nat
  /\ \A start \in ToolStarts : /\ IsList(start.globals) /\ IsList(start.words)
                               /\ \A i \in DOMAIN start.words : start.words[i].k \in {"word", "opt", "end", "help"}
  /\ \A l \in LinesGiven :
       /\ IsList(l.words) /\ \A i \in DOMAIN l.words : l.words[i].k \in {"word", "opt", "end", "help"}
       /\ l.hide /\ l.words # <<>> /\ l.words[1].name \in DOMAIN ToolCommands =>
            \/ l.secret \/ ToolCommands[l.words[1].name].secret
            \/ \E i \in DOMAIN l.words : l.words[i].k = "opt" /\ l.words[i].name = "key"

\* The tool's directory holds its two files, or lacks them.
ASSUME FilesAssumption == \A found \in FoundFiles : DOMAIN found = {"config", "profile"}

VARIABLES
  part, \* the component that this is a state of
  s1, s2, s3, s4, s5, s6, s7, s8, s9, s10, s11

from2 == <<s2, s3, s4, s5, s6, s7, s8, s9, s10, s11>>
from3 == <<s3, s4, s5, s6, s7, s8, s9, s10, s11>>
from4 == <<s4, s5, s6, s7, s8, s9, s10, s11>>
from5 == <<s5, s6, s7, s8, s9, s10, s11>>
from6 == <<s6, s7, s8, s9, s10, s11>>
from7 == <<s7, s8, s9, s10, s11>>
from8 == <<s8, s9, s10, s11>>
from9 == <<s9, s10, s11>>
from10 == <<s10, s11>>
all == <<part, s1, from2>>

Free11 == s11 = Unused
Free10 == s10 = Unused /\ Free11
Free9 == s9 = Unused /\ Free10
Free8 == s8 = Unused /\ Free9
Free7 == s7 = Unused /\ Free8
Free6 == s6 = Unused /\ Free7
Free5 == s5 = Unused /\ Free6
Free4 == s4 = Unused /\ Free5
Free3 == s3 = Unused /\ Free4
Free2 == s2 = Unused /\ Free3

-----------------------------------------------------------------------------
(* Clients of services.                                                    *)

\* Writes, and the hello() calls that overlap them.
Nfsp == INSTANCE NfspSession WITH
  session <- s1, seq <- s2, hellos <- s3, asked <- s4, byes <- s5, call <- s6, net <- s7,
  sessions <- s8, ended <- s9, memory <- s10, effects <- s11

\* The chunks of one file.
Upload == INSTANCE NfspUpload WITH upload <- s1

\* What is imported, before anything is uploaded.
Import == INSTANCE ImportSelection WITH
  Selections <- ImportsMade, Answers <- StoreAnswers, ChunkSize <- PieceSize, MinQcid <- LookupSize,
  phase <- s1, sel <- s2, aborted <- s3, done <- s4, pieces <- s5, session <- s6

\* Instances of an App that run one task.
Runner == INSTANCE TaskRunner WITH
  MaxRevision <- MaxTaskChanges, MaxCalls <- MaxVerbs, task <- s1, run <- s2

\* Users who answer one question; nobody waits (waitNotify is in MCWaits).
Answer == INSTANCE NotifyAnswer WITH
  Given <- Replies, Deadline <- 0, MaxInterval <- 1,
  prompt <- s1, task <- s2, user <- s3, waiter <- s4, now <- s5, reply <- s6
AnswerNext ==
  \/ Answer!Asks
  \/ /\ s6 = Answer!NoReply
     /\ \/ \E u \in Users : Answer!User(u)
        \/ Answer!TaskChanges
        \/ \E status \in {"expired", "canceled"} : Answer!TaskEnds(status)

Managed == INSTANCE ManagedSession WITH Starts <- InitCalls,
  runtimes <- s1, client <- s2, actor <- s3, hub <- s4

Executor == INSTANCE ExecutorStream WITH
  files <- s1, stream <- s2, opened <- s3, socket <- s4, ledger <- s5, heard <- s6

Config == INSTANCE SystemConfig WITH
  Keys <- ConfigKeys,
  now <- s1, store <- s2, cache <- s3, call <- s4, calls <- s5, done <- s6, answer <- s7

-----------------------------------------------------------------------------
(* The tool: how it logs in, its configuration, its App commands.          *)

Login == INSTANCE CliSession WITH
  Operations <- Identities, Limit <- IdentityLimit, Given <- Sessions, MaxCalls <- MaxLogins,
  given <- s1, rejects <- s2, zone <- s3, session <- s4, accepted <- s5, attempts <- s6,
  caller <- s7, calls <- s8, now <- s9

ConfigFiles == INSTANCE CliConfig WITH
  Processes <- ToolProcesses, Found <- FoundFiles, Given <- Invocations, Arguments <- Settings,
  disk <- s1, temps <- s2, run <- s3

Install == INSTANCE AppInstall WITH
  Arguments <- AppSources,
  catalog <- s1, file <- s2, installed <- s3, planFile <- s4, leases <- s5, tasks <- s6, snapshots <- s7,
  aborted <- s8, cmd <- s9

Line == INSTANCE CliLine WITH
  Invocations <- ToolStarts, Lines <- LinesGiven, Commands <- ToolCommands,
  phase <- s1, session <- s2, line <- s3, signal <- s4, ran <- s5, history <- s6, code <- s7, left <- s8

Build == INSTANCE PikgBuild WITH
  meta <- s1, source <- s2, dist <- s3, backups <- s4, pc <- s5, mine <- s6, removed <- s7

-----------------------------------------------------------------------------
(* Messages, objects, and the folder of a control.                         *)

Message == INSTANCE NdnMessages WITH Together <- FieldGroups, inbox <- s1

Object == INSTANCE NdnObjects WITH
  Names <- ItemNames, Files <- FileObjects, Sizes <- ItemSizes, dir <- s1, sent <- s2

Aiws == INSTANCE AiwsBuild WITH
  Tools <- AiwsTools, Names <- AiwsNames, SizeOf <- AiwsSizes, Objects <- AiwsObjects, Limit <- InlineLimit,
  MaxEdits <- AiwsEdits,
  folder <- s1, recorded <- s2, spaces <- s3, tool <- s4, edits <- s5, had <- s6, lost <- s7, inline <- s8
==============================================================================
