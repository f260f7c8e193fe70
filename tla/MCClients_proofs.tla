--------------------------- MODULE MCClients_proofs ---------------------------
(***************************************************************************)
(* Theorems about the components that MCClients runs, for every value of   *)
(* the constants of Clients, from the invariants of its components.        *)
(***************************************************************************)
EXTENDS MCClients, Clients_proofs, Sessions_proofs

-----------------------------------------------------------------------------
(* The components share nothing.                                           *)

\* A step that changes nothing stays with its component.
LEMMA PartStays ==
  ASSUME [Next]_all
  PROVE  part' = part
  <1>1. CASE UNCHANGED all
    BY <1>1 DEF all
  <1>2. CASE Next
    BY <1>2 DEF Next, NfspStep, UploadStep, RunnerStep, AnswerStep, ManagedStep, ExecutorStep, ConfigStep, SnStep, UrlStep,
      IdStep, MessageStep, ObjectStep, ImportStep, AiwsStep, LineStep, LoginStep, FilesStep, InstallStep, GraphStep,
      BuildStep, TarStep, ZipStep
  <1> QED BY <1>1, <1>2

\* A step is one of the component that the state is of.
LEMMA PartSteps ==
  ASSUME [Next]_all
  PROVE  /\ part = "nfsp" => Nfsp!Next \/ UNCHANGED all
         /\ part = "upload" => Upload!Next \/ UNCHANGED all
         /\ part = "runner" => Runner!Next \/ UNCHANGED all
         /\ part = "answer" => AnswerNext \/ UNCHANGED all
         /\ part = "managed" => Managed!Next \/ UNCHANGED all
         /\ part = "executor" => Executor!Next \/ UNCHANGED all
         /\ part = "config" => Config!Next \/ UNCHANGED all
         /\ part = "login" => Login!Next \/ UNCHANGED all
         /\ part = "files" => ConfigFiles!Next \/ UNCHANGED all
         /\ part = "install" => Install!Next \/ UNCHANGED all
         /\ part = "import" => Import!Next \/ UNCHANGED all
         /\ part = "line" => Line!Next \/ UNCHANGED all
         /\ part = "build" => Build!Next \/ UNCHANGED all
         /\ part = "message" => Message!Next \/ UNCHANGED all
         /\ part = "object" => Object!Next \/ UNCHANGED all
         /\ part = "aiws" => Aiws!Next \/ UNCHANGED all
  BY DEF Next, NfspStep, UploadStep, RunnerStep, AnswerStep, ManagedStep, ExecutorStep, ConfigStep, SnStep, UrlStep,
      IdStep, MessageStep, ObjectStep, ImportStep, AiwsStep, LineStep, LoginStep, FilesStep, InstallStep, GraphStep,
      BuildStep, TarStep, ZipStep

-----------------------------------------------------------------------------
(* Writes: to the file service, of a file, to the system configuration.    *)

WritesInv ==
  /\ part = "nfsp" => NfspInv
  /\ part = "upload" => UploadInv
  /\ part = "config" => ConfigInv

\* WritesLandOnce, for any number of sessions, files and keys: however calls, hello() and lost
\* answers overlap, a write that is sent again is executed once and no two sessions draw one number
\* (nfsp.ts); a file is committed only with all of its content; a read of a key answers from before
\* a write that its client had finished only from the cache, from an entry whose read had begun
\* before that write was answered and that was put after it (system_config_client.ts keeps such
\* reads, as ConfigStaleRead.cfg shows).
THEOREM WritesLandOnceAlways == Spec => []WritesLandOnce
  <1>1. Init => WritesInv
    BY NfspInit, UploadInit, ConfigInit DEF Init, WritesInv
  <1>2. WritesInv /\ [Next]_all => WritesInv'
    <2> SUFFICES ASSUME WritesInv, [Next]_all PROVE WritesInv'
      OBVIOUS
    <2>1. ASSUME part = "nfsp" PROVE NfspInv'
      <3>1. NfspInv /\ UNCHANGED all => NfspInv'
        BY NfspKeeps DEF all, from2, Nfsp!vars, Nfsp!clientVars, Nfsp!serviceVars
      <3> QED BY <2>1, <3>1, PartSteps, NfspNext DEF WritesInv
    <2>2. ASSUME part = "upload" PROVE UploadInv'
      <3>1. UploadInv /\ UNCHANGED all => UploadInv'
        BY DEF all, UploadInv, UploadShape, UploadFields
      <3> QED BY <2>2, <3>1, PartSteps, UploadNext DEF WritesInv
    <2>3. ASSUME part = "config" PROVE ConfigInv'
      <3>1. ConfigInv /\ UNCHANGED all => ConfigInv'
        BY ConfigStays DEF all, from2
      <3> QED BY <2>3, <3>1, PartSteps, ConfigNext DEF WritesInv
    <2> QED BY <2>1, <2>2, <2>3, PartStays DEF WritesInv
  <1>3. WritesInv => WritesLandOnce
    BY NfspStates DEF WritesInv, WritesLandOnce, UploadInv, UploadFields, Upload!CommittedIsWhole, ConfigInv
  <1> QED BY <1>1, <1>2, <1>3, PTL DEF Spec

-----------------------------------------------------------------------------
(* Imports.                                                                *)

ImportsInv == part = "import" => ImportInv

\* Whatever is picked or handed over, whichever files the store has already,
\* wherever the worker fails and the page reads again from the start, and
\* whenever the application gives up: a session that is made holds every byte
\* of every file in order, each object with the objects it names, every file
\* where the user had it with nothing beside it at its place, and links only
\* quick hashes of files that are in it.
THEOREM SelectionIsWholeAlways == Spec => []SelectionIsWhole
  <1>1. Init => ImportsInv
    BY ImportInit DEF Init, ImportsInv
  <1>2. ImportsInv /\ [Next]_all => ImportsInv'
    <2> SUFFICES ASSUME ImportsInv, [Next]_all, part = "import" PROVE ImportInv'
      BY PartStays DEF ImportsInv
    <2>1. ImportInv /\ UNCHANGED all => ImportInv'
      BY ImportStays DEF all, from2
    <2> QED BY <2>1, PartSteps, ImportNext DEF ImportsInv
  <1>3. ImportsInv => SelectionIsWhole
    BY ImportStates DEF ImportsInv, SelectionIsWhole
  <1> QED BY <1>1, <1>2, <1>3, PTL DEF Spec

-----------------------------------------------------------------------------
(* Tasks, questions and operations.                                        *)

OutcomesInv ==
  /\ part = "runner" => RunnerInv
  /\ part = "answer" => AnswerInv
  /\ part = "executor" => ExecutorInv /\ SettledInv

\* OutcomesAreTold, for any number of runners, users, operations, revisions and streams: a
\* runner that ends a task and gets no error holds the task as it ended, its own result or the
\* one that won (task_mgr_client.ts, cli/modules/task.ts); an answer to a notification that gets
\* no error shows it as it ended, and a result is an answer that was valid (msg_center_client.ts);
\* every request of a stream waits, or its caller has heard one thing of it: its own answer, or
\* that there is none, and nobody waits on a closed stream (executor_client.ts).
THEOREM OutcomesAreToldAlways == Spec => []OutcomesAreTold
  <1>1. Init => OutcomesInv
    BY RunnerInit, AnswerInit, ExecutorInit, SettledInit DEF Init, OutcomesInv
  <1>2. OutcomesInv /\ [Next]_all => OutcomesInv'
    <2> SUFFICES ASSUME OutcomesInv, [Next]_all PROVE OutcomesInv'
      OBVIOUS
    <2>1. ASSUME part = "runner" PROVE RunnerInv'
      BY <2>1, PartSteps, RunnerNext, RunnerStays DEF OutcomesInv
    <2>2. ASSUME part = "answer" PROVE AnswerInv'
      BY <2>2, PartSteps, AnswerSteps, AnswerStays DEF OutcomesInv
    <2>3. ASSUME part = "executor" PROVE ExecutorInv' /\ SettledInv'
      BY <2>3, PartSteps, ExecutorNext, SettledNext, ExecutorStays DEF OutcomesInv
    <2> QED BY <2>1, <2>2, <2>3, PartStays DEF OutcomesInv
  <1>3. OutcomesInv => OutcomesAreTold
    BY RunnerStates, AnswerStates, ExecutorStates DEF OutcomesInv, OutcomesAreTold
  <1> QED BY <1>1, <1>2, <1>3, PTL DEF Spec

-----------------------------------------------------------------------------
(* Sessions, of the SDK and of the tool.                                   *)

SessionsInv ==
  /\ part = "managed" => ManagedInv
  /\ part = "login" => LoginInv

\* However calls, logins, renewals and a logout overlap, a session holds the
\* two tokens of one pair, a request carries the token its session had when
\* it was made, a developer's identity is offered only in developer mode, and
\* a search stays bounded (runtime.ts, cli/core/auth.ts).
THEOREM SessionsAreHonestAlways == Spec => []SessionsAreHonest
  <1>1. Init => SessionsInv
    BY ManagedInit, LoginInit DEF Init, SessionsInv
  <1>2. SessionsInv /\ [Next]_all => SessionsInv'
    <2> SUFFICES ASSUME SessionsInv, [Next]_all PROVE SessionsInv'
      OBVIOUS
    <2>1. ASSUME part = "managed" PROVE ManagedInv'
      BY <2>1, PartSteps, ManagedNext, ManagedStays DEF SessionsInv
    <2>2. ASSUME part = "login" PROVE LoginInv'
      BY <2>2, PartSteps, LoginNext, LoginStays DEF SessionsInv
    <2> QED BY <2>1, <2>2, PartStays DEF SessionsInv
  <1>3. SessionsInv => SessionsAreHonest
    BY ManagedStates, LoginStates DEF SessionsInv, SessionsAreHonest
  <1> QED BY <1>1, <1>2, <1>3, PTL DEF Spec

-----------------------------------------------------------------------------
(* Installing Apps.                                                        *)

InstallsInv == part = "install" => InstallInv

\* Whatever changes under it and wherever it fails or is canceled, `install`
\* submits the plan that it showed, of the bytes that it staged; and when a
\* command is over its package stays staged only for a task that goes on, or
\* when its release was not served or its staging not answered as it should
\* be (cli/modules/app.ts).  Of `upgrade` it does not say what is submitted.
THEOREM InstallsWhatWasShownAlways == Spec => []InstallsWhatWasShown
  <1>1. Init => InstallsInv
    BY InstallInit DEF Init, InstallsInv
  <1>2. InstallsInv /\ [Next]_all => InstallsInv'
    <2> SUFFICES ASSUME InstallsInv, [Next]_all, part = "install" PROVE InstallInv'
      BY PartStays DEF InstallsInv
    <2> QED BY PartSteps, InstallNext, InstallStays DEF InstallsInv
  <1>3. InstallsInv => InstallsWhatWasShown
    BY InstallStates DEF InstallsInv, InstallsWhatWasShown
  <1> QED BY <1>1, <1>2, <1>3, PTL DEF Spec

-----------------------------------------------------------------------------
(* The tool's files.                                                       *)

ToolFilesInv == part = "files" => FilesInv

\* Whichever processes overlap, wherever one is killed and whatever call of
\* the host fails, a configuration file changes only into one that is read
\* back as valid, and dapp_dist goes away only when it was put aside or
\* cleaned; the user's dapp_meta stays the user's.
THEOREM FilesSurviveAlways == Spec => FilesSurvive
  <1>1. Init => ToolFilesInv
    BY FilesInit DEF Init, ToolFilesInv
  <1>2. ToolFilesInv /\ [Next]_all => ToolFilesInv'
    <2> SUFFICES ASSUME ToolFilesInv, [Next]_all, part = "files" PROVE FilesInv'
      BY PartStays DEF ToolFilesInv
    <2> QED BY PartSteps, FilesNext, FilesStay DEF ToolFilesInv
  <1>3. ToolFilesInv /\ [Next]_all =>
          [(part = "files" => ConfigFiles!ChangesWhole) /\ (part = "build" => Build!KeepsSnapshot)]_all
    <2> SUFFICES ASSUME ToolFilesInv, [Next]_all, ~UNCHANGED all
                 PROVE  (part = "files" => ConfigFiles!ChangesWhole) /\ (part = "build" => Build!KeepsSnapshot)
      OBVIOUS
    <2>1. part = "files" => ConfigFiles!ChangesWhole
      BY PartSteps, FilesChangeWhole DEF ToolFilesInv
    <2>2. part = "build" => Build!KeepsSnapshot
      BY PartSteps, SnapshotIsKept
    <2> QED BY <2>1, <2>2
  <1> QED BY <1>1, <1>2, <1>3, PTL DEF Spec, FilesSurvive

-----------------------------------------------------------------------------
(* Messages and objects.                                                   *)

IdsInv ==
  /\ part = "message" => MessageInv
  /\ part = "object" => ObjectInv

\* The invariants of messages, objects and ids hold throughout.
LEMMA IdsInvAlways == Spec => []IdsInv
  <1>1. Init => IdsInv
    BY MessageInit, ObjectInit DEF Init, IdsInv
  <1>2. IdsInv /\ [Next]_all => IdsInv'
    <2> SUFFICES ASSUME IdsInv, [Next]_all PROVE IdsInv'
      OBVIOUS
    <2>1. ASSUME part = "message" PROVE MessageInv'
      <3>1. MessageInv /\ UNCHANGED all => MessageInv'
        BY MessageStays DEF all
      <3> QED BY <2>1, <3>1, PartSteps, MessageNext DEF IdsInv
    <2>2. ASSUME part = "object" PROVE ObjectInv'
      <3>1. ObjectInv /\ UNCHANGED all => ObjectInv'
        BY ObjectStays DEF all, from2
      <3> QED BY <2>2, <3>1, PartSteps, ObjectNext DEF IdsInv
    <2> QED BY <2>1, <2>2, PartStays DEF IdsInv
  <1> QED BY <1>1, <1>2, PTL DEF Spec

\* No two messages that say the same are kept under two ids, and an object
\* that is decoded and encoded again is the one it was named by, however
\* often it is passed on: except for a relation whose body has an `iat` that
\* is no number, which toJSON puts over its own (OddBodies).
THEOREM IdsNameOneThingAlways == ~OddBodies => (Spec => []IdsNameOneThing)
  <1> SUFFICES ASSUME ~OddBodies PROVE Spec => []IdsNameOneThing
    OBVIOUS
  <1>1. IdsInv => IdsNameOneThing
    BY MessageStates, ObjectStates DEF IdsInv, IdsNameOneThing
  <1> QED BY <1>1, IdsInvAlways, PTL

\* Whatever is in a directory and however it is held, storing it, fetching it
\* by the string that was hashed and replacing a child by its signed form
\* leave it the directory of the same id with the same children.
THEOREM SameChildrenSameIdAlways == Spec => SameChildrenSameId
  <1>1. IdsInv /\ [Next]_all => [part = "object" => Object!KeepsChildren]_all
    <2> SUFFICES ASSUME IdsInv, [Next]_all, part = "object" PROVE Object!KeepsChildren
      OBVIOUS
    <2>1. UNCHANGED all => UNCHANGED <<s1, s2>>
      BY DEF all, from2
    <2> QED BY <2>1, PartSteps, ChildrenAreKept DEF IdsInv
  <1> QED BY <1>1, IdsInvAlways, PTL DEF Spec, SameChildrenSameId

-----------------------------------------------------------------------------
(* Builds of a control's folder.                                           *)

FolderInv == part = "aiws" => AiwsInv

\* One tool at a time: wherever a build or a pull ends, whatever others do to
\* the Workspaces meanwhile and whichever Workspace the record is of, a build
\* that carries its base replaces no version that the folder had not had.
\* (With two tools in one folder it does, as the run aiws_two_tools shows.)
THEOREM NothingUnseenIsReplacedAlways ==
  (\A t, u \in AiwsTools : t = u) => (Spec => []NothingUnseenIsReplaced)
  <1> SUFFICES ASSUME \A t, u \in AiwsTools : t = u PROVE Spec => []NothingUnseenIsReplaced
    OBVIOUS
  <1>1. Init => FolderInv
    BY AiwsInit DEF Init, FolderInv
  <1>2. FolderInv /\ [Next]_all => FolderInv'
    <2> SUFFICES ASSUME FolderInv, [Next]_all, part = "aiws" PROVE AiwsInv'
      BY PartStays DEF FolderInv
    <2>1. AiwsInv /\ UNCHANGED all => AiwsInv'
      BY AiwsStays DEF all, from2
    <2> QED BY <2>1, PartSteps, AiwsNext DEF FolderInv
  <1>3. FolderInv => NothingUnseenIsReplaced
    BY AiwsStates DEF FolderInv, NothingUnseenIsReplaced
  <1> QED BY <1>1, <1>2, <1>3, PTL DEF Spec

-----------------------------------------------------------------------------
(* Lines of the tool.                                                      *)

LinesInv == part = "line" => LineInv

\* Whatever words a line has, in whatever order, however the tool was started
\* and whatever was entered before: a command that needs the user's word has
\* it from its own line (or, alone, from its start), it runs where the session
\* was opened, as the device only with consent, with all that it requires, and
\* not when help was asked for; nobody is asked who said nobody answers; and
\* the history stays within its limit and holds no line with a secret option
\* of a command that the tool has (cli/core/app.ts, repl.ts, history.ts).
THEOREM RunsAsSaidAlways == Spec => []RunsAsSaid
  <1>1. Init => LinesInv
    BY LineInit DEF Init, LinesInv
  <1>2. LinesInv /\ [Next]_all => LinesInv'
    <2> SUFFICES ASSUME LinesInv, [Next]_all, part = "line" PROVE LineInv'
      BY PartStays DEF LinesInv
    <2> QED BY PartSteps, LineNext, LineStays DEF LinesInv
  <1>3. LinesInv => RunsAsSaid
    BY LineStates DEF LinesInv, RunsAsSaid
  <1> QED BY <1>1, <1>2, <1>3, PTL DEF Spec
==============================================================================
