---------------------------- MODULE ImportSession ----------------------------
(***************************************************************************)
(* One NDM import session and its upload engine: startUpload,              *)
(* ensureUploaded, cancelImportSession, releaseImportSession, doUpload and *)
(* uploadMissingChunk of src/src/ndm_client.ts.                            *)
(*                                                                         *)
(* JavaScript runs one stretch of code at a time, from one `await` to the  *)
(* next.  A worker whose pc is "top" or "chunk" is inside such a stretch:  *)
(* nothing but the workers' own synchronous steps may happen then (Idle is *)
(* the guard of everything else).  A worker at "await" has yielded.        *)
(*                                                                         *)
(* The server (lookup, TUS, finalize) is the environment: it may answer    *)
(* any request in any of the ways the client distinguishes, or not at all. *)
(***************************************************************************)
EXTENDS Naturals, Sequences, FiniteSets

CONSTANTS
  Chunks,       \* chunk ids
  Content,      \* Content[f]: the chunk ids of file f; a QCID hit has none
  Hits,         \* the files whose content the QCID lookup found
  Workers,      \* min(concurrency, files) workers of doUpload
  Callers,      \* concurrent ensureUploaded calls
  MaxAttempts   \* bound: attempts started in one session

Files == DOMAIN Content
Attempts == 1..MaxAttempts
Entries == UNION {{f} \X DOMAIN Content[f] : f \in Files}

ASSUME ImportAssumption ==
  /\ Content \in Seq(Seq(Chunks))
  /\ Hits \subseteq Files
  /\ \A f \in Hits : Content[f] = <<>>
  /\ Workers = {} => Content = <<>>
  /\ MaxAttempts \in Nat

VARIABLES
  registry,     \* the session in sessionRegistry: "none", or how many roots
                \* it imports, "single" or "several"
  objectStatus, \* session.objectStatus
  uploadStatus, \* session.uploadStatus
  promise,      \* session.uploadPromise: "none", "running", or "settled"
                \* (.catch has run, .finally has not)
  aborted,      \* session.abortController.signal.aborted
  bind,         \* session.bind is set
  binding,      \* session.binding is set
  uploaded,     \* the entries <<f, k>> with chunk.uploaded
  fileState,    \* ObjectUploadState.state
  phase,        \* where doUpload is: "off", "workers", "token", "finalize"
  index,        \* doUpload's shared `index`: the next file to take
  failure,      \* doUpload's `failure` is set
  tasks,        \* doUpload's chunkTasks: the state of each chunk's one task
  pc, at,       \* each worker's control point and its <<file, chunk>>
  call,         \* each ensureUploaded call
  attempt,      \* history: number of attempts started
  sentIn,       \* history: TUS successes of a chunk in each attempt
                \* (transmittedBytes is their total)
  stored,       \* the server: chunks it holds
  finalized     \* the server: it has registered the manifest's roots

session == <<registry, objectStatus, uploadStatus, promise, aborted, bind,
             binding, uploaded, fileState, attempt>>
engine  == <<phase, index, failure, tasks, pc, at>>
server  == <<stored, finalized>>
vars    == <<session, engine, call, sentIn, server>>

Pending(t) == t \in {"lookup", "prepare", "send"}
Registered == registry # "none"
Idle == \A w \in Workers : pc[w] \notin {"top", "chunk"}

\* session.transmittedBytes === 0
TransmittedNothing == \A c \in Chunks, a \in Attempts : sentIn[c][a] = 0

-----------------------------------------------------------------------------
(* The session importFiles leaves behind: nothing sent, QCID hits completed *)
Init ==
  /\ registry \in {"single", "several"}
  /\ objectStatus = "pending" /\ uploadStatus = "not_started"
  /\ promise = "none" /\ aborted = FALSE
  /\ bind = FALSE /\ binding = FALSE
  /\ uploaded = {}
  /\ fileState = [f \in Files |-> IF f \in Hits THEN "completed" ELSE "pending"]
  /\ phase = "off" /\ index = 1 /\ failure = FALSE
  /\ tasks = [c \in Chunks |-> "none"]
  /\ pc = [w \in Workers |-> "done"]
  /\ at = [w \in Workers |-> <<1, 1>>]
  /\ call = [e \in Callers |-> "none"]
  /\ attempt = 0
  /\ sentIn = [c \in Chunks |-> [a \in Attempts |-> 0]]
  /\ stored \in SUBSET Chunks
  /\ finalized = FALSE

-----------------------------------------------------------------------------
(* The session's public operations.                                         *)

MayStartAgain == objectStatus /= "ready"
MayStart == objectStatus /= "ready" /\ promise = "none"

\* chunk.uploaded belongs to the session, not to the attempt.
ChunksForgotten == {}
ChunksKept == uploaded

\* startUpload past its early return: the statuses are reset, then the bind
\* option is checked, and only then does doUpload begin.
BeginAttempt(withBind) ==
  /\ attempt < MaxAttempts
  /\ attempt' = attempt + 1
  /\ aborted' = FALSE
  /\ uploadStatus' = "uploading" /\ objectStatus' = "pending"
  /\ bind' = (bind \/ withBind)
  /\ promise' = "running"
  /\ phase' = "workers" /\ index' = 1 /\ failure' = FALSE
  /\ tasks' = [c \in Chunks |-> "none"]
  /\ pc' = [w \in Workers |-> "top"]
  /\ uploaded' = ChunksKept
  /\ UNCHANGED <<registry, binding, fileState, at, sentIn, server>>

StartUpload(withBind) ==
  /\ Idle /\ Registered /\ MayStart
  /\ withBind => registry = "single"
  /\ BeginAttempt(withBind)
  /\ UNCHANGED call

\* startUpload with a bind option on several roots: it throws after the
\* statuses and the controller were replaced.
StartBindRejected ==
  /\ Idle /\ registry = "several" /\ MayStart
  /\ attempt < MaxAttempts
  /\ attempt' = attempt + 1
  /\ aborted' = FALSE
  /\ uploadStatus' = "uploading" /\ objectStatus' = "pending"
  /\ UNCHANGED <<registry, promise, bind, binding, uploaded, fileState,
                 engine, call, sentIn, server>>

\* ensureUploaded: starts an attempt if it may, and awaits the attempt's
\* promise, or nothing when there is none.
EnsureUploaded(e) ==
  /\ Idle /\ Registered /\ call[e] = "none"
  /\ \/ MayStart /\ BeginAttempt(FALSE)
     \/ ~MayStart /\ UNCHANGED <<session, engine, sentIn, server>>
  /\ call' = [call EXCEPT ![e] = IF promise' = "none" THEN "woken" ELSE "waiting"]

\* After the await: the objects must be ready and the session still there.
EnsureReturns(e) ==
  /\ Idle /\ call[e] = "woken"
  /\ call' = [call EXCEPT ![e] = IF objectStatus = "ready" /\ Registered
                                 THEN "resolved" ELSE "rejected"]
  /\ UNCHANGED <<session, engine, sentIn, server>>

\* AbortController.abort(): every TUS upload in progress rejects at once.
TasksUnaware == tasks
TasksAborted == [c \in Chunks |-> IF tasks[c] = "send" THEN "err" ELSE tasks[c]]
Abort == aborted' = TRUE /\ tasks' = TasksAborted

Cancel(stillRegistered) ==
  /\ Idle /\ Registered
  /\ registry' = IF stillRegistered THEN registry ELSE "none"
  /\ IF objectStatus = "ready"
     THEN UNCHANGED <<objectStatus, uploadStatus, aborted, tasks>>
     ELSE /\ objectStatus' = "cancelled" /\ uploadStatus' = "cancelled"
          /\ IF attempt > 0 THEN Abort ELSE UNCHANGED <<aborted, tasks>>
  /\ UNCHANGED <<promise, bind, binding, uploaded, fileState, phase, index,
                 failure, pc, at, call, attempt, sentIn, server>>

CancelImportSession  == Cancel(TRUE)
ReleaseImportSession == Cancel(FALSE)

\* The caller's own signal, forwarded to the controller while an attempt runs.
SignalAborts ==
  /\ Idle /\ promise /= "none" /\ ~aborted
  /\ Abort
  /\ UNCHANGED <<registry, objectStatus, uploadStatus, promise, bind, binding,
                 uploaded, fileState, phase, index, failure, pc, at, call,
                 attempt, sentIn, server>>

-----------------------------------------------------------------------------
(* doUpload's workers.                                                      *)

\* while (index < states.length && !failure)
WorkerEnds(w) ==
  /\ pc[w] = "top"
  /\ failure \/ index > Len(Content)
  /\ pc' = [pc EXCEPT ![w] = "done"]
  /\ UNCHANGED <<session, phase, index, failure, tasks, at, call, sentIn, server>>

\* The throw of throwIfCancelled or of a task, caught per file.
FileFails(w, f) ==
  /\ fileState' = [fileState EXCEPT ![f] = "failed"]
  /\ failure' = TRUE
  /\ pc' = [pc EXCEPT ![w] = "top"]

TakeFile(w) ==
  /\ pc[w] = "top" /\ ~failure /\ index <= Len(Content)
  /\ index' = index + 1
  /\ \/ aborted /\ FileFails(w, index) /\ UNCHANGED at
     \/ /\ ~aborted /\ fileState[index] = "completed"
        /\ UNCHANGED <<fileState, failure, pc, at>>
     \/ /\ ~aborted /\ fileState[index] /= "completed"
        /\ fileState' = [fileState EXCEPT ![index] = "uploading"]
        /\ pc' = [pc EXCEPT ![w] = "chunk"]
        /\ at' = [at EXCEPT ![w] = <<index, 1>>]
        /\ UNCHANGED failure
  /\ UNCHANGED <<registry, objectStatus, uploadStatus, promise, aborted, bind,
                 binding, uploaded, attempt, phase, tasks, call, sentIn, server>>

\* One turn of the loop over the file's chunks.  A chunk the session already
\* has a task for is not started again: the worker awaits the same task.
DropsFinishedTask(c) == tasks[c] \in {"none", "ok"}
NeedsTask(c) == tasks[c] = "none"

NextChunk(w) ==
  LET f == at[w][1]
      k == at[w][2]
      c == Content[f][k]
  IN
  /\ pc[w] = "chunk" /\ k <= Len(Content[f])
  /\ \/ aborted /\ FileFails(w, f) /\ UNCHANGED <<tasks, at>>
     \/ /\ ~aborted /\ at[w] \in uploaded
        /\ at' = [at EXCEPT ![w] = <<f, k + 1>>]
        /\ UNCHANGED <<fileState, failure, tasks, pc>>
     \/ /\ ~aborted /\ at[w] \notin uploaded
        /\ tasks' = [tasks EXCEPT ![c] = IF NeedsTask(c) THEN "lookup" ELSE @]
        /\ pc' = [pc EXCEPT ![w] = "await"]
        /\ UNCHANGED <<fileState, failure, at>>
  /\ UNCHANGED <<registry, objectStatus, uploadStatus, promise, aborted, bind,
                 binding, uploaded, attempt, phase, index, call, sentIn, server>>

FileDone(w) ==
  LET f == at[w][1] IN
  /\ pc[w] = "chunk" /\ at[w][2] > Len(Content[f])
  /\ fileState' = [fileState EXCEPT ![f] = "completed"]
  /\ pc' = [pc EXCEPT ![w] = "top"]
  /\ UNCHANGED <<registry, objectStatus, uploadStatus, promise, aborted, bind,
                 binding, uploaded, attempt, phase, index, failure, tasks, at,
                 call, sentIn, server>>

\* The entry marked by chunk.uploaded = true.
MarkedLate(w) == <<at[w][1], at[w][2] + 1>>
Marked(w) == at[w]

\* `await task` returns or throws.
WorkerResumes(w) ==
  LET f == at[w][1]
      k == at[w][2]
      c == Content[f][k]
  IN
  /\ Idle /\ pc[w] = "await"
  /\ \/ /\ tasks[c] = "ok"
        /\ uploaded' = uploaded \cup {Marked(w)}
        /\ at' = [at EXCEPT ![w] = <<f, k + 1>>]
        /\ pc' = [pc EXCEPT ![w] = "chunk"]
        /\ UNCHANGED <<fileState, failure>>
     \/ tasks[c] = "err" /\ FileFails(w, f) /\ UNCHANGED <<uploaded, at>>
  /\ UNCHANGED <<registry, objectStatus, uploadStatus, promise, aborted, bind,
                 binding, attempt, phase, index, tasks, call, sentIn, server>>

-----------------------------------------------------------------------------
(* uploadMissingChunk: the task of one chunk.                               *)

TaskSteps(c, from, to) ==
  /\ Idle /\ tasks[c] = from
  /\ tasks' = [tasks EXCEPT ![c] = to]
  /\ UNCHANGED <<session, phase, index, failure, pc, at, call>>

\* The lookup names a reusable chunk of the right size: nothing to send.
LookupFinds(c) ==
  /\ c \in stored
  /\ TaskSteps(c, "lookup", "ok") /\ UNCHANGED <<sentIn, server>>

\* 404, not reusable, or an error that is only recorded as a warning.
LookupMisses(c) ==
  TaskSteps(c, "lookup", "prepare") /\ UNCHANGED <<sentIn, server>>

\* fetch rejects because its signal is aborted.
LookupAborted(c) ==
  /\ aborted
  /\ TaskSteps(c, "lookup", "err") /\ UNCHANGED <<sentIn, server>>

\* Token, file slice and TUS module are awaited without a signal; then the
\* signal is tested and upload.start() is called.
Prepared(c) ==
  /\ TaskSteps(c, "prepare", IF aborted THEN "err" ELSE "send")
  /\ UNCHANGED <<sentIn, server>>

PrepareFails(c) ==
  TaskSteps(c, "prepare", "err") /\ UNCHANGED <<sentIn, server>>

ServerStores(c) ==
  /\ Idle /\ tasks[c] = "send" /\ stored' = stored \cup {c}
  /\ UNCHANGED <<session, engine, call, sentIn, finalized>>

TusSucceeds(c) ==
  /\ c \in stored
  /\ TaskSteps(c, "send", "ok")
  /\ sentIn' = [sentIn EXCEPT ![c][attempt] = @ + 1]
  /\ UNCHANGED server

TusFails(c) ==
  TaskSteps(c, "send", "err") /\ UNCHANGED <<sentIn, server>>

-----------------------------------------------------------------------------
(* The tail of doUpload and the handlers startUpload chains to it.          *)

\* A throw out of doUpload, and the .catch that records it.
Rejects ==
  /\ promise' = "settled" /\ phase' = "off"
  /\ objectStatus' = IF aborted THEN "cancelled" ELSE "failed"
  /\ uploadStatus' = objectStatus'
  /\ UNCHANGED binding

\* await Promise.all(workers); if (failure) throw; throwIfCancelled
Raced == \E w \in Workers : pc[w] = "done"
Joined == \A w \in Workers : pc[w] = "done"
WorkersFineOrMissed == ~aborted
WorkersFine == ~failure /\ ~aborted

WorkersJoined ==
  /\ Idle /\ phase = "workers" /\ Joined
  /\ \/ ~WorkersFine /\ Rejects
     \/ /\ WorkersFine
        /\ objectStatus' = "finalizing" /\ phase' = "token"
        /\ UNCHANGED <<promise, uploadStatus, binding>>
  /\ UNCHANGED <<registry, aborted, bind, uploaded, fileState, attempt, index,
                 failure, tasks, pc, at, call, sentIn, server>>

UnchangedByTail == UNCHANGED <<registry, aborted, bind, uploaded, fileState,
                               attempt, index, failure, tasks, pc, at, call, sentIn>>

\* getActiveSessionToken, awaited without a signal.
TokenReady ==
  /\ phase = "token" /\ phase' = "finalize"
  /\ UNCHANGED <<objectStatus, uploadStatus, promise, binding, server>>
  /\ UnchangedByTail

TokenFails ==
  phase = "token" /\ Rejects /\ UnchangedByTail /\ UNCHANGED server

\* The server registers the manifest only over chunks it holds.
ServerFinalizes ==
  /\ phase = "finalize" /\ ~finalized
  /\ \A e \in Entries : Content[e[1]][e[2]] \in stored
  /\ finalized' = TRUE
  /\ UNCHANGED <<session, engine, call, sentIn, stored>>

\* The response confirms every root.  A response without the binding asked for
\* is an error; one that comes after the abort is dropped.
AnyResponse == TRUE
RootsConfirmed == finalized
ResponseDropped(withBinding) == aborted \/ (bind /\ ~withBinding)

FinalizeConfirms(withBinding) ==
  /\ phase = "finalize" /\ RootsConfirmed
  /\ IF ResponseDropped(withBinding)
     THEN Rejects
     ELSE /\ objectStatus' = "ready"
          /\ uploadStatus' = IF TransmittedNothing THEN "not_required" ELSE "completed"
          /\ binding' = (binding \/ (bind /\ withBinding))
          /\ promise' = "settled" /\ phase' = "off"
  /\ UnchangedByTail /\ UNCHANGED server

\* Not ready, an HTTP error, a lost response, or the signal's rejection.
FinalizeFails ==
  phase = "finalize" /\ Rejects /\ UnchangedByTail /\ UNCHANGED server

\* fetch rejects because its signal is aborted.
FinalizeAborted ==
  phase = "finalize" /\ aborted /\ Rejects /\ UnchangedByTail /\ UNCHANGED server

\* .finally: a call that comes before it still sees the old promise.  The
\* ensureUploaded calls awaiting the promise get its outcome.
WokenBySuccess(e) ==
  IF call[e] = "waiting" /\ objectStatus = "ready" THEN "woken" ELSE call[e]
Woken(e) ==
  IF call[e] /= "waiting" THEN call[e]
  ELSE IF objectStatus = "ready" THEN "woken" ELSE "rejected"

PromiseCleared ==
  /\ promise = "settled" /\ promise' = "none"
  /\ call' = [e \in Callers |-> Woken(e)]
  /\ UNCHANGED <<registry, objectStatus, uploadStatus, aborted, bind, binding,
                 uploaded, fileState, attempt, engine, sentIn, server>>

-----------------------------------------------------------------------------
PublicOperation ==
  \/ \E b \in BOOLEAN : StartUpload(b)
  \/ StartBindRejected
  \/ \E e \in Callers : EnsureUploaded(e)
  \/ CancelImportSession \/ ReleaseImportSession \/ SignalAborts

WorkerStep(w) ==
  WorkerEnds(w) \/ TakeFile(w) \/ NextChunk(w) \/ FileDone(w) \/ WorkerResumes(w)

TaskStep(c) ==
  \/ LookupFinds(c) \/ LookupMisses(c) \/ LookupAborted(c)
  \/ Prepared(c) \/ PrepareFails(c)
  \/ ServerStores(c) \/ TusSucceeds(c) \/ TusFails(c)

TailStep ==
  \/ WorkersJoined \/ TokenReady \/ TokenFails \/ ServerFinalizes
  \/ \E b \in BOOLEAN : FinalizeConfirms(b)
  \/ FinalizeFails \/ FinalizeAborted \/ PromiseCleared

Next ==
  \/ PublicOperation
  \/ \E w \in Workers : WorkerStep(w)
  \/ \E c \in Chunks : TaskStep(c)
  \/ TailStep
  \/ \E e \in Callers : EnsureReturns(e)

Spec == Init /\ [][Next]_vars

\* The event loop runs every stretch that is ready, and the unsignalled local
\* waits (token, file slice, TUS module) return.  Nothing is assumed of the
\* server, except that fetch and TUS honour an aborted signal.
LocalFairness ==
  /\ \A w \in Workers : WF_vars(WorkerStep(w))
  /\ \A c \in Chunks : /\ WF_vars(Prepared(c) \/ PrepareFails(c))
                       /\ WF_vars(LookupAborted(c))
  /\ WF_vars(WorkersJoined) /\ WF_vars(PromiseCleared)
  /\ WF_vars(TokenReady \/ TokenFails) /\ WF_vars(FinalizeAborted)
  /\ \A e \in Callers : WF_vars(EnsureReturns(e))

\* In addition, every request is answered in some way.
ServerAnswers ==
  /\ \A c \in Chunks : /\ WF_vars(LookupFinds(c) \/ LookupMisses(c))
                       /\ WF_vars(TusSucceeds(c) \/ TusFails(c))
  /\ WF_vars((\E b \in BOOLEAN : FinalizeConfirms(b)) \/ FinalizeFails)

LiveSpec == Spec /\ LocalFairness

-----------------------------------------------------------------------------
(* Correctness.                                                             *)

TaskStates == {"none", "lookup", "prepare", "send", "ok", "err"}

\* Every variable stays in its type; statuses are those of the public types.
TypeOK ==
  /\ registry \in {"none", "single", "several"}
  /\ objectStatus \in {"pending", "finalizing", "ready", "failed", "cancelled"}
  /\ uploadStatus \in {"not_started", "uploading", "completed", "not_required",
                       "failed", "cancelled"}
  /\ promise \in {"none", "running", "settled"}
  /\ aborted \in BOOLEAN /\ bind \in BOOLEAN /\ binding \in BOOLEAN
  /\ uploaded \in SUBSET Entries
  /\ fileState \in [Files -> {"pending", "uploading", "completed", "failed"}]
  /\ phase \in {"off", "workers", "token", "finalize"}
  /\ index \in 1..(Len(Content) + 1) /\ failure \in BOOLEAN
  /\ tasks \in [Chunks -> TaskStates]
  /\ pc \in [Workers -> {"top", "chunk", "await", "done"}]
  /\ at \in [Workers -> Nat \X Nat]
  /\ call \in [Callers -> {"none", "waiting", "woken", "resolved", "rejected"}]
  /\ attempt \in 0..MaxAttempts
  /\ sentIn \in [Chunks -> [Attempts -> Nat]]
  /\ stored \in SUBSET Chunks /\ finalized \in BOOLEAN

\* finalize is requested only when every file is complete, every one of its
\* chunks is marked uploaded, and the server does hold each of them: no worker
\* that failed or stopped early is overlooked, over any retries.
FinalizeAfterChunks ==
  phase \in {"token", "finalize"} =>
    /\ \A f \in Files : fileState[f] = "completed"
    /\ uploaded = Entries
    /\ \A e \in Entries : Content[e[1]][e[2]] \in stored

\* A session is ready only when the server registered its roots over stored
\* chunks, and when it was asked to bind them, with the binding in hand.
ReadyMeansRegistered ==
  objectStatus = "ready" =>
    /\ finalized
    /\ \A e \in Entries : Content[e[1]][e[2]] \in stored
    /\ bind => binding

\* When an attempt's promise is settled nothing of it is left running: no
\* worker, no lookup and no TUS upload that could still change the session.
SettledMeansQuiet ==
  promise /= "running" =>
    /\ phase = "off"
    /\ \A w \in Workers : pc[w] = "done"
    /\ \A c \in Chunks : ~Pending(tasks[c])

\* Within one attempt a chunk is transmitted at most once, however many files
\* and workers share it.
OnceInAttempt == \A c \in Chunks, a \in Attempts : sentIn[c][a] <= 1

\* A retry reuses what was uploaded: no failure, cancellation or retry forgets
\* an uploaded entry, and a chunk whose entries are all uploaded is never sent
\* again (the finalize response may have been lost).
RetryReusesChunks ==
  [][/\ uploaded \subseteq uploaded'
     /\ \A c \in Chunks :
          (\A e \in Entries : Content[e[1]][e[2]] = c => e \in uploaded)
            => UNCHANGED sentIn[c]]_vars

\* After an abort the attempt winds down although the server never answers.
AbortEndsAttempt == (aborted /\ promise /= "none") ~> promise = "none"

\* Every ensureUploaded call returns once requests are answered.
CallsReturn ==
  ServerAnswers =>
    \A e \in Callers : call[e] = "waiting" ~> call[e] \in {"resolved", "rejected"}

\* Neither an attempt nor a caller of it is left hanging.
AttemptsEnd == AbortEndsAttempt /\ CallsReturn

Contract == INSTANCE ImportContract WITH
  outcome <- IF objectStatus = "finalizing" THEN "pending" ELSE objectStatus,
  running <- promise /= "none",
  roots   <- finalized,
  answer  <- [e \in Callers |->
                CASE call[e] = "none" -> "none"
                  [] call[e] \in {"waiting", "woken"} -> "open"
                  [] call[e] = "resolved" -> "ok"
                  [] call[e] = "rejected" -> "error"]

\* The session implements the contract its documentation states.
ImplementsContract == Contract!ContractSpec

\* doc/ndm_client.md: within a session the same chunk is sent only once.
OnceInSession ==
  \A c \in Chunks, a1, a2 \in Attempts :
    sentIn[c][a1] > 0 /\ sentIn[c][a2] > 0 => a1 = a2
-----------------------------------------------------------------------------
(* Small imports for TLC: two files that share a chunk, a third whose      *)
(* content was found by its QCID; and the same content twice.              *)
SharedChunk == << <<"c1", "c2">>, <<"c2">>, <<>> >>
TwoFiles == << <<"c1">>, <<"c1">> >>
=============================================================================
