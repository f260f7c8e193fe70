# TLA+ models of the BuckyOS Web SDK

This directory models the parts of `src/` whose correctness depends on the order of
things, or on conversions that must agree with each other: sessions, upload engines,
event readers, transaction queues, frames that talk to each other, clients that repeat
writes, commands that overlap or are killed, packages, archives and object ids. Each part
has a TLA+ module translated from the source, TLC configurations that check it on small
instances, and, for the parts that matter most, theorems checked by TLAPS for every value
of the constants.

`PROJECT.json` is the index: components, runs, the source lines behind every definition,
the seeded bug that each property must catch, findings, hazards, theorems.

## 1. The system and its parts

The SDK (`src/src/`) runs in browsers, in Node and in Deno. It is a library of clients of
the Zone's services, plus pieces of machinery with state of their own. The `buckyos`
command line (`src/cli/`) is built on it. JavaScript runs one stretch of code at a time:
processes interleave only at `await`, callbacks, timers and messages, and, between pages
or processes, at every access to `localStorage`, the cookie or the disk.

| Part | State it keeps | Hard behaviour | What makes it correct | Module |
| --- | --- | --- | --- | --- |
| **NDM import: uploading** `ndm_client.ts` | session registry, statuses, upload promise, abort signal, chunk flags; per attempt: file index, chunk tasks, failure | workers sharing chunks; abort against late answers; retry after a lost finalize; `.catch` before `.finally` | finalize only over stored chunks; `ready` only over registered roots; one attempt at a time; nothing left running; a retry reuses chunks | ImportSession, ImportContract |
| **NDM import: selection** `ndm_client.ts`, `hash_worker.ts` | files done, chunks hashed, registry | a worker that fails half way; trees; abort | the session accounts for every byte and place of the selection | ImportSelection |
| **Browser session** `runtime.ts`, `sdk_core.ts` | access token, shared refresh promise, `authStateRevision`, renewal timer; shared by pages: identity, user_info, cookie | late `/sso_refresh` answers; several callers; pages that share storage | no token of a session the page has left; one refresh at a time; records of the session the token is of; calls return | BrowserSession |
| **Managed session** `runtime.ts`, `sdk_core.ts`, `krpc_client.ts`, `verify-hub-client.ts` | token pair of Apps and services, active runtime, kRPC token and number | overlapping renewals, logins, initialisations | the two tokens kept are one pair; a request carries the token its session had | ManagedSession |
| **KEvent** `kevent_client.ts` | native: socket, pending calls, promise chain, read buffer; subscription: current reader; browser: stream, queue, waiters | frames without ids; broken connections; close against connect, pull and retry | answers match calls; events in order; nothing left after close; retry | KEventNative, KEventSubscription, KEventBrowser |
| **BNS executor** `bns_tx_executor.ts`, `bns_evm_tx.ts` | localExecutionTail, nextNonce | nonce gaps and clashes, lost submissions, stale documents | no clash with itself, no gap, order, no lost update | BnsExecutor, BnsLedger |
| **App frames, previews** `app-frame.ts` | ready, focus, requests, title, look, state | reloads, lost early messages, timeouts, failing handlers | both sides agree when quiet; nothing closes without consent | AppFrame, PreviewEmbed |
| **Offline activation** `provision_activate.ts` | lock file, ten files under the root, key backup | kills between writes, failed writes, concurrent calls, recovery by hand | the gate file last, the owner key first, one at a time, an honest status | OfflineActivation |
| **NFSP** `nfsp.ts` | session id, sequence number; upload offset | retry of writes that may have run; a new session under old writes | every write once; a committed upload is whole | NfspSession, NfspUpload |
| **AI Workspace controls** `aiws_ext.ts`, `cli/modules/aiws.ts` | source key, debounce timer, chain of checks; recorded base | gaps of the watch; two tools on a folder; interrupted pulls | the last change seen is built; no unseen change is replaced | WatchControl, AiwsBuild |
| **Executor stream** `executor_client.ts`, `cli/modules/executor.ts` | pending requests by id, socket, locators on disk | timeouts, frames in parts, death of either side | each request settled once, by its own reply or a failure; a locator for what was dispatched | ExecutorStream |
| **Notifications and tasks** `msg_center_client.ts`, `task_mgr_client.ts`, `cli/core/task.ts` | task revision, event reader | compare and set; two runners; event against poll against deadline | one result wins and everybody hears it; waits are true and end | NotifyAnswer, TaskRunner, TaskWait |
| **CLI session, line, files** `cli/core/*` | session, accepted identity; consent, history; configuration files | concurrent logins; scoped options; kill while writing | developer identities only in developer mode; a line runs as it says; old or new file, never half | CliSession, CliLine, CliConfig |
| **CLI App commands** `cli/modules/app.ts` | plan, snapshot, staging lease, task | the Catalog, the file and the App change meanwhile | `install` submits what was shown; what is staged is released | AppInstall |
| **PIKG** `cli/modules/pikg*.ts` | dapp_meta, dapp_dist, temporary and previous directories; archives | overlapping builds and packs, kills, edits while archiving, foreign archives | a package is one build; the document decides its payloads; an archive reads back | PikgGraph, PikgBuild, TarArchive, ZipArchive |
| **NDN objects** `ndn_types.ts` | none | several codecs, aliases, defaults, inline or referenced children | an id names one thing whoever encodes and decodes it | NdnIds, NdnMessages, NdnObjects |
| **Object URLs** `object_url.ts` | none | escapes, aliases, Zone hosts | addresses are canonical, a key names one object | ObjectUrl |
| **System configuration** `system_config_client.ts` | version cache | reads that overlap writes | nothing but an overlapping read is older than an own write | SystemConfig |
| **SN** `sn_client.ts` | URL, token, probe fetch | several spellings of a URL, unbounded documents | the mount stays, a document that is used can be probed | SnProbe |
| **Mirror clients, names, media metadata, content, login messages, hosts** | none, or the service's | none of order | - | not modelled, see 7 |

How they interact: every service client calls through the kRPC client, which asks the
browser session (or the managed one) for a token before each call; an import selection
becomes the import session, which asks for a token once before finalize. `watchControl`
reads NFSP's watch stream; `waitNotify` and the CLI's `waitForTask` read KEvent readers and
fall back to polling. The BNS executor calls the BNS client (queries, `submit_raw`) and the
SN client (proxy). App frames run in the pages whose sessions the browser session models.
App installation waits with `waitForTask` and verifies packages with `inspectPikg`. The CLI
calls offline activation.

## 2. Modules

```
ImportContract  <--refines-- ImportSession      <- ImportSession_proofs
BnsLedger       <--refines-- BnsExecutor        <- BnsExecutor_proofs
                             BrowserSession     <- BrowserSession_proofs
                             OfflineActivation  <- OfflineActivation_proofs
KEventNative    <--extends-- KEventSubscription

MCWaits    INSTANCEs  AppFrame PreviewEmbed KEventSubscription KEventBrowser
                      WatchControl NotifyAnswer TaskWait           <- MCWaits_proofs
Clients    INSTANCEs  NfspSession NfspUpload TaskRunner NotifyAnswer ManagedSession
                      ExecutorStream SystemConfig NdnMessages NdnObjects ImportSelection
                      AiwsBuild CliLine CliSession CliConfig AppInstall PikgBuild
                                                   <- Clients_proofs, Sessions_proofs
MCClients  EXTENDs    Clients, and
           INSTANCEs  SnProbe ObjectUrl NdnIds PikgGraph TarArchive ZipArchive
                                                                   <- MCClients_proofs
```

`ImportSession`, `BrowserSession`, `BnsExecutor` and `OfflineActivation` are checked as they
are: a configuration gives their constants values. `MCWaits` and `MCClients` each check many
modules in one run. The components in them share nothing and take no part in each other's
steps, so their product would multiply states without a new behaviour. Instead `part` says
which component a behaviour is of, and slots `s1`, `s2`, ... hold that component's
variables: the state space is the disjoint union of the components' own, each started from
its `Init` and moved by its `Next`. A property of the run has one conjunct per component
it is about, guarded by `part`; temporal properties and fairness are guarded the same way,
so that each component has exactly the fairness of its own specification. Where `Parts` is
a constant of the configuration, a single component can be looked at by naming it there.

`Clients` is the generic half of that run: the components whose constants are left open, with
the named assumptions about them (section 5). `MCClients` adds the values that a run gives
them, the components that are about texts and contents given there, `Init`, `Next` and the
composed properties. `Clients_proofs` and `Sessions_proofs` have the inductive invariants of the
components and what every action does to them: the second those of `ManagedSession`,
`CliSession`, `CliLine` and `ImportSelection`, the first those of the others. `MCClients_proofs`
has the theorems about the run's properties.

The last sections of the modules that `MCWaits` instantiates ("The inductive invariant", "What
every step keeps") hold what its proofs need (`IInv`, `NativeInv`, `SubInv`, `WaitInv`) beside the
properties, so that TLC can check them before anything is proved.

Definitions commented "Seeded" are plausible bugs: no specification uses them, each one
replaces the definition that follows it to show that a property notices.

### Sessions and uploads

**ImportSession, ImportContract** (`ndm_client.ts` l.1571-1643, 1743-1978).
`objectStatus`, `uploadStatus`, `promise`, `aborted`, `bind`, `binding`, `registry` are the
session's fields; `index`, `failure` and `tasks` are the local variables that the closures
of `doUpload` share; `pc` and `at` say where each `worker()` is. A worker at `top` or
`chunk` is inside one synchronous stretch, and `Idle` keeps everything else out until it
awaits. `promise` has a state `settled` for the microtasks between `.catch` and `.finally`,
where a second `startUpload` still sees the old promise. A chunk is one task per attempt
(`chunkTasks`): lookup, prepare, TUS upload, each with success, failure and abort. The
server may answer in any way the client tells apart, or never; `stored` and `finalized` are
what it holds. `attempt` and `sentIn` record history for the properties. `ImportContract`
is what `doc/ndm_client.md` promises, without chunks, workers or requests.

**ImportSelection** (`ndm_client.ts` l.499-826, 1003-1645, `internal/hash_worker.ts`). What is picked
or handed over is checked, looked up by its quick hash, hashed by the worker or, when that
fails or times out, by the page from the start, and put together: items, chunks to send,
manifest, links, the registry entry from which ImportSession starts. `sel` is the
selection, `done` the files materialised, `pieces` the chunks of the current one.

**BrowserSession** (`runtime.ts` l.869-1117, `sdk_core.ts` l.394-573). `Tabs` are pages of
one origin that share `identity`, `userInfo` and the `cookie`. Each page has its token
(with the revision it was asked under), `authStateRevision`, the refresh promise, the
requests in flight, the renewal timer and its ticks, and calls of three kinds. `Drained` is
the microtask rule: what is ready runs before the next network answer or timer. Pages are
separate processes with no such rule between them, so that a record in `localStorage` may
change between a call's `await` and its read.

**ManagedSession** (`sdk_core.ts`, `runtime.ts` l.714-902 and 1071-1383, `krpc_client.ts`, `verify-hub-client.ts`). A token is
where it came from: the environment or a local signature, the n-th pair of verify-hub, or
the application. `actor` is whatever waits at once: an `initBuckyOS`, a call, a login, a
renewal tick. Nothing shares a renewal, so that answers land in any order. `client` is the
application's kRPC client, whose request carries a token and a number.

**CliSession** (`cli/core/auth.ts`, `identity.ts`, `development_mode.ts`, `runtime.ts`).
Credentials in their order, identities found on disk and tried one by one, developer mode
asked of the Zone, a password; `caller` is the connect of the tool's start, a call that looks
at the time its session has left, before and after it connected (`ensureValid`), or a reconnect
after a rejection, and calls overlap. A token lives for `Lifetime` steps of the clock; one that
ends within the next step, the code's fifteen seconds, is made anew or refused.

**NfspSession, NfspUpload** (`nfsp.ts` l.622-1200, 1280-1345; 800-901). A write takes
`++seq`, keeps its number over two repetitions, and posts; `net` holds requests whose sender
may have given up; `memory` is the service's replay window of a session and `effects` counts
executions. hello() and bye() may overlap the writes and each other. `NfspUpload` resumes an
upload from the offset the service tells while chunks of an earlier attempt may arrive.

### Events, frames and waits

**KEventNative, KEventSubscription** (`kevent_client.ts` l.360-373, 566-865 and 943-1020). A call of
the native protocol client waits its turn in `serial`, connects if there is no socket,
writes and waits in `pending` for the next frame. A break may come at any time and, with
`MidFrame`, inside a frame; `buffer` is then `stale`, because nothing empties `readBuffer`.
`KEventSubscription` extends it with the loop (create, pull, callback, finally, delay) and
the application's `close()`, each with its own control point. `MCWaits` has one instance of
it for both parts: in `native` the pulls `p` and `q` and a `close()` are made by hand, in
`subscription` by the loop, whose pulls are those of `run`.

**KEventBrowser** (l.254-562, 917-923). `creating` is `createEventReader` up to the
acknowledgement, `stream` its stream task, `items` and `waiters` the `AsyncEventQueue` that
pulls with or without a time limit empty; abort and close at any time.

**AppFrame, PreviewEmbed** (`app-frame.ts` l.22-197, 237-340). Two FIFO channels, because
`postMessage` keeps order. A reload replaces the frame's state and empties the channel to it
(the old document is gone). `request[r]` is the host's promise with its time-out,
`handler[r]` the App's handler, and `consent` records what handlers really allowed. The
preview page says hello repeatedly until its App has answered, the App answers every hello.

**WatchControl** (`aiws_ext.ts` l.894-926, `nfsp.ts` l.1210-1275). `loop` is what the loop awaits;
an event restarts the debounce `timer`, which queues a check behind the chain of checks that
run; a check reads the sources and builds when they differ from the last ones. `deaf` is a
stream that was opened without looking at the signal again.

**TaskWait, TaskRunner, NotifyAnswer** (`cli/core/task.ts`, `cli/modules/task.ts`,
`task_mgr_client.ts`, `msg_center_client.ts`). The task manager applies one call at a time
and refuses a write on another revision. `TaskWait` is the command with its reader, polls and
deadline; `TaskRunner` two instances of an App fenced by the snapshot they read;
`NotifyAnswer` several users who answer (`commitNotifyAnswer`, three attempts) and
`waitNotify` with its growing interval. `Ask` is any other method of the message centre: it
returns only an answer of the shape the client checks for.

### Services, commands and data

**BnsExecutor, BnsLedger** (`bns_tx_executor.ts`, `bns_evm_tx.ts`). `queue` and `served` are
`localExecutionTail`; a local call reads the document, asks for the pending count if
`nextNonce` is empty, signs and submits. The node takes a transaction late, loses it, rejects
a used nonce, mines in nonce order, evicts, and takes transactions sent with the same key by
others; the registry refuses an outdated `expectedVersion`. `BnsLedger` is one document on
which every operation takes effect once and in full.

**ExecutorStream.** One socket, requests by number, frames in parts; `ledger` is what the
executor executed and `files` the locators on disk, which a later process queries.

**SystemConfig.** `store` numbers the states of a key, `cache` is `configCache` with its ten
seconds, `call` what each caller waits for; `done` and `answer` are history: what a caller knew
when a read began, where its answer came from and when that was put.

**SnProbe.** The URL as callers have it, the fetch of the probe configuration with its
bound of size and time, the checks of a document, region hints, and the calls: channel,
token, and the fields the SN would deny.

**OfflineActivation** (`provision_activate.ts`). Each run of `activateOfflineZone` has a
control point between any two accesses to the disk: read the lock, check, lock, recheck, save
the key, update the lock, then write and record each planned file, mark committed, unlock.
Every step may fail or be the last one of a killed process. `State` is
`inspectActivationRoot`. The content of a file is the run that wrote it; `Consistent` stands
for `validateActivationMaterials`, which compares keys and names that only one run's files
share. Three public documents of the device, written one after another into one directory,
are one entry of `PlannedFiles`. Recovery by hand (`CleansFiles`, `RemovesLock`,
`DeletesBackup`) happens while no run holds the lock, with the node daemon stopped.

**AiwsBuild.** A folder, its `.aiws-build.json`, the Workspaces and the tools that build and
pull; `had` and `lost` are history. **CliLine**: a line from its words to the contexts a
handler got (`ran`), in a session whose connection is frozen. **CliConfig**: files,
temporary files and processes that may be killed at each call of the host. **AppInstall**: one
command at a time over a Catalog, a package file and an installation that change under it.

**PikgGraph** has a package as its documents and payloads and `inspectPikg` over packages put
together of several builds. **PikgBuild** has `dapp_meta`, `dapp_dist`, the directories beside
them, and the four commands, step by step. **TarArchive** and **ZipArchive** write and read
containers cell by cell, with edits of the sources during the writing, chunk ends anywhere
and damage.

**NdnIds, NdnMessages, NdnObjects, ObjectUrl** have conversions: each is an operator that
returns the set of what it may return (`{}` is an error), and the next-state relation passes
an id, message, object or address on through them, so that an invariant says that encoding
and decoding in any order keep it.

## 3. Runs

| Run | Question | Bounds |
| --- | --- | --- |
| `import_session` | Do finalize, `ready`, settling, retry, cancel and abort keep their promises, and does every call return? | 2 workers, 3 files (two share a chunk, one is a QCID hit), 2 callers, 2 attempts |
| `import_once_in_session` | violation, see 6 | 1 worker, 2 files with the same chunk |
| `browser_session` | Can an old answer bring back a session the page has left, or its records? One refresh at a time; does every call return and renewal end? | 1 page, 1 call at a time next to ticks, 2 revisions, 2 accounts and an External session |
| `browser_account_pages` | violation, see 6 | 2 pages |
| `bns_executor` | Nonces and order (`NonceOrder`), no lost update, every call returns | 3 calls (add, replace, remove), 3 sets of clients, 1 outside transaction, 1 eviction |
| `activation` | One run at a time, the gate last, the key first, an honest status | 3 runs, 2 backup paths, every failure and kill |
| `waits` | Eight components that wait; see below | in `MCWaits.tla`, at each INSTANCE |
| `kevent_sub_retry` | violation, see 6 | the subscription with 1 event, 1 break inside a frame |
| `clients` | Twenty-two clients and tools; see below | in `MCClients.tla`, at each INSTANCE |
| `aiws_two_tools` | violation, see 6 | 2 tools on one folder, no edits by the user |
| `config_stale_read` | violation, see 6 | 2 callers, 2 keys, one of them cached |
| `app_upgrade` | violation, see 6 | 2 versions, 2 commands |

What the properties of `waits` say, component by component:

* `FrameAgrees`: shell and App page agree on focus and title once no message is under way,
  and a window is closed only when the App's own handler allowed it; App and preview agree
  on the look and the state. `ConnectsInTime`: a page still saying hello to a listening shell
  is connected. Bounds: 1 request, 2 hellos, 1 reload, 1 focus change, 1 title; 2 documents
  of the preview, 3 posts.
* `EventsInOrder`, `ClosedLeavesNothing`: the native reader with 2 pulls, 2 events, 2
  breaks; the browser's with 2 pulls and 4 frames (acknowledgements, events, errors, broken ones); the
  subscription with 2 events and 2 breaks. `OneAtATime` has one reader of a subscription and
  one build of a watched folder. `SubscriptionGoesOn`: as long as frames are whole, a
  subscription that lost its reader makes another, and `close()` returns unless the daemon stays
  quiet for ever on the pull that `unregister_reader` waits behind.
* `FolderIsBuilt`: the watched folder with 3 changes, 2 broken streams, 1 failure.
* `WaitsAreTrue`, `WaitsReturn`: waitForTask with a deadline of 2 polls and 3 revisions,
  waitNotify with a deadline of 7 steps and intervals up to 2; the browser reader's abort and
  watchControl's abort while a stream is open.

And those of `clients`:

* `WritesLandOnce`: 2 writes over 3 attempts each, 2 hellos, a window of 1; an upload of 3
  pieces in chunks of 2 with 3 tries; a configuration with 2 callers, 2 keys (one cached) and 2
  writes. Of the configuration it says that a client reads older than it wrote only from the
  cache, what was read before its write was answered and was kept after that answer; that this
  does happen is the run `config_stale_read`. `OutcomesAreTold`: 2 runners and 3 revisions; 2 users and
  3 changes, and any other method alone; 1 operation over 2 streams and 3 requests.
* `SessionsAreHonest`: 2 actors, 2 pairs; 2 overlapping calls, identities `o1` (also a
  developer's), `d1`, `d2`, a search limit of 2.
* `AddressesAreUsable`: 7 spellings of an SN's URL and documents that break each rule by
  itself, in bounds scaled from the code's; some 400 spellings of object addresses in pairs; ids
  of every type with hashes of up to 2 bytes.
* `IdsNameOneThing`, `SameChildrenSameId`: messages that differ in every field alone and in
  those read together; objects of every type, a directory of 2 names.
* `SelectionIsWhole`: up to 3 files in every mode, worker or page, 6 kinds of lookup answers.
* `NothingUnseenIsReplaced`: 1 tool, 2 Workspaces, 2 files, 2 revisions, 1 edit.
* `RunsAsSaid`: 18 lines by 8 sets of globals, 3 lines a session, a history of 2. The history
  keeps no line that a command of the tool would run with a secret option; a mistyped command's
  line, `shair --key k`, it does keep (`history.ts:50` looks the command up).
* `InstallsWhatWasShown`: 2 versions, 2 commands, 7 ways to name a source. It is about `install`,
  and about what is left staged by every command: nothing, unless the task that takes it goes on,
  or the release or the answer to the staging was refused. `upgrade` is the run `app_upgrade`.
* `PackagesAreWhole`: the folder of a control at, below and above the limit for carrying it
  inline; 4 builds and 2 replaced parts; builds, packs, clean and init in four
  groups of 2 or 3 processes; directories of 2 entries of 8 kinds; ZIPs of 2 entries.
* `FilesSurvive`: 2 processes on one configuration; the same groups for `dapp_dist`.

Why these bounds are enough to be interesting. Two workers and a shared chunk give both
ways a worker meets another's task (pending and done), and two attempts every retry; a third
worker or attempt adds no new kind of meeting. Two pages are what it takes to interfere
through storage (`browser_account_pages`), two revisions to make a late answer stale after both a logout and a login.
Two breaks let a reader be replaced twice, the second time after a reconnect by
`unregister_reader`. Three calls give the executor a failed call between two that succeed,
and one outside transaction each way to make its nonce or document stale. Three activations
give one that fails, one that has checked before and locks after, and one that starts after
the recovery. Two writes and a window of one make the service forget the first before it is
repeated. Three changes of a task are as many as `commitNotifyAnswer` has attempts. For
processes on one directory, two that write and one that removes reach every pair of steps
between the renames. For data, each rule of a decoder has an input that breaks it alone, and
each field that is read together with another one is varied with it.

`CHECK_DEADLOCK FALSE` is in every configuration because all these systems may stop: once
each bounded call, login, message or command is used up nothing is left to do. That nothing
stops too early is the subject of the liveness properties.

## 4. Fairness

* `ImportSession`: `LocalFairness` says that the event loop runs ready code and that waits
  without a signal (token, file slice, module load) return; it assumes nothing of the server
  except that `fetch` and TUS honour an aborted signal. `AttemptsEnd` has `ServerAnswers` as
  an explicit premise for what it says of calls, since `ensureUploaded` has no time-out.
* `BrowserSession`: `AnsweredSpec` gives weak fairness to what the event loop runs and to the
  server's answers. The timer and the arrival of an answer have strong fairness: each waits
  for `Drained` moments that recur but do not last.
* `BnsExecutor`: weak fairness of each call's own next step or answer. Nothing in the code
  has a time-out, so that "every request is answered or fails" is an assumption.
* `AppFrame`: the browser delivers messages and runs the hello timer.
* `KEventSubscription`: loop, close, calls, frames and the daemon's answers are weakly fair. A pull
  of the loop carries no time-out and nothing interrupts it, so that the daemon need not answer it
  while it has no event: `Quiet` is that state, and `SubscriptionGoesOn` promises that `close()`
  returns only for behaviours that do not stay in it. `unregister_reader` is queued behind the pull
  (`kevent_client.ts:782`, `971`), and on a daemon that stays quiet `close()` does not return.
* `KEventBrowser`: promises settle, a fetch is answered or fails, an abort ends a stream; the
  gateway need send nothing.
* `WatchControl`: the loop and its checks go on; folders need not change, streams need not end.
* `TaskWait`, `NotifyAnswer`: requests are answered or fail and timers run; no task need ever
  end, no event ever come.
* The other components of `clients` have no liveness property, and neither has
  `OfflineActivation`: a run is a straight line.

## 5. Theorems

All proofs hold for any constants that satisfy the modules' named assumptions (types,
non-negative bounds, distinct names); there are no others.

**ImportSession** (`TypeCorrect`, `FinalizeIsSafe`, `ReadyIsBacked`, `SettledIsQuiet`,
`SentOnceInAttempt`, `RetriesReuse`, `ContractImplemented`). None of these is inductive. `Quiet` ties the promise to the phase and
every pending task to a worker that awaits it. `Positions` says what a worker has behind it.
`Claimed` is the heart: every file before `index` is complete, in some worker's hands, or a
failure is recorded, so that when all workers are done without a failure, every file is
complete. `Backed` relates each client mark to the server's store. For `SentOnceInAttempt` a
chunk that was transmitted in this attempt has a task, pending or done, and a task is never
dropped before the attempt ends. `RetriesReuse` (an action property) adds `OwnFiles`: `index`
gives each file to one worker, so that an entry somebody awaits is marked by nobody else, and
a chunk whose entries are all marked has no task that could send it. `ContractImplemented` is
the refinement of `ImportContract`, step by step. It needs `Outcomes`: what the statuses may be
while an attempt runs or is settled, that a cancelled attempt has its signal aborted, and that
a call which waited with success still finds the session ready when it goes on, which is what
makes its answer a step of the contract although other calls ran in between.

**BrowserSession** (`InductiveInvariant`, `TypeCorrect`, `LateRefreshIsDropped`,
`RefreshIsShared`, `RecordsAreTheTokens`). The strengthening is `OneRequest`: a page without a
pending promise has no request in flight. A token is stored under the revision it was asked
for, and each new revision stores another or none. `RecordsAreTheTokens` is about a page that has
the browser to itself: whatever replaces the token replaces both records, and a call that goes
on some microtasks after its token came meets neither an older nor a newer session.

**BnsExecutor** (`TypeCorrect`, `LedgerImplemented`, `NonceInvariant`, `NoncesInOrder`). The refinement to `BnsLedger` for any
number of calls, keys, outside transactions and evictions. `ReadsCurrent`: a version names
one state of the document. `SignsWhatItRead`: a signed version is the one read with the
records. `NothingSentYet`: a call's transaction does not exist before it is signed. Together
with the registry's version check, a mined operation was computed from the document it
replaces.

`NoncesInOrder` is a second invariant over the same steps. `InTurn`: the calls before `served` are
over, the one at `served` is the only one under way. `Told`: a call knows an outcome only of a
transaction that the node has seen. `Cached`: a known
`nextNonce` follows the nonce of the call under way or of one that was accepted. `Filled`: with one
account and nothing evicted, no nonce below a used one, or below one about to be sent, is free.
`Ordered`: the nonces of the accepted calls grow with the queue, and the next is above them.
`Unused`: if moreover nobody else uses the key and every submission was answered, the nonce to be
sent is above all that are used, so that none is refused. A failed call empties `nextNonce`; the
count the next one asks for satisfies the same three.

**OfflineActivation** (`TypeCorrect`, `HoldersExclude`, `GateIsLast`, `KeyIsNeverLost`,
`KeyMeetsBareRoot`, `StatusIsTrue`). `InOrder` says that the root holds exactly the files
before the holder's next one; `KeyFirst` that its key is saved; with `HeldWhileWriting` no
other run can disturb either. `GateIsLast` follows because `node_identity` is the last index;
`KeyMeetsBareRoot` because a run is `cleared` only for an empty root. `StatusIsTrue` needs two
facts more: no file of the identity is there without its directories (`DirsWithFiles`), and the
lock says `committed` only when its holder is done (`StageFollows`).

**NfspSession** (in `Clients_proofs`: `NfspInvariant`, `NoNumberTwice`, `WritesExactlyOnce`; they state the
two parts of `WritesLandOnce` that speak of this module). For any number of calls, sessions,
hellos and any window. A session is new to the page when it is entered (`NewToPage`) and the
counter is ahead of its calls (`Ahead`), so that a number of a session names one write; what
the service remembers under it is that write (`MemoryIsOfCalls`), executed once
(`OncePerMemory`). Delayed requests are covered because a request carries its call's number
whichever attempt it is of (`RequestsOfCalls`).

**MCWaits** (`FramesAgree`, `EventsComeInOrder`, `ClosingLeavesNothing`, `FolderGetsBuilt`,
`WaitsAreHonest`, `OneReaderAndOneBuild`): every safety property of the run `waits`, for all
requests, pullers, documents, deadlines, numbers of changes and breaks. `PartSteps` reduces each
theorem to one component: a step of the module is a step of the part's own component. Then:

* App frames: `FocusFollows`, `TitleFollows`: the last word under way, or else what the other
  side holds, is what was set. `WelcomeFirst` keeps them over a reload: nothing is said to a page
  before its hello. `YesIsMeant`: only a handler says yes. `LookFollows` and `StateFollows` are the
  first two for previews.
* Watched folders: `ChangesAreFound`: a change of the sources is about to be found by an event,
  the timer or a check, or was missed, or something failed. `BuildsFollow`: builds never run
  ahead of the folder nor behind what was built.
* Waits: `EndIsFinal`, `ShownIsReported`, `RetriedFailed` of TaskWait and `ClosedIsFinal` of
  NotifyAnswer relate what the command holds to the task as it is, whichever of event, poll and
  deadline comes first.
* KEvent, native: `Chained`: the promise chain holds each outstanding call once and only its
  first has begun; `OnTheWire`: what is on the socket belongs to the one call that was sent;
  `Ordered`: events returned and events the daemon holds are in order; `Registers`: the first call
  of a reader registers it, the last one removes it. Subscription: `LoopOwns`, `CloserOwns`: a
  reader that exists is held by the loop or by the `close()` that takes it. Browser: a pull waits
  at most once (`WaitsOnce`) and only on an empty queue, what was taken and what the queue holds is
  a prefix of what the stream brought (`PullsFollowStream`), and whoever fails to create the reader
  or closes it closes the queue first (`StreamFollows`).

**MCClients** (`WritesLandOnceAlways`, `OutcomesAreToldAlways`, `SessionsAreHonestAlways`,
`InstallsWhatWasShownAlways`, `FilesSurviveAlways`, `IdsNameOneThingAlways`,
`SameChildrenSameIdAlways`, `NothingUnseenIsReplacedAlways`, `RunsAsSaidAlways`,
`SelectionIsWholeAlways`): ten of the twelve properties of the run `clients`, for all values of
the constants of `Clients`. As for the waits, `PartSteps` reduces each theorem to one component;
each component has an inductive invariant, named in brackets:

* Writes. The numbered session's invariant is `NfspInv`. An upload
  [`UploadInv`] is never ahead of what the service has stored, and a chunk ends where the content
  does, so that late chunks of an earlier try cannot lengthen or tear it. The configuration
  [`ConfigInv`]: a cache entry was put while the newest answered write was the one that still
  is (`EntryKnows`), and a read began knowing no state that the service had not (`CallKnows`): an
  answer older than an own write can only be an entry of a read that began before it.
* Outcomes. A runner [`RunnerInv`] knows a revision of its task that is not ahead of the task,
  and each conflict proves one more revision since it began (`Knows`); a terminal task keeps its
  outcome (`Later`). A user's answer [`AnswerInv`]: the k-th attempt is made over at least k
  later revisions, which is why giving up is the truth, and the result of a question is that of
  the user who is recorded for it (`IsResult`). An executor's stream [`ExecutorInv`]: whatever is
  on the wire under a number belongs to the request that waits under it, if one does
  (`OfRequest`), although numbers are given again after a reconnect; who has been told is not
  waiting, and a closed stream has nobody waiting (`SettledInv`).
* Sessions. A runtime's refresh token is of the pair of its token [`ManagedInv`]. A login of the
  tool [`LoginInv`]: what was offered and what is left to offer are disjoint and together within
  the budget (`LeftOver`, `BudgetOf`), where the budget of the developers' directory is what the
  operations' left; that a directory's reading is cut to its limit is a lemma about ranks
  (`RanksFit`).
* Installation [`InstallInv`]: a command's plan, what was shown, what was approved and what is
  sent are the same from one point on (`CommandShows`); a package is held exactly while its
  command has it staged (`CommandHolds`); a copy is of the command that takes it (`CommandCopies`).
* Files [`FilesInv`]: whoever is about to rename has one temporary file, whole and validated.
  That `dapp_dist` is not removed by another command needs no invariant: it is proved of each step.
* Ids [`MessageInv`, `ObjectInv`]: what is kept is the canonical form of itself; reading and
  writing it again by any codec changes nothing (`EncodedStays`, `StoredIsItself`,
  `FetchedIsSame`). `IdsNameOneThingAlways` has the hypothesis `~OddBodies`: a relation whose
  body's `iat` is no number is a case in which the code does not keep the id (section 6), and the
  run leaves it out in the same way.
* AI Workspaces [`AiwsInv`]: a folder had every file of the base it records, a build has read no
  file later than the base it sends. `NothingUnseenIsReplacedAlways` is about one tool in a
  folder; with two the property is false, which is the run `aiws_two_tools`.
* Lines [`LineInv`]: nothing runs before the session is open and its consent given, and a line
  that is about to run was understood. That the words are read as they stand - `--` is never
  passed over as the value of an option, a scoped option holds for its own line, and a required
  argument is there - is proved of the reader itself, word by word.
* Selections [`ImportInv`]: every file that was kept is whole, with its pieces one after another
  from the first byte to the last, and those of the next file follow each other so far. The
  session made at the end is then whole: what is joined from the pieces is the file
  (`BytesAreAll`), each directory object is built after those inside it, and each place of the
  selection holds one thing.

Assumptions about the constants of `Clients`, each checked by TLC for the run's values:
`UploadAssumption` (sizes), `AnswerAssumption` (a user is not called "none" or "other"),
`LoginAssumption`, `FolderAssumption`, `LineAssumption` and `SelectionAssumption` (what is given
as a list is one: directories, files, words, paths, bytes; a word is plain, an option, a `--` or a
request for help; a tree has one root, every directory's parent and every file's directory) and
`FilesAssumption` (the tool has two files).

Three things shape these proofs. Recursion over data is a recursive function, never a RECURSIVE
operator, and what it computes is proved without the induction theorems: the least element at
which a claim fails is taken (`LeastOf`, from the well-foundedness of the naturals) and the one
before it refutes that. `@@` and `:>` of the module TLC are opaque to the prover, so the modules
proved about use EXCEPT and explicit functions. And an instance's operators are opened only
where a step needs them, since a slot `s1` means something else to each component.

### Only model-checked

* Liveness under fairness, which is out of reach of the prover.
* `AddressesAreUsable`: it says what folds over the characters of a URL, of an id and of the
  region hints return, which is induction over several kinds of data at once.
* `PackagesAreWhole`: `PackedIsWhole` is checked for teams of up to three commands on one
  project and is not inductive as it stands: what a pack holds depends on the builds that were
  renamed away under it. The archives are read and written cell by cell by recursive functions,
  and `InlineFits` sums the sizes of a folder, both inductions over their data.

## 6. Findings

Each has a run whose counterexample TLC prints.

1. `import_once_in_session`: `doc/ndm_client.md:84` says that a chunk is transmitted once per
   session. The engine's memory of a sent chunk is per attempt and per entry: a retry
   transmits a shared chunk again when its lookup fails. (`OnceInAttempt` and
   `RetryReusesChunks` are what does hold.)
2. `browser_account_pages`: `getAccountInfo` answers from the `user_info` shared by all pages
   of the origin without comparing it with the token it awaited, although the documentation
   lets each tab be another user and the comment in `sdk_core.ts` says that External sessions
   get `null`. `getCurrentIdentity` does compare.
3. `kevent_sub_retry`: a connection that breaks inside a response frame leaves `readBuffer` as
   it is; the next connection's frames are read as its rest, the answer to
   `unregister_reader` is swallowed, and the subscription that logged "will retry" never does.
   With connections that break between frames it does (`SubscriptionGoesOn`).
4. `config_stale_read`: a read of a cached key that is in flight when a write of the same client is
   answered is put into the cache after the write has dropped the entry; for ten seconds the
   client reads older than it wrote, which the tests say it does not.
5. `app_upgrade`: `upgrade` asks for a confirmation of what may be updated, inspects the source
   again and submits the plan of that inspection; the documentation binds a confirmation to the
   fingerprint of the plan that was shown.
6. `aiws_two_tools`: `buildControl` collects the sources and then reads the record of what
   they are based on; a pull of the same folder that ends in between makes the build of the
   old sources pass the check and replace the version just pulled.

Met on the way, and not made into a run:

* Documented behaviour that the code contradicts. An abort just before the stream of a watched
  control opens is noticed when that stream ends. Between the two renames of `replaceFile` no
  package is there (`doc/modules/pikg.md:155`). The tools an inspection names are those of one
  payload (`pikg_protocol.ts:78`, `878-881`). A scoped option is taken away from a line's own
  words in a session (`argv.ts:174-203`). A rejected login ends the search while candidates are
  left, when its transport reports the rejection otherwise than as the errors the code looks for
  (`cli/README.md:77-79`). A canceled installation may have started its task
  (`doc/modules/app.md:230`). A root with the installer's gateway placeholder is reported
  `unactivated` and ready (`doc/modules/provision.md:74`, `139`), and `activate` refuses it because
  a planned file exists (`provision_activate.ts:1399-1408`).
* Import, frames, browser session: a login during a renewal tick's refresh stops the new
  session's timer until the next call; a rejected `bind` option leaves `uploadStatus` at
  `uploading` without an attempt; an abort during the last file's thumbnail is lost; a frame's
  `onInit` runs once per answered hello; a KEvent callback that awaits its own subscription's
  `close()` waits for itself.
* BNS: `nextNonce` is not kept per account and outlives evictions (the parts of
  `NonceOrder` about gaps and order are therefore stated for one key and no eviction).
* Activation: after the recovery that `recoverySteps` describes, empty identity directories
  keep the root `partial`; if the last update of the lock fails, `activate` reports
  `configured` while `status` says `invalid`; nothing is synchronised to the disk.
* Managed session: a renewal answered after logout restores the session, and a call that had its
  token before the logout is sent with it; a login on a runtime
  that was replaced starts its timer; the pair is stored before the App id is validated; the
  kRPC client of an application does not hear of renewed tokens.
* System configuration: `is_changed` is true again after the entry expired.
* Command line: `waitForTask` only ever polls, since the global it takes readers from is never
  initialised (`doc/modules/task.md:20` says otherwise); concurrent `config set` commands lose
  updates; `config set --profile-name` cannot create a profile; a failing chmod reports failure
  after the file was replaced; an unwritable history ends a session; an identity that another
  call dropped during an `await` is read again (TypeError).
* Packages: a package whose staging answer is refused stays staged (`app.ts:849-872`), and so
  does the import of tools; a killed pack leaves its temporary and `.previous-` files; files the
  user adds during the prompt of `build` are deleted with the old snapshot; a failed write of a
  tar leaves its `.tar-` file; a size or offset that is exactly 0xffffffff is written as a
  number and read as a reference to the ZIP64 field (`AtTheEdge`).
* AI Workspace: a pull keeps files that the snapshot has not, and overwrites edits that were
  not built; a build that was committed and not recorded conflicts with the next one.
* Object URLs: a trailing slash of a `cyfs` alias stays in the resource key and not in the
  endpoint; the DID of an object of the Zone's own host is that of a service of the same name.
* Objects: `RelationObject.toJSON` writes the fields of its body over its own, and
  `fromJSON` drops an `iat` or `exp` that is no number: a relation whose body has such an `iat`
  has another id once it was read and written (`OddBodies`).
* Executor stream: a `closing` or invalid frame (`executor_client.ts:188`, `141-142`) fails the
  pending requests without saying that the effect is unknown, and so no property says that an
  unknown effect is always reported; chunks of a write go on being sent to a closed socket.

## 7. What is abstracted, and what is not modelled

Hashing, encoding, signatures, ABI data, wording and formats are values compared for
equality; hashes are injective. `normalizeSnUrl` and the checks of configuration values are
modelled by the classes they tell apart. Bounds of sizes and times are scaled down.

Left out of modelled components: progress of imports and thumbnails made on demand; the SSO
redirect; `publish` of KEvent; theme and locale messages, `requestClose`, `content.open` and
the check of origins; generation of activation material and the expiry of its documents,
several domains on one root, activation through the node daemon; `validateActivationMaterials`
is "all of one call"; the listing and display commands of Apps and tasks' views; docker payloads
and gzip; relation objects' own methods; selectors of URLs; terminal sessions and transfers of
an executor; `generateSnDeviceToken`; `--input` merging, help and completion. The message
centre's other methods return an answer of their shape, whatever it says. Tokens without an
expiry are not looked at. The power may not fail: files are killed between calls of the host.

Not modelled. **BNS client**: `waitTx` is a poll with a deadline like `waitNotify`, the rest
one call each. **Mirror clients** (AI, buckets, queues, repository, workflow, workspaces, NDM
proxy, stores) keep no state. **Names, identity documents, media metadata, content types,
login messages**: pure functions of one record, mostly of formats defined elsewhere, whose
properties are examples that a unit test shows as well. **Provisioning and certificates**:
files made once, in order, by external cryptography. **Other CLI modules, infrastructure and
hosts**: one call and its printing, or adapters of the operating system. Bundles in `dist/`
are generated.

## 8. Plan

What a later extension should take up, in this order:

1. Proofs of the two properties of `clients` that are only model-checked: an inductive
   invariant of PikgBuild over any number of commands (which directory holds which build), and
   lemmas about joining and reading of sequences from which the archives and the id codec
   follow.
2. An abstract reader that KEventNative and KEventBrowser both refine, and over which the
   subscription, `waitNotify` and `waitForTask` are checked.
3. The composition of ImportSelection with ImportSession, and of the kRPC client with both
   kinds of session.
4. `content.open` and `requestClose` in AppFrame, `waitTx` in BnsExecutor, docker payloads in
   PikgBuild.
