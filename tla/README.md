# Gunshot: specification of the upload engine, the backup requests and the relay

Gunshot replaces the upload path of Google Photos on iOS: originals are exported
from PhotoKit, imported over IPC into a persistent queue kept by a Go engine, and
uploaded by an embedded copy of gotohp. These modules specify the parts that must
not go wrong: the engine in `src/internal/service`, the file replacement it rests
on, the requests of Google Photos that `src/UI/GSBackupRequests.m` hands over to
the engine, the accounts of the engine with the relay that keeps them authorized, the
import of originals and batches of them, and the monitor of completed uploads with what it
stands on: the discovery of the daemon and the service inside the sideloaded app.

    tlc -config QueueFaults.cfg MCUploadQueue      # check one instance
    tlapm UploadQueueProofs.tla                    # check the proofs

## The system

| Component | State | Operations | Talks to |
|---|---|---|---|
| Upload engine (`queue.go`, `types.go`, `protocol.go`) | jobs, options, completion revision, all in `state.json`; in memory: running workers and their cancel functions, import hashes, network conditions, a fault flag | `begin`, `append`, `seal`, `cancel`, `retry`, `retry_failed`, `clear_completed`, `configure`, `conditions`, `upload_summary`; the one-second tick; worker callbacks and completion; `Open`, `Close` | clients by JSON requests, the runner by callbacks, the file system |
| Atomic file replacement (`atomicJSON`, `writeConfigAtomically`) | a temporary file, a directory entry | create, write, fsync, close, rename, fsync of the directory | the file system |
| Accounts and native relay (`upstream.go`, `native_relay.go`, `GotohpCore/*.txt`) | `credentials.json`, one short-lived bearer in memory | add, native add, remove, select; put, get, clear, expiry | engine (under its mutex), runner |
| Runner (gotohp, external, through `facade.go.txt`) | one upload attempt | report phases, send requests through `contextTransport`, return | engine callback, Google |
| Summary (`summary.go`) | none | counts jobs, tells the completion revision | upload monitor |
| Daemon (`Daemon/main.mm`, `cmd/bridge`) | the engine pointer, Mach port, network monitor | initialize, receive, forward, report conditions every 5 s | engine |
| Embedded service (`Jailed/EmbeddedService.m`, `cmd/bridge`) | recorded conditions, a core queue | sample the app, record the path, tell the engine, pass a request on | engine in the same process |
| IPC client, discovery (`Shared/IPCClient.m`, `GSDiscovery.c`) | per request reply port, a reference counted attempt | send (5 s), receive (120 s), late replies | daemon |
| Backup requests (`GSBackupRequests.m`) | a transfer per native request, a counted set of photos being reconciled | start, prepare, import, poll, cancel, reconcile, the native callbacks | engine by IPC, native scheduler |
| Exporter, batch import (`GSExporter.m`, `GSBatchImport.m`) | temporary files, one current batch | export, import, cancel; start, stop | engine by IPC, Photos |
| Upload monitor, Photos integration (`GSUploadMonitor.m`, `GSPhotosIntegration.m`) | last revision and identity, an epoch, synchronizers, a pending refresh | poll, acknowledge, capture, refresh | engine by IPC, Photos |
| Relay client, account connection (`GSNativeRelay.m`, `GSAccountConnection.m`) | in-flight flags, the identity connected | refresh, connect, reconnect | engine by IPC, SSO |
| Panels, glass, localization, scripts | presentation, build | | |

What is hard in it, and therefore what the properties are about:

- *Commits in doubt.* Between the commit request and its answer nobody knows
  whether Google stored the media. Crashes, errors, failed saves and cancellations
  fall into that window; the media must be neither stored twice nor reported wrongly.
- *Saves that fail.* A save may fail before or after its rename. The engine then
  refuses requests and ticks, but uploads already running still report and save.
- *Cancellation against running work.* The mutex is released during the upload;
  requests, conditions, ticks and completions interleave freely between callbacks.
- *Restart.* Recovery has to read from the recorded phase alone what may be repeated.
- *Retry budget, capacity, concurrency limits*, each counted in one place and undone
  in another.
- *Native requests.* The native scheduler starts, cancels, times out and completes a
  request from threads of its own, while a worker exports and uploads its original; several
  requests may be for one photo, and accounts, conditions and routing change meanwhile.
- *Authorization.* The daemon's uploads live on bearers that Google Photos sends, five minutes
  each. The user switches accounts, requests time out and are executed all the same, and either
  process restarts, while a bearer is fetched, queued or tried.
- *Imports.* `begin`, `append`, `seal` and `cancel` may each be lost, or be executed although
  the importer has given up; a source may change while it is sent; an export may take hours.
- *The monitor.* Answers come late, notifications do not come, conditions change while the
  engine is told; a completion that was acknowledged is not reported again.

The full list, each with its line, is in `PROJECT.json` under `hazards`.

## Modules

| Module | What it is |
|---|---|
| `UploadQueue` | the engine: one action per request handler, tick, callback, completion, `Close`, process death and `Open` |
| `UploadQueueProperties` | its type invariant, safety, step and liveness properties, the refinement mapping to `JobLedger`, and the inductive invariant of the proofs |
| `JobLedger` | abstract specification: the durable record of jobs (their life cycle, recorded cancellations, the completion revision) and when and how often media may be committed |
| `JobStates` | what a client that follows a job counts on: provided by `UploadQueue`, assumed by `BackupRequest`, which extends it |
| `MCUploadQueue` | constants for TLC (option records, network conditions, contents) |
| `UploadQueueProofs` | TLAPS proofs about the engine: types, and commits |
| `QueueInvariantProofs` | TLAPS proofs of its other safety properties, of the refinement of `JobLedger`, of what clients are told, and of what its liveness rests on |
| `AtomicFile` | replacing a JSON file, system call by system call, with its properties and inductive invariant |
| `DurableRegister` | abstract specification of a file that is replaced atomically |
| `AtomicFileProofs` | TLAPS proofs about `AtomicFile` |
| `BackupRequest` | native backup requests: one action per block on the main queue, section under `GSLock`, and request or export of the worker |
| `BackupRequestProperties` | its type invariant, safety, step and liveness properties and inductive invariant |
| `MCBackupRequest` | constants for TLC (requests, and the surroundings that occur) |
| `BackupRequestProofs` | TLAPS proofs about the requests |
| `AccountStore` | the daemon's accounts, `credentials.json` and bearer slot: one action per request |
| `NativeRelay` | extends `AccountStore` with the host: sign-on, the relay queue, the connection of an account, and the port between them |
| `NativeRelayProperties` | type invariant, safety, step and liveness properties of the two together |
| `MCNativeRelay` | constants for TLC (emails of the identities) |
| `NativeRelayProofs` | TLAPS proofs about the relay, with their inductive invariants |
| `ImportProtocol` | handing originals over: `GSImportFiles` in several threads, the port, and the engine's import requests |
| `BatchImport` | extends `ImportProtocol` with the batch queue, its user and its account |
| `BatchImportProperties` | type invariant, safety and step properties of the two together |
| `MCBatchImport` | constants for TLC |
| `BatchImportProofs` | TLAPS proofs about imports and batches, with their inductive invariants, and that they implement `AtomicImport` |
| `AtomicImport` | abstract specification: an import as one step, with what it promises as an invariant |
| `AtomicImportProofs` | TLAPS proof of that invariant |
| `Discovery` | one client's attempts to find the daemon, with the memory and send rights they share with late replies |
| `EmbeddedService` | the engine inside the app: what is recorded, what it is told, and when |
| `UploadMonitor` | extends both with the poll of the host and the refresh of the native library |
| `UploadMonitorProperties` | type invariant, safety and liveness properties of the three together |
| `MCUploadMonitor` | constants for TLC |
| `UploadMonitorProofs` | TLAPS proofs about the three, with their inductive invariants |

### UploadQueue and the code

`mem` is `Engine.state`, `disk` is `state.json`, `active` the keys of `Engine.active`,
`cancelled` those whose context has been cancelled, `fault`, `stopped`, `net` the
fields of the same meaning, `hashes` the keys of `importHashes`, `staging` the
directories under `media/`. `waiting` is what `nativeAuthorization` answers: the
native accounts without a usable bearer. Every handler, tick, callback and completion
runs under `Engine.mu`, so each is one action, with the save and the removal of files
it ends in. Where a handler saves several times (the tick, once for every job it
starts) the action covers every point at which one of the saves may fail.

Abstractions:

- A job's resources and fingerprint are one value, its *content*: account, quality and
  bytes. Two fingerprints are equal exactly if all three are. Chunks of an import are
  one action, the one that completes the files (chunks before it change nothing that
  is tested); the check of offsets belongs to the import protocol.
- Ids are numbers in order of creation. The code draws 128 random bits and only ever
  appends to and filters the list, so creation order is queue order and no id returns.
- Backoff is a flag that time clears. The timestamp is in the file too, so time clears
  it there as well. The length of the delay is left out.
- The engine treats `ChargingOnly`/`charging` exactly as `WiFiOnly`/`wifi`, at the
  same places; one flag stands for both.
- Error strings are kept only as far as a property tells them apart.
- `os.RemoveAll` ignores its error, so it may leave files behind.
- The disk is one value. Which of the two contents a failed save has left is chosen
  when it fails, though a later loss of power may decide it: `AtomicFile` has the
  detail and shows that a successful save ends the doubt. Not covered is a start that
  reads an unsynced state, fails to save it, and then loses power.
- Commits, user retries, charged attempts and told revisions are counted by history
  variables that no guard of the engine reads; the bounds on retries, crashes and ids are
  the only guards that are not the code's.

Assumed of the runner, which is external: it reports nothing after "finalizing", sends
the request that commits the media at most once per attempt and only after the
callback for "finalizing" has returned, answers `context.Canceled` only when its
context was cancelled, and returns in the end. `contextTransport` sends nothing once
the context is cancelled; a commit request already under way is covered by the commit
having been sent.

### AtomicFile and the code

One action per system call of `atomicJSON`, each of which may fail, in the order of the
code. The file system is the weakest that POSIX allows: contents not fsynced may
be torn by a loss of power, and the directory entry may fall back to any file it has
named since the directory was last fsynced. `writeConfigAtomically` is the same sequence.

### BackupRequest and the code

`intercepted` are the requests with an associated `GSBackupTransfer`; `cancelled`,
`cancelGo`, `reconciling`, `finished` are its flags, as sets of requests; `account` is its
account and `identityIdentifier`, which `Bind` sets together; `published` says that its
`jobID` is set. `registered` is `GSReconciling`, a counted set, so a number per photo.
`worker` is the next step of the blocks of `GSStart`, with the locals `job` and `completed`;
`canceller` the next step of a call of `cancel`. `native` is the native request itself: not
started, held back while its original goes through Go, looking its fingerprint up on the
server, or ended.

| Code | Actions |
|---|---|
| `GSStart` | `Start`, `StartAgain` |
| first block on the main queue | `Bind` |
| block on the utility queue | `Ask`, `Wait`, `Check`, `Authorize`, `Export`, `Import`, `Publish`, `Heed`, `Poll` |
| last block on the main queue | `Settle`, `Register` (under `GSLock`), `Resume` |
| `cancel` | `CancelBegins`, `CancelLocks` (under `GSLock`), `CancelEnds` |
| `GSFinish` and the completions that run it | `Finish`, in `Fail`, `NativeSucceeds`, `NativeFails` |
| `GSGuard`, the hooks on payloads, `shouldTimeout` | `NativeMisses`, `ShouldTimeout` |

Abstractions:

- `host` is what the request reads of its surroundings: foreground, whether options and
  network permit uploads, routing and its account, the account signed in. It changes at any
  time, to any member of `Hosts`.
- Of the engine a request sees the state of its job, `jobState`. An import makes a new job or
  answers one of the same original (`Duplicates`, as `seal` does), or fails. A cancel is told
  when it is dispatched; what the engine makes of it is its own choice, as in `UploadQueue`.
- Both deadlines, of 24 hours, are exits that are always possible; an answer that does not
  arrive ends a step in an error, or reads as conditions not met.
- The fraction shown as progress, the diagnostic counters, and `GSRoute`, the route for
  versions without these request classes, are left out.
- `asked`, `told`, `succeeded`, `sent` and `delivered` are history.

Assumed of Google Photos, which is external: a request reports success only once its own
start has run, which looks its fingerprint up; a request that has succeeded is not started
again; calls of `cancel` on one request do not overlap. Everything else may come at any time,
from any thread, also late and repeatedly: start, cancel, failures, and payloads sent by
a request that Google Photos makes on behalf of one and that has no transfer of its own.

### AccountStore, NativeRelay and the code

`accounts` is `AppConfig` in memory: the credential of each email (none, a legacy one, or a native
one bound to an SSO identity) and the email selected; `stored` is `credentials.json`. `slot` is
`nativeRelay` with the hidden fact whose bearer it holds. `verifying` says that `account_native`
asks Google, with the engine's mutex held, so that nothing else but an upload's `get` and the
expiry happens in the daemon. `jobs` are the emails with jobs that are not settled.

`viewing` is the identity `GSPhotosIdentity` reads. `lane` is the serial relay queue with its
running task at the head, `step`, `bearer` and `answer` that task's position and locals, and
`calls` the calls of `GSConnectDaemonAccount` that a concurrent queue runs and that have not
entered the relay queue yet. `connecting`, `connected`, `connectionID` and `refreshing` are the
static variables of these names; `attempt` is a result on its way to the main queue. `port` holds
the messages the daemon has not answered, with the owner of the bearer in them and whether the
host still waits.

| Code | Actions |
|---|---|
| `accounts` of `upstream.go`, `native_relay.go` | `AddAccount`, `SelectAccount`, `RemoveAccount`, `TryBearer`, `BearerAccepted`, `BearerRefused`, `RenewBearer`, `UseBearer`, `BearerExpires`; `BeginJob` and `EndJob` for the queue |
| `config_ios.go.txt` | `Saved` and `NotSaved` in each of them; `Reloaded` |
| `GSRefreshDaemonAccount` | `RefreshTick`, `ReadAccount`, `Ask`, `Asked`, `SendBearer`, `SendClear`, `Return`, `RefreshEnds` |
| `GSConnectDaemonAccount` | `Call`, `Take`, `SendBearer`, `SendClear`, `Answered`, `Return` |
| `GSNativeBearer` | `FetchBegins`, `FetchEnds`, `FetchTimesOut` |
| `GSConnectAvailableAccount` | `LoseAccount`, `Connect`, `ConnectEnds` |
| `GSRequest`, the daemon's loop | `Request`, `Abandon`; `Receive`, `VerifyEnds` |

Abstractions:

- A bearer is its owner. A bearer is accepted, and a legacy credential is added, or not: what
  Google is asked is left out. `Upserted` is what gotohp's `upsertCredential` may make of the
  accounts, for it is not in the repository.
- The sign-on authorizes the account signed in when the authorizer is made, and may fail, be late
  or not answer. It never answers with a bearer of another account.
- Timers of one second, five and sixty seconds are actions that are possible when the code asks
  for no more than that time has passed.
- Of a failed save memory keeps the old accounts; the file has either (see `AtomicFile`).
- The lookup and the sending of a message are one step, that succeeds if the port has room or
  fails; so is the wait, that is answered, or abandoned while the daemon still has the message.
- `validated`, `used` and `doubtful` are history.

Left out: the hook that finds the account manager, the account menu, and the direct calls of the
sideloaded build, whose engine shares the process.

### ImportProtocol, BatchImport and the code

`work` is the position and the locals of a call of `GSImportFiles` (and, at "begin", "append",
"seal" and "cancel", that it waits for the answer); `port` the messages the daemon has not
answered, in order, with who still waits; `job` the engine's jobs as far as imports see them, with
the size of each staged file. `current` and `last` are `GSCurrentBatch` and `GSLastBatch`,
`stop`, `processed`, `queued` and `failed` the fields of `GSBatchRun`, `at` the next step
of the block on the batch queue, `files` that its original has been exported.

| Code | Actions |
|---|---|
| `GSImportFiles` | `Begin`, `ReadChunk`, `EndOfFile`, `ReadFails`, `GiveUp` (the `@finally`), `Return` |
| `GSRequest` | `Send` in each of them, `Abandon` |
| `begin`, `appendChunk`, `seal`, `cancel` | `BeginJob`, `AppendChunk`, `SealJob`, `CancelJob` in `Receive` |
| the rest of the engine, the panel | `Uploaded`, `UserCancels`, `DaemonRestarts` |
| `GSStartBatchImport`, `GSStopBatchImport` | `Start`, `Stop` |
| the batch queue's block | `CheckAtStart`, `CheckBefore`, `Export`, `CheckAfter`, `ExportFailed`, `Import`, `Imported`, `End` |

Abstractions:

- Sizes are counted in half chunks: a message carries one chunk, and a write that fails may have
  written half. The offset and size checks of the engine are kept; the bytes are not, for a
  file is written only at its end, from a source that is read once.
- A source that others may write to (`Changing`) ends early or late, at any chunk.
- Saves of the engine succeed here; those that fail, and what they leave, are the subject of `UploadQueue`.
  "queued" stands for pending, preparing, uploading, committing and failed, which imports do not
  tell apart. `clear_completed` is left out: the jobs it drops are settled.
- The answer and the wake-up of the importer are one step, as is the sending of a message that
  finds room or fails, after which the importer sees an error either way.
- `GSCheckBatchAccount` is one action. It reads `stopReason`, then the identity, then asks the
  engine for the selected account; the last can refuse the batch at any time and is a free choice. The account is
  not read while an import runs, and what it has become then is chosen when the import returns.
- A batch without an identity behaves as one whose account stays signed in.
- `reported`, `dropped`, `late`, `stranded` and `seen` are history.

Two losses that the code accepts, and that the properties name: an import whose `begin` was
executed unheard, or whose `cancel` was lost, is `stranded` (it keeps its place until the daemon's next
start, which cancels open imports); and a job whose `seal` was executed unheard is cancelled by the importer
that believes it failed, although another importer may meanwhile have been answered
its id as the duplicate of its own original (`late`; `docs/bulk-import.md:9` asks the user to look
in the native backup state).

`ImportsAreAtomic` maps this to `AtomicImport`: a call there is asked, returned with a job or with
none, or idle (`CallOf`), a job is seen from its seal on (`EntryOf`), and all that goes on between (chunks, the
port, time-outs, jobs not yet sealed) is not seen. The step that queues a job is the daemon's
seal if the importer still waits for it, and then its call returns in that very step; otherwise the job
comes late, and may be withdrawn by the importer that gave up.

### Discovery, EmbeddedService, UploadMonitor and the code

`attempt` are the `GSDiscoveryAttempt`s in memory, with what their caller and their callback still have
to do; `rights` counts the send rights for the daemon. `active` is the state of the application;
`recorded`, `accepted` and `ready` are `GSState` and `GSReady`; `core` and `running` are the
core queue; `online` and `fault` belong to the engine. `foreground`, `last`, `poll` are
`GSForeground`, `GSLastIdentifier` with `GSLastRevision`, and `GSInFlight` with what the block of
the poll holds (whether `GSEpoch` is still its own is `poll.same`); `pending`, `scheduled` and
`captured` are `GSPending`, `GSScheduled` and the accounts in `GSSynchronizers`.

| Code | Actions |
|---|---|
| `GSPoll`, the timer, `GSSetUploadHostForeground` | `TimerPolls`, `HostNotified`, `Completed` |
| `GSRequest` of the jailbreak build, `GSResolveDiscovery` | `LookedUp`, `Resolve`, `Take`, `CallerReleases`, `Served` |
| the XPC callback | `Reply`, `CallbackReleases` |
| `GSRequest` of the sideloaded build | `AsksService`, `RequestRuns`, `RequestAnswered`, `PanelRequests` |
| `GSStart`, `GSSampleApplication`, the path handler | `Starts`, `Notified`, `SampledForRequest`, `PathChanges` |
| blocks of the core queue | `ConditionsBlock`, `RequestBlock`, `ConditionsTold` |
| `GSRefreshNativeLibrary`, `GSFlushRefresh`, `GSCaptureSynchronizer` | `RefreshRequested`, `FlushRequested`, `Flushes`, `Captures` |

Abstractions:

- Wi-Fi and charging travel with the two conditions that are modelled, in the same dictionary.
- The core queue is first in, first out; the model picks any block that waits, which are the same
  but for the reply. `CoreLimit` bounds them.
- A notification of the life cycle may be missed, or come before the application's state has changed.
- An account whose authorization has expired counts as none. The hooks are assumed available
  (`GSSyncAvailable`). Only the poll's own attempts at discovery are modelled; those of other
  requests share nothing with them.
- What the summary answers is the engine's completion revision when it is online and serves, and
  0 for every answer the poll does not use. That revision is `SeenIsDurable`'s in `UploadQueue`.
- `since` and `owed` are history.

One loss that the code accepts: `GSPending` is not kept per account. If the user goes to another
account, its library is refreshed in place of the first one's, and on the way back
the first account's completion has been acknowledged and is not fetched until the next session
(`docs/analysis/backup-routing.md:89`). `owed` is dropped when the user changes the account.

## Runs

| Run | Instance | Shows |
|---|---|---|
| `QueueFaults` | two jobs of the same or of different content, in a queue of two, one or two workers, a store left by an older build or none, one crash, failing saves | what is durable (`CommitIsDurable`, `SeenIsDurable`), workers against states, staged files, deduplication, open imports, the concurrency limit; the durable record implements `JobLedger` |
| `QueueSteering` | one native-account job, pausing and unpausing, three network conditions, lost authorization, `Close`, failing saves, two user retries, two crashes | uploads run only while allowed, the retry budget, commits in doubt neither repeated nor hidden |
| `QueueDraining` | two jobs, one worker, one retry, the network coming and going, one crash | every queued job is settled while conditions stay good; a recorded cancellation of running work settles the job |
| `QueueDuplicateAnswer` | two imports of one original | the first divergence below: expected to be violated |
| `FileReplacement` | four saves of three contents, every failure | the file implements `DurableRegister`, and so is never torn |
| `BackupOverlap` | two requests for one photo, each cancelled once, routing switched on and off | registrations are exact, payloads held back, success confirmed, no early end |
| `BackupSettles` | two requests, one without a photo, with each of the surroundings changing | the import belongs to the owner, cancels meet the publication of the job, a background cancel leaves it, and every request held back is settled |
| `RelayAccounts` | one email, connected by timer or panel, added, removed, uploaded with, saves failing, one restart | unfinished jobs keep their account unless a save failed after its rename |
| `RelayLiveness` | two identities, the timer's and the connection's tasks, bearers that expire, either process restarting once | a bearer is used for its own account only; a connection is reported for the current account only; every attempt to connect ends; the bearer of the account signed in comes back, that of any other goes |
| `RelayBindings` | as `RelayAccounts` | the second divergence below: expected to be violated |
| `ImportBatch` | any number of batches of one photo twice, next to another importer of it; a source that changes, writes that fail, one restart of either process, two imports begun | what is sealed is whole, what is returned is queued and kept, nothing is left behind; progress is true, and an import heeds its owner |
| `HostMonitor` | both builds, two accounts, two attempts at discovery, two completions, two events of app, user, network or engine | attempts and rights are exact; a quiet service goes by what is recorded and, with a poll, converges; no answer crosses sessions; every completion is noticed |

Deadlock is checked in all of them.

*Why these bounds suffice.* The handlers touch one job at a time; jobs interact through
the worker slots, through the one fault flag and `state.json`, and through
deduplication. Two jobs with one or two slots show every interaction through slots and
saves (one job's save fails while the other commits), and fill a queue of two; `seal` compares one
job with the others, so a pair shows it. What depends on the history of a
single job (budget, retries, repeated crashes) is checked on one job with room for two
restarts and two user retries, one more than needed to repeat any phase. `QueueDraining` has
accounts that need no relay: a job waits for authorization just as it waits for the network, and
what that costs it is checked in `QueueSteering`. Four saves are
enough for a file to have three unsynced names at once.

Backup requests meet in two places only: the counted set, and a job that deduplication makes
them share. Two requests for one photo show both, a third adds another of the same; the requests
are interchangeable there, which the run uses as a symmetry (it checks no liveness). Accounts and
surroundings concern one request at a time, so `BackupSettles` has one with a photo, and
surroundings that lack one thing at a time, or have the other account in one place; they change at any step, so
several are reached one after the other. `MaxCancels` bounds calls of `cancel`; the theorems
hold for any number of them, and for all surroundings.

The relay has one slot, one relay queue and one account selected, so two identities are what can be
confused. The timer, the connection and the panel have one task each at most
(`OnePerCaller`, proved), and a message that nobody waits for can only be followed by one that
somebody does. The message that the daemon asks Google about has left the port, so that with
a `PortLimit` of one a late request is being executed with the current one behind it, which is what the
properties of requests are about.
`UsedEmails` are the emails that the settings and uploads use besides, `SavesFail` whether saves may
fail, `PanelUsed` whether the panel's button is pressed, `MaxRestarts` how often the processes
start again: all that a restart loses is lost with the first. The runs switch on what
their property is about, for all of it at once is out of reach; the theorems hold with all of it.

Importers meet in the engine's queue and in the port. `ImportBatch` has the batch, whose source
may change, and one other importer of the same photo, so that each may be the other's duplicate, or fail while
the other succeeds; the second photo of the selection is the first again. Two ids are the
batch's two, or one of each. One file of one chunk shows short, whole and long sources and
partial writes; the number of batches has no bound. `MaxRestarts` is one, of host or daemon.
The theorems (below) hold for any number of importers, originals, files, chunks and restarts.

`HostMonitor` has two attempts at discovery in memory, the first one's reply still due while the second is
made; two accounts, so that an answer can be for the other; two completions, the later one reported or not
with the first; and two events (the app moves, the user changes the account, the app syncs, the panel asks, the path changes,
a save fails), after which what must happen in the end happens. `CoreLimit` of two is a
block that runs, one behind it, and one more. The safety theorems have no such bounds.

*Fairness.* `FairSpec` assumes that the ticker of `Engine.Run` keeps ticking (`Tick`),
that time passes (`BackoffExpires`), that every upload returns (`Finish`: gotohp's HTTP
requests have deadlines, and a cancelled context fails the next request), and that a dead
process is started again by launchd, in the end with a writable store (`Open /\ up'`). Nothing
is assumed of clients, of the network or of the user, and no particular outcome of an upload:
the uploads may fail every time. `QueueDrains` is therefore stated under
`<>[]Healthy(j)`, in terms of what the network and the relay last reported;
`CancelSettles` needs no such premise.

For backup requests `FairSpec` assumes that the dispatch queues run their blocks, that requests
and exports return, that the deadlines of 24 hours pass, and that a call of `cancel` goes to its
end. Nothing is assumed of the native scheduler, the surroundings or the engine: the engine may
never finish a job, and conditions may never be met.

For the relay `FairSpec` assumes that timers fire, that queues and threads run, and that every wait
reaches its deadline: 30 seconds for a bearer, 5 for sending, 120 for an answer. That is all
`ConnectingEnds` needs. `SignOutIsCleared` and `AuthorizationReturns` cannot hold while requests go
on failing, and the code only promises to try again; they are stated under `Reachable`: the daemon,
Google and the sign-on answer, and from some time on nothing fails that is asked for the account
signed in. Nothing is assumed of the user.

For the monitor `FairSpec` assumes that the timer fires, that queues run their blocks, and that requests,
also those given up, end. It is strong for the block of the request and the blocks of the conditions, which stand
in one queue that is first in, first out, where the model picks any that waits. Notifications may be missed, and nobody has
to move the app, sync an account or finish an upload. `ConditionsConverge` and `CompletionIsNoticed`
are stated under what they need to go on holding: that the host polls, that the service is there
or the daemon's answers arrive.

*Divergences.* `docs/device-validation.md:12` says that a duplicate returns the "existing
queued/completed ID". `seal` (`queue.go:135`) compares with every job that is not
cancelled, so a new import is also dropped in favour of a job that has failed for
good, or whose cancellation is already requested. `DroppedForLiveJob` states the sentence
of the checklist and TLC refutes it.

`docs/architecture.md:42` says that "queue account bindings are preserved", and `account_remove`
refuses to remove an account with unfinished jobs (`upstream.go:66`). `RemoveCredentials` undoes a
removal whose save fails in memory only (`config_ios.go.txt:72`); if the save failed after its
rename, the account works until the next start, and a job begun meanwhile has no account then
(`BindingsPreserved`).

Every property of a passing run has a mutant: a definition `Name_WhatIsWrong` next to the
definition it replaces, under which TLC finds the property violated.

## Proofs

For every value of the constants that satisfies `ConstantsAssumption`, with no bound on jobs,
crashes, retries or failing saves other than that they are natural numbers:

- `TypeCorrect`: `Spec => []TypeOK`. (Types are proved, here and below, and therefore in no run.)
- `CommitsAreDurable`: `Spec => []CommitIsDurable`.
- `NoSilentDuplicates`: `Spec => []NoSilentDuplicate`.
- `RevisionsAreDurable`, `UploadsArePermitted`, `WorkersAreMatched`, `DoubtIsReported`, `BudgetIsFair`,
  `FilesAreKept`, `ContentIsUnique`, `ConcurrencyIsRespected`: every other safety and step property of the
  engine's passing runs. `MemoryIsDurable` adds that memory and disk differ only after a failed save.
- `QueueKeepsLedger`: `Spec => KeepsLedger`, the queue implements `JobLedger`.
- `QueueMovesJobsOnward`, `AnswersKept`: what clients are told of a job moves only as `JobStates` says, and is on disk.
- `QueueIsBounded`: the list, in memory and on disk, never outgrows `MaxJobs`, and there are never more than four workers,
  however the limit is lowered while they run.
- `QueueIsAttended`, `CancellationIsHeeded`: no job that is to be uploaded, and no cancellation on record, is ever
  left with nobody to attend to it (the safety half of `QueueDrains` and `CancelSettles`).
- `FileIsNeverTorn`, `FileIsRegister`: `AtomicFile` never shows a torn file and implements
  `DurableRegister`, for any number of saves; from which `ConfirmedSavesAreKept` follows: a save that
  succeeded is what every later read finds, whatever fails afterwards.
- For any finite set of backup requests, any assignment of photos and accounts and any
  surroundings (`RequestAssumption`): `BackupTypeCorrect`, `RegistrationsAreExact`,
  `PayloadHeldBack`, `SuccessAlwaysConfirmed`, `ImportsBelongToOwner`, `CancelsReachEngine`,
  `TransfersEndFirst` and `BackgroundCancelsKeepJobs`: all safety properties of its runs. `NoRequestAbandoned`: a
  request held back and not yet settled has a worker that is still to settle it (the safety half of `TransferSettles`).
- For any identities and emails, several identities to an email included, any port and any number
  of restarts (`AccountAssumption`, `RelayAssumption`): `RelayTypeCorrect`, `BearersAreOwn`,
  `AccountsOutliveJobs`, `ConnectedOnlyCurrent`: all safety properties of its passing runs. `NobodyWaitsInVain`: a task
  waits for an answer exactly while its request is with the daemon. `SelectedAccountIsBound`: the account selected has
  a credential, in memory and in `credentials.json`.
- For any number of attempts at discovery, accounts, completions and blocks queued
  (`DiscoveryAssumption`, `ServiceAssumption`, `MonitorAssumption`): `MonitorIsTyped`,
  `AttemptsAreFreedOnce`, `RightsAreBalanced`, `QuietServiceIsCurrent`, `AcknowledgedStaysPending`,
  `SessionsAreKeptApart`: all safety properties of its run.
- For any importers, originals of one or two files of any size, any selection, port, queue and number of
  restarts (`ImportAssumption`, `BatchAssumption`): `BatchIsTyped`, `QueuedIsWhole`, `ReturnedStaysQueued`,
  `FailureLeavesNothing`, `ProgressIsTrue`, `OwnerIsHeeded`: all properties of its run. `ImportingIsAtomic`:
  `Spec => ImportsAreAtomic`, importers, port and engine implement `AtomicImport`. `AtomicImportIsSafe` is the invariant of
  `AtomicImport`, and `NoOriginalTwice` what the imports inherit from it: never two jobs of one original that both upload.

`NoSilentDuplicate` is not inductive: it counts commits, and says nothing of who may still
commit. `CommitInv` adds what does:

- `CommitBudget`: a job that may still commit, now (its worker has not sent yet), after being
  queued again, or after a restart because the *disk* says it was not sent, has a commit left;
- `CommittingSaved`: a worker that is committing and has not been cancelled has that phase on
  disk. This is where the order "save, then send, and cancel if the save fails" enters;
- `SentCommitting`: once sent, memory and disk both say "committing", so that neither a restart
  nor the error path can queue the job again. No action of a user can take it back while the
  worker runs, for `WorkersRun` says the job is in a running state;
- `FreshIds`, `DownIsIdle`: ids not drawn have no history, a dead process no workers.

The proof has a lemma for each action. Most actions share one argument, `IdleJobStep` or
`HandlerStep`: a save that leaves the jobs with workers alone and moves the others only along
the life cycle preserves `CommitInv`, whichever of the two contents a failed save leaves.
The five that do not are the tick, the phase change, the commit, the completion and recovery.

The other properties of the engine rest on one fact about every step, `MovesStep`: each job, in memory and
on disk, keeps still or makes a move of its life cycle (`Stays`, `Created`, `Queued`, `Begun`, `Phased`, `Ended`,
`Renewed`, `Dropped`, `Cleared`), and the disk stays, or follows memory, or, after a failed save, either. Which
handler made the move no longer matters then. Each property has an invariant of its own above that:

- `InSync`: memory and disk differ only after a failed save, and a dead process has no fault.
- `RevisionInv`: what was told is at most what is on disk, which is at most what is in memory. The middle term is
  what a crash restores.
- `RunningHasWorker`: the half of `WorkersMatchStates` that `CommitInv` does not contain.
- `DoubtInv`: a commit in doubt is reported in memory *and* on disk, so whichever a failed save leaves.
- `Charged` and `FreshCharges`: what is charged, for imports too, and that nothing is charged to ids not drawn.
- `FilesInv`: files are there for what memory may upload and for what *recovery* would make of the disk; the
  second is what the next start needs, and why files go only after the save.
- `DupInv`: no duplicates in memory or on disk, where only the job an older build left may be an unverified original.
- `LedgerInv`: memory is ahead of the disk by moves that `JobLedger` allows in one step (`Ahead`), so that a later
  save, which writes all of memory, is one step of the ledger; a job with a worker is at least queued on disk.
- `StopInv`: a cancellation is asked for only of a job with a worker, which is told; and what the *disk* says of a running
  job that is to be cancelled, memory says too, unless the job is over there. Without the last, a failed save and a
  tick between request and restart could drop a cancellation on record.
- `CompletionInv`: a completion that is not on disk has a revision that is not either. A save that fails after its
  rename makes the disk jump to what memory is, so both are recorded or neither.

`JobStates` is where two models meet. `BackupRequest` knows nothing of the queue but `Onward`, what a job it polls may be
next; `AnswersMoveOnward` says the queue's own answers, across crashes and failed saves, move in no other way.
That its clients are answered from memory and the property speaks of the disk is closed by `AnswersAreRecorded`.

`QueueIsAttended` needs only types and `RunningHasWorker`, and an argument about the tick: `ChosenAreFirst` takes the
*first* job the tick passed over. All eligible jobs before it were chosen, so the places it lacked are theirs and the workers',
and so for every later job. What fairness adds for `QueueDrains` is that places come free and backoffs end.

`ConcurrencyRespected` is about a step. `ChosenFits` takes the last job a tick chooses (`LastOf`): the ones chosen before
it are among those it counted, so that all of them fit.

`FileInv` says that every file a start may read is whole and synced, that the temporary file
has none of the names before its rename, and that it is complete and synced from `close` on.

`BackupInv` is the invariant of the backup requests. That a registration is released exactly once
(`RegistrationsMatch`) does not follow from the flags alone: the increment in `Register` needs that
the request does not hold a registration yet, which is a fact about the step its worker is at
(`WorkerInv`, `LookupInv`). `OneReleased`, `OneRegistered` and `FinishReleasesOnce` count the
holders, one leaving or joining; the rest of the proof never looks at cardinalities.
`CancelInv` is the handshake of `cancelled` and `jobID`: each side writes its own before it reads
the other's. `EndInv` and `OwnerInv` carry what `NotEndedEarly` and `ImportedForOwner` need
through the steps of the worker.

`BearerIsOwn` speaks of the bearers that were used. `OwnBearers`, in the invariant `Base`, says the
same of each place a bearer passes through: the running task, every message whether awaited or not,
and the slot. It holds because a bearer is fetched for the task's own identity only, and because
the slot is never filled but with the id that came with the bearer. `KeepsAccounts` adds to `JobsKeepAccounts` that
the file equals memory until a save was doubtful, which is what the restart needs. For
`ConnectedIsCurrent` the report "ok" has to be traced back to the daemon: `OkIsBound` says that
whenever the connection's task, or its result, holds "ok", its identity is bound; it needs
`OneAwaited`, that the message waited for is that of the running task, so that no late answer is
taken for its own, and `ForConnection`, that the task of the connection is for `connectionID`, which in turn
rests on `OnePerCaller`: a second attempt during the first would change it.

That an attempt is freed once (`NoUseAfterFree`) needs to know who holds it: `AttemptsCounted` equates the
count of each attempt with its holders, the caller of whom there is one (`OneCaller`) and a reply that is
to come, and `Counted` does so for the send rights. `QuietMeansCurrent` rests on `CoreInv`: whenever what the
engine goes by differs from what is recorded, a block is queued or running that will read it again, as the
block reads before it tells. `SessionInv` follows a poll from the session it was made in to its answer.

`ImportInv` is the invariant of imports. `AwaitedMatches` says that a message somebody waits for is the
only one and that of the step its importer is at, so that an answer is never taken for another's; `Known` that
ids not yet drawn are known to nobody. `OneHolder` says that a job has one importer to report or to withdraw
it, and none once a withdrawal is sent; so the importer that hears of a seal is the only one that could take it back,
and `LateUnlessReturned` that who might still withdraw a sealed job did not hear of its seal, which is what
`ReturnedIsKept` needs. `BatchInv` adds the batch's own books: `CountsMatch` (what is shown is
what is counted, and the import under way is of the next original) and `SeenSince` (what was so at some moment since the
export includes what is so now, and everything that is needed once the check has passed). The proof has a lemma for
what an importer does by itself (`LocalKeeps`), one for an answer (`ReplyKeeps`), from which
`append`, `seal` and `cancel` follow, and one each for `begin`, time-outs, uploads and restarts.

`ImportingIsAtomic` needs one invariant more, `LifeInv`: a job is sealed when it is queued and was not told to stop before,
and a job that came late has been queued. The mapping forgets most of the state, so most steps map to `CallsMove` or to
nothing: what an importer does alone changes its own call, a time-out or a death ends calls. The cases that carry the proof
are the seal, which is `Accept`, `ComeLate` or, for a duplicate, `Finds`, by whether its message is awaited
and whether another live job has the original, and the cancellation an importer sends, which is `Withdraw` only because
`LateUnlessReturned` says nobody was told of that job. TLC finds `ImportsAreAtomic` to hold on the instance of `ImportBatch` too, but takes
nearly five minutes for it; it is in no run, therefore, and the theorem stands alone.
`NoOriginalTwice` is not proved of the protocol at all: `AtomicInv` is inductive for `AtomicImport`, where it is
a matter of a few lines, and is carried over by the mapping. In the same way `ConfirmedSavesAreKept` is
proved of `DurableRegister` and holds of the file.

Only model-checked: liveness (`QueueDrains`, `CancelSettles`, `TransferSettles`, `ConnectingEnds`, `SignOutIsCleared`,
`AuthorizationReturns`, `ConditionsConverge`, `CompletionIsNoticed`), which is beyond the prover. What each says of a single
state, that somebody is there whose next step brings the end nearer, is proved where it can be told apart from
fairness: `QueueIsAttended`, `CancellationIsHeeded`, `NoRequestAbandoned`, `OnePerCaller` and `NobodyWaitsInVain` (for
`ConnectingEnds`), `QuietServiceIsCurrent` and `AcknowledgedStaysPending` (for the monitor's two).
The two divergences are TLC's counterexamples, and cannot be theorems.

## Plan

The subsystems with state of their own are modelled, and the safety properties of every passing run are
proved, with the refinements of `JobLedger`, `DurableRegister` and `AtomicImport` and the interface of the queue to
backup requests. What is left, in this order:

1. The eventual end of every import.
2. The pure functions of `summary.go` and `validateState` against reference definitions, and the
   paging of `list`.
3. Loss of power for the directories of staged media (`seal` syncs the files in them only).

## Not modelled

User interface, glass effects, localization, packaging and analysis scripts have no state that
another part depends on. The sideload identity and keychain rewrites adapt platform calls. gotohp
itself is an external module of which only the assumptions above are used; Google's side is not
modelled. Message framing, roles and audit tokens are platform glue in front of `HandleJSON`.
The hooks that correct the label of a photo's original keep no state. Of imports, no liveness is checked: each
request ends within its time-out and each file within its length, but a source that grows is read
until the engine refuses the chunk. `Engine.Close` is modelled although this program never cancels the context of `Engine.Run`.
