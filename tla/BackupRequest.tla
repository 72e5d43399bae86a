--------------------------- MODULE BackupRequest ---------------------------
(***************************************************************************)
(* Native backup requests handed to GoToHP (UI/GSBackupRequests.m): the    *)
(* original is exported and imported, the Go job is awaited, and only then *)
(* does the native request run, to find the media already on the server.   *)
(*                                                                         *)
(* Four kinds of threads meet here.  Blocks on the main queue and critical *)
(* sections under GSLock are one action each; a worker of the utility      *)
(* queue takes one action per request, export or shared property it reads  *)
(* or writes; cancel and the native callbacks may come from any thread.    *)
(*                                                                         *)
(* External: Google Photos, which starts, cancels and completes requests,  *)
(* and completes with success only what its own start has looked up; and   *)
(* the engine, of which a request only sees the state of its job.          *)
(***************************************************************************)
EXTENDS Naturals, FiniteSets, JobStates

CONSTANTS
    Requests, Assets, Accounts,
    Asset,      \* asset of each request: localIdentifier, or NoAsset
    Owner,      \* account in the credentials of each request
    NoAsset, NoAccount, NoJob,
    Hosts,      \* the surroundings that occur, a subset of HostRecords
    MaxCancels  \* bound: calls of cancel per request

(* GSUploadHostForeground; whether the engine's options and conditions permit  *)
(* uploads; GSNativeRoutingEnabled and GSNativeRoutingAccount; and the account *)
(* signed in natively, NoAccount if none is valid.                             *)
HostRecords ==
    [foreground : BOOLEAN, allowed : BOOLEAN, routing : BOOLEAN,
     destination : Accounts, viewing : Accounts \cup {NoAccount}]

ASSUME RequestAssumption ==
    /\ Asset \in [Requests -> Assets \cup {NoAsset}] /\ NoAsset \notin Assets
    /\ Owner \in [Requests -> Accounts] /\ NoAccount \notin Accounts
    /\ NoJob \notin Requests
    /\ IsFiniteSet(Requests)
    /\ Hosts \subseteq HostRecords
    /\ MaxCancels \in Nat

VARIABLES
    host,        \* the surroundings
    intercepted, \* requests with an associated GSBackupTransfer
    cancelled, cancelGo, reconciling, finished,  \* its flags, as sets
    account,     \* its account and identityIdentifier
    published,   \* requests whose transfer.jobID is set
    registered,  \* GSReconciling: how often each asset is registered
    worker,      \* next step of the transfer's blocks
    job,         \* the worker's local job, NoJob at first
    completed,   \* the worker's local completed
    canceller,   \* next step of a cancel under way
    native,      \* the native request: "new", "held", "looking" or "ended"
    jobState, jobAccount, \* the engine: the job made by a request's import
    cancels,     \* cancel calls made so far
    asked,       \* history: requests cancelled in the foreground
    told,        \* history: requests whose job the engine was told to cancel
    succeeded,   \* history: requests natively completed with success
    sent,        \* history: requests whose payload went out natively
    delivered    \* history: jobs that have ever been completed

flags    == <<cancelled, finished, registered>>
transfer == <<account, published, job, completed>>
engine   == <<jobState, jobAccount, delivered>>
stopping == <<cancelGo, canceller, cancels, asked>>
outcome  == <<succeeded, sent>>
vars == <<host, intercepted, flags, reconciling, transfer, worker, stopping,
          native, engine, told, outcome>>

Init ==
    /\ host \in Hosts
    /\ intercepted = {} /\ cancelled = {} /\ cancelGo = {}
    /\ reconciling = {} /\ finished = {} /\ published = {}
    /\ account = [r \in Requests |-> NoAccount]
    /\ registered = [a \in Assets |-> 0]
    /\ worker = [r \in Requests |-> "none"]
    /\ job = [r \in Requests |-> NoJob]
    /\ completed = {}
    /\ canceller = [r \in Requests |-> "none"]
    /\ native = [r \in Requests |-> "new"]
    /\ jobState = [r \in Requests |-> "none"]
    /\ jobAccount = [r \in Requests |-> NoAccount]
    /\ cancels = [r \in Requests |-> 0]
    /\ asked = {} /\ told = {} /\ succeeded = {} /\ sent = {} /\ delivered = {}

-----------------------------------------------------------------------------
(* What several steps have in common. *)

(* Mutant: a plain set, from which one removal takes every registration. *)
Release_All(r) == [registered EXCEPT ![Asset[r]] = 0]

(* removeObject: on the counted set. *)
Release(r) == [registered EXCEPT ![Asset[r]] = IF @ > 0 THEN @ - 1 ELSE 0]

(* GSFinish, which every native completion callback runs first. *)
Finish(r) ==
    IF r \in intercepted \ finished
    THEN /\ finished' = finished \cup {r}
         /\ registered' = IF r \in reconciling \ cancelled
                          THEN Release(r) ELSE registered
    ELSE UNCHANGED <<finished, registered>>

(* GSFail: the native request is completed with an error, through GSFinish. *)
Fail(r) == Finish(r) /\ native' = [native EXCEPT ![r] = "ended"]

Goto(r, step) == worker' = [worker EXCEPT ![r] = step]

(* GSCanPrepare; an upload_summary that is not answered reads as not allowed. *)
CanPrepare == host.foreground /\ host.allowed

(* GSStillAuthorized and GSNativeIdentityMatches, read on the main queue. *)
IdentityMatches(r) == host.viewing = account[r]
StillAuthorized(r) ==
    r \notin cancelled /\ host.routing /\ host.destination = account[r] /\ IdentityMatches(r)

(* GSBlockNative *)
BlockNative == host.routing \/ \E a \in Assets : registered[a] > 0

-----------------------------------------------------------------------------
(* The native scheduler calls start (GSStart). *)

Original(r) == native' = [native EXCEPT ![r] = "looking"]

(* The transfer exists: only a request in reconciliation goes on natively. *)
StartAgain(r) ==
    /\ native[r] = "ended" /\ r \in intercepted \cap reconciling
    /\ r \notin succeeded
    /\ Original(r)
    /\ UNCHANGED <<host, intercepted, flags, reconciling, transfer, worker,
                   stopping, engine, told, outcome>>

Start(r) ==
    /\ native[r] \in {"new", "ended"} /\ r \notin intercepted \cup succeeded
    /\ \/ /\ \/ ~host.routing
             \/ Asset[r] # NoAsset /\ registered[Asset[r]] > 0
          /\ Original(r)
          /\ UNCHANGED <<intercepted, worker>>
       \/ /\ host.routing /\ Asset[r] = NoAsset
          /\ native' = [native EXCEPT ![r] = "ended"]
          /\ UNCHANGED <<intercepted, worker>>
       \/ /\ host.routing /\ Asset[r] # NoAsset /\ registered[Asset[r]] = 0
          /\ intercepted' = intercepted \cup {r}
          /\ native' = [native EXCEPT ![r] = "held"]
          /\ Goto(r, "binding")
    /\ UNCHANGED <<host, flags, reconciling, transfer, stopping, engine, told,
                   outcome>>

(* Main queue: the request is bound to the account of its credentials. *)
Bind(r) ==
    /\ worker[r] = "binding"
    /\ \/ /\ r \in cancelled
          /\ Goto(r, "ended")
          /\ UNCHANGED <<account, flags, native>>
       \/ /\ r \notin cancelled
          /\ ~(host.viewing = host.destination /\ host.viewing = Owner[r])
          /\ Goto(r, "ended") /\ Fail(r)
          /\ UNCHANGED <<account, cancelled>>
       \/ /\ r \notin cancelled /\ host.viewing = host.destination /\ host.viewing = Owner[r]
          /\ account' = [account EXCEPT ![r] = host.destination]
          /\ Goto(r, "asking")
          /\ UNCHANGED <<flags, native>>
    /\ UNCHANGED <<host, intercepted, reconciling, published, job, completed,
                   stopping, engine, told, outcome>>

-----------------------------------------------------------------------------
(* The worker prepares the original.  An error skips to "settling". *)

prepared == <<host, intercepted, flags, reconciling, transfer, stopping, native,
              engine, told, outcome>>

(* accounts and options are requested; the selected account must match. *)
Ask(r) ==
    /\ worker[r] = "asking"
    /\ \E answer \in {"waiting", "settling"} : Goto(r, answer)
    /\ UNCHANGED prepared

(* The loop ends: conditions are met, the request is cancelled, or 24 hours   *)
(* have passed; or options are not answered.                                  *)
Wait(r) ==
    /\ worker[r] = "waiting"
    /\ \E next \in {"checking", "settling"} : Goto(r, next)
    /\ UNCHANGED prepared

(* Conditions are read once more, whatever ended the loop. *)
Check(r) ==
    /\ worker[r] = "checking"
    /\ Goto(r, IF CanPrepare THEN "authorizing" ELSE "settling")
    /\ UNCHANGED prepared

(* dispatch_sync to the main queue before the export, and again after it. *)
Authorize(r) ==
    /\ worker[r] \in {"authorizing", "reauthorizing"}
    /\ Goto(r, CASE ~StillAuthorized(r) -> "settling"
                 [] StillAuthorized(r) /\ worker[r] = "authorizing" -> "exporting"
                 [] OTHER -> "importing")
    /\ UNCHANGED prepared

Export(r) ==
    /\ worker[r] = "exporting"
    /\ \E result \in {"reauthorizing", "settling"} : Goto(r, result)
    /\ UNCHANGED prepared

(* Jobs of the same original that the engine's seal may answer instead. *)
Duplicates(r) ==
    {q \in Requests : /\ jobState[q] \notin {"none", "cancelled", "cleared"}
                      /\ Asset[q] = Asset[r] /\ jobAccount[q] = account[r]}

(* Mutant: the import goes to the destination of the moment. *)
Import_Current(r) ==
    /\ worker[r] = "importing"
    /\ job' = [job EXCEPT ![r] = r]
    /\ jobState' = [jobState EXCEPT ![r] = "live"]
    /\ jobAccount' = [jobAccount EXCEPT ![r] = host.destination]
    /\ Goto(r, "publishing")
    /\ UNCHANGED <<host, intercepted, flags, reconciling, account, published,
                   completed, stopping, native, delivered, told, outcome>>

(* GSImportFiles: a new job, one that exists, or an error. *)
Import(r) ==
    /\ worker[r] = "importing"
    /\ \/ /\ job' = [job EXCEPT ![r] = r]
          /\ jobState' = [jobState EXCEPT ![r] = "live"]
          /\ jobAccount' = [jobAccount EXCEPT ![r] = account[r]]
          /\ Goto(r, "publishing")
       \/ /\ \E q \in Duplicates(r) : job' = [job EXCEPT ![r] = q]
          /\ Goto(r, "publishing")
          /\ UNCHANGED <<jobState, jobAccount>>
       \/ Goto(r, "settling") /\ UNCHANGED <<job, jobState, jobAccount>>
    /\ UNCHANGED <<host, intercepted, flags, reconciling, account, published,
                   completed, stopping, native, delivered, told, outcome>>

-----------------------------------------------------------------------------
(* The worker publishes its job and follows it. *)

(* transfer.jobID = job *)
Publish(r) ==
    /\ worker[r] = "publishing"
    /\ published' = published \cup {r}
    /\ Goto(r, "heeding")
    /\ UNCHANGED <<host, intercepted, flags, reconciling, account, job, completed,
                   stopping, native, engine, told, outcome>>

(* A cancel request; the engine refuses it, stops running work later, or *)
(* cancels at once.  The answer is not looked at.                        *)
TellEngine(r) ==
    /\ told' = told \cup {r}
    /\ \/ /\ "cancelled" \in Onward[jobState[job[r]]]
          /\ jobState' = [jobState EXCEPT ![job[r]] = "cancelled"]
       \/ UNCHANGED jobState

(* Mutant: a cancel before the publication is forgotten. *)
Heed_Skipped(r) ==
    /\ worker[r] = "heeding"
    /\ UNCHANGED <<told, jobState>>
    /\ Goto(r, "polling")
    /\ UNCHANGED <<host, intercepted, flags, reconciling, transfer, stopping,
                   native, jobAccount, delivered, outcome>>

(* Mutant: a cancel in the background stops the job, too. *)
Heed_Always(r) ==
    /\ worker[r] = "heeding"
    /\ IF r \in cancelled THEN TellEngine(r) ELSE UNCHANGED <<told, jobState>>
    /\ Goto(r, "polling")
    /\ UNCHANGED <<host, intercepted, flags, reconciling, transfer, stopping,
                   native, jobAccount, delivered, outcome>>

(* A cancel that came before the publication is passed on now. *)
Heed(r) ==
    /\ worker[r] = "heeding"
    /\ IF r \in cancelled \cap cancelGo THEN TellEngine(r)
                                        ELSE UNCHANGED <<told, jobState>>
    /\ Goto(r, "polling")
    /\ UNCHANGED <<host, intercepted, flags, reconciling, transfer, stopping,
                   native, jobAccount, delivered, outcome>>

(* Mutant: a job that has ended is taken for a completed one. *)
Poll_AnyEnd(r) ==
    /\ worker[r] = "polling"
    /\ completed' = IF jobState[job[r]] \in Ended THEN completed \cup {r} ELSE completed
    /\ Goto(r, "settling")
    /\ UNCHANGED <<host, intercepted, flags, reconciling, account, published, job,
                   stopping, native, engine, told, outcome>>

(* Mutant: a request that is not answered is repeated without a deadline. *)
Poll_Forever(r) ==
    /\ worker[r] = "polling"
    /\ r \in cancelled \/ jobState[job[r]] \in Ended
    /\ completed' = IF jobState[job[r]] = "completed" THEN completed \cup {r}
                                                      ELSE completed
    /\ Goto(r, "settling")
    /\ UNCHANGED <<host, intercepted, flags, reconciling, account, published, job,
                   stopping, native, engine, told, outcome>>

(* The polling ends: job ended, or cancelled, not answered (a cleared job, for *)
(* one), or the deadline of 24 hours has passed.                               *)
Poll(r) ==
    /\ worker[r] = "polling"
    /\ \/ jobState[job[r]] = "completed" /\ completed' = completed \cup {r}
       \/ UNCHANGED completed
    /\ Goto(r, "settling")
    /\ UNCHANGED <<host, intercepted, flags, reconciling, account, published, job,
                   stopping, native, engine, told, outcome>>

-----------------------------------------------------------------------------
(* Main queue: the outcome. *)

Settle(r) ==
    /\ worker[r] = "settling"
    /\ \/ /\ r \in cancelled
          /\ Goto(r, "ended") /\ UNCHANGED <<flags, native>>
       \/ /\ r \notin cancelled
          /\ ~(r \in completed /\ IdentityMatches(r) /\ host.viewing = Owner[r])
          /\ Goto(r, "ended") /\ Fail(r) /\ UNCHANGED cancelled
       \/ /\ r \notin cancelled /\ r \in completed
          /\ IdentityMatches(r) /\ host.viewing = Owner[r]
          /\ Goto(r, "registering") /\ UNCHANGED <<flags, native>>
    /\ UNCHANGED <<host, intercepted, reconciling, transfer, stopping, engine, told,
                   outcome>>

(* Mutant: cancelled is not looked at again under the lock. *)
Register_Blindly(r) ==
    /\ worker[r] = "registering"
    /\ reconciling' = reconciling \cup {r}
    /\ registered' = [registered EXCEPT ![Asset[r]] = @ + 1]
    /\ Goto(r, "resuming")
    /\ UNCHANGED <<host, intercepted, cancelled, finished, transfer, stopping,
                   native, engine, told, outcome>>

(* Under GSLock. *)
Register(r) ==
    /\ worker[r] = "registering"
    /\ \/ /\ r \in cancelled \cup finished
          /\ Goto(r, "ended") /\ UNCHANGED <<reconciling, registered>>
       \/ /\ r \notin cancelled \cup finished
          /\ reconciling' = reconciling \cup {r}
          /\ registered' = [registered EXCEPT ![Asset[r]] = @ + 1]
          /\ Goto(r, "resuming")
    /\ UNCHANGED <<host, intercepted, cancelled, finished, transfer, stopping,
                   native, engine, told, outcome>>

(* The lock is released and the original start is called. *)
Resume(r) ==
    /\ worker[r] = "resuming"
    /\ Original(r) /\ Goto(r, "ended")
    /\ UNCHANGED <<host, intercepted, flags, reconciling, transfer, stopping,
                   engine, told, outcome>>

-----------------------------------------------------------------------------
(* The native scheduler calls cancel. *)

CancelBegins(r) ==
    /\ native[r] # "new" /\ canceller[r] = "none" /\ cancels[r] < MaxCancels
    /\ cancels' = [cancels EXCEPT ![r] = @ + 1]
    /\ IF r \in intercepted
       THEN /\ cancelGo' = IF host.foreground THEN cancelGo \cup {r} ELSE cancelGo \ {r}
            /\ asked' = IF host.foreground THEN asked \cup {r} ELSE asked
            /\ canceller' = [canceller EXCEPT ![r] = "locking"]
            /\ UNCHANGED native
       ELSE /\ native' = [native EXCEPT ![r] = "ended"]
            /\ UNCHANGED <<cancelGo, asked, canceller>>
    /\ UNCHANGED <<host, intercepted, flags, reconciling, transfer, worker, engine,
                   told, outcome>>

(* Under GSLock. *)
CancelLocks(r) ==
    /\ canceller[r] = "locking"
    /\ registered' = IF r \in reconciling \ (finished \cup cancelled)
                     THEN Release(r) ELSE registered
    /\ cancelled' = cancelled \cup {r}
    /\ canceller' = [canceller EXCEPT ![r] = "telling"]
    /\ UNCHANGED <<host, intercepted, finished, reconciling, transfer, worker,
                   cancelGo, cancels, asked, native, engine, told, outcome>>

(* jobID is read, the engine told, and the native cancel called. *)
CancelEnds(r) ==
    /\ canceller[r] = "telling"
    /\ IF r \in published \cap cancelGo THEN TellEngine(r)
                                        ELSE UNCHANGED <<told, jobState>>
    /\ canceller' = [canceller EXCEPT ![r] = "none"]
    /\ native' = [native EXCEPT ![r] = "ended"]
    /\ UNCHANGED <<host, intercepted, flags, reconciling, transfer, worker,
                   cancelGo, cancels, asked, jobAccount, delivered, outcome>>

-----------------------------------------------------------------------------
(* The native request runs: a lookup by fingerprint, then the payload. *)

callback == <<host, intercepted, cancelled, reconciling, transfer, worker, stopping,
              engine, told>>

(* Found on the server: didComplete or finishUpload. *)
NativeSucceeds(r) ==
    /\ native[r] = "looking"
    /\ Finish(r)
    /\ native' = [native EXCEPT ![r] = "ended"]
    /\ succeeded' = succeeded \cup {r}
    /\ UNCHANGED <<callback, sent>>

(* Mutant: a request at work in Go may time out natively. *)
ShouldTimeout_Always(r) == TRUE

(* The shouldTimeout hook. *)
ShouldTimeout(r) == ~(r \in intercepted /\ r \notin reconciling \cup cancelled)

(* An error, a time-out, or a callback that comes late and once more. *)
NativeFails(r) ==
    /\ \/ native[r] \in {"looking", "ended"}
       \/ native[r] = "held" /\ ShouldTimeout(r)
    /\ Fail(r)
    /\ UNCHANGED <<callback, outcome>>

(* Not found: the request itself, or a request made for it that has no      *)
(* transfer, goes on to the payload, past GSGuard.                          *)
NativeMisses(r) ==
    /\ native[r] = "looking"
    /\ \E own \in BOOLEAN :
          IF BlockNative \/ (own /\ r \in intercepted)
          THEN Fail(r) /\ UNCHANGED sent
          ELSE sent' = sent \cup {r} /\ UNCHANGED <<finished, registered, native>>
    /\ UNCHANGED <<callback, succeeded>>

-----------------------------------------------------------------------------
(* Surroundings. *)

HostChanges ==
    /\ host' \in Hosts
    /\ UNCHANGED <<intercepted, flags, reconciling, transfer, worker, stopping,
                   native, engine, told, outcome>>

(* The queue: a job ends, fails and is retried, or is cleared by the user. *)
EngineMoves ==
    /\ \E j \in Requests : \E s \in Onward[jobState[j]] :
          /\ jobState' = [jobState EXCEPT ![j] = s]
          /\ delivered' = IF s = "completed" THEN delivered \cup {j} ELSE delivered
    /\ UNCHANGED <<host, intercepted, flags, reconciling, transfer, worker, stopping,
                   native, jobAccount, told, outcome>>

WorkerStep(r) ==
    \/ Bind(r) \/ Ask(r) \/ Wait(r) \/ Check(r) \/ Authorize(r) \/ Export(r)
    \/ Import(r) \/ Publish(r) \/ Heed(r) \/ Poll(r)
    \/ Settle(r) \/ Register(r) \/ Resume(r)

CancelStep(r) == CancelBegins(r) \/ CancelLocks(r) \/ CancelEnds(r)

NativeStep(r) == NativeSucceeds(r) \/ NativeFails(r) \/ NativeMisses(r)

Next ==
    \/ \E r \in Requests :
          Start(r) \/ StartAgain(r) \/ WorkerStep(r) \/ CancelStep(r) \/ NativeStep(r)
    \/ HostChanges \/ EngineMoves

Spec == Init /\ [][Next]_vars

(* The queues run the blocks dispatched to them, requests and exports return, *)
(* the deadlines of 24 hours pass, and a call of cancel goes on to its end.   *)
FairSpec ==
    /\ Spec
    /\ \A r \in Requests : WF_vars(WorkerStep(r))
    /\ \A r \in Requests : WF_vars(CancelLocks(r) \/ CancelEnds(r))
=============================================================================
