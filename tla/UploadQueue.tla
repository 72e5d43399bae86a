----------------------------- MODULE UploadQueue -----------------------------
(***************************************************************************)
(* The upload engine of internal/service: the persistent job queue, its    *)
(* request handlers, the scheduler tick, the upload workers and recovery.  *)
(*                                                                         *)
(* Every handler, tick, progress callback and completion runs under the    *)
(* engine mutex and is one action.  A save (atomicJSON) either succeeds,   *)
(* or fails with state.json holding the old or the new contents; either    *)
(* failure raises "fault", after which requests and ticks are refused but  *)
(* workers already running still report and still save.                    *)
(*                                                                         *)
(* Jobs are numbered in creation order, which is the order of the queue:   *)
(* it is only ever appended to and filtered.  Job ids are 128 random bits, *)
(* so a number is never issued twice, not even after a crash.              *)
(***************************************************************************)
EXTENDS Integers, FiniteSets

CONSTANTS
    MaxIds,         \* bound: jobs created in a behaviour
    MaxJobs,        \* capacity of the queue (types.go MaxJobs)
    Accounts,       \* upload accounts that exist
    NativeAccounts, \* those authorized through the Google Photos process
    Qualities,      \* subset of {"original", "saver", "quota"}
    Bytes,          \* distinguishable media contents
    InitialOptions, \* options found on disk at first ({Defaults}: a new store)
    OptionSets,     \* option records a client may configure
    Networks,       \* network conditions a client may report
    LegacyContents, \* contents an older build may have marked completed
    SavesMayFail,   \* whether state.json writes can fail
    MaxUserRetries, \* bound: retries of one job asked for by the user
    MaxCrashes,     \* bound: process deaths in a behaviour
    CanClose        \* whether Engine.Close is called

VARIABLES
    up,         \* the process runs and Open has returned
    mem,        \* Engine.state
    disk,       \* state.json
    staging,    \* media/<id>: "none", "partial" or "complete" files
    hashes,     \* jobs with running import hashes (Engine.importHashes)
    active,     \* jobs with a worker (Engine.active)
    cancelled,  \* active jobs whose context has been cancelled
    fault,      \* Engine.fault: a save has failed
    stopped,    \* Engine.stopped: Close was called
    net,        \* Engine.online and Engine.wifi
    waiting,    \* native accounts without a usable bearer
    issued,     \* number of job ids drawn so far
    sent,       \* history: commit request sent in the running attempt
    inDoubt,    \* history: commit sent, outcome not learnt, not retried since
    commits,    \* history: commit requests sent per job
    retried,    \* history: user retries per job
    charged,    \* history: attempts that ended in a failure or a restart
    seen,       \* history: highest completion revision told to a client
    crashes     \* number of process deaths so far

environment == <<net, waiting>>
history     == <<sent, inDoubt, commits, retried, charged>>
vars == <<up, mem, disk, staging, hashes, active, cancelled, fault, stopped,
          environment, issued, history, seen, crashes>>

-----------------------------------------------------------------------------
(* Data. *)

Ids      == 1..MaxIds
Contents == [account : Accounts, quality : Qualities, bytes : Bytes]

Running  == {"preparing", "uploading", "committing"}
Finished == {"completed", "cancelled"}
States   == {"none", "importing", "pending", "failed"} \cup Running \cup Finished

Unknown == "commit_outcome_unknown"
Exists  == "remote_live_photo_component_exists"
Errors  == {"", Unknown, Exists, "other"}

Job == [state : States, content : Contents, sealed : BOOLEAN, attempts : Nat,
        delayed : BOOLEAN, cancelRequested : BOOLEAN, originalPolicy : {0, 1},
        error : Errors]

NewJob(c) == [state |-> "importing", content |-> c, sealed |-> FALSE,
              attempts |-> 0, delayed |-> FALSE, cancelRequested |-> FALSE,
              originalPolicy |-> 0, error |-> ""]

(* The slot of an id that is not in the list: not issued yet, or cleared. *)
NoJob == [NewJob(CHOOSE c \in Contents : TRUE) EXCEPT !.state = "none"]

Options == [paused : BOOLEAN, wifiOnly : BOOLEAN, concurrent : 1..4,
            retries : 0..10]
Defaults == [paused |-> FALSE, wifiOnly |-> TRUE, concurrent |-> 1,
             retries |-> 3]

Store == [jobs : [Ids -> Job], options : Options, revision : Nat]

Offline == [online |-> FALSE, wifi |-> FALSE]

ASSUME ConstantsAssumption ==
    /\ MaxIds \in Nat \ {0}
    /\ MaxJobs \in Nat \ {0}
    /\ Accounts # {} /\ NativeAccounts \subseteq Accounts
    /\ Qualities # {} /\ Qualities \subseteq {"original", "saver", "quota"}
    /\ Bytes # {}
    /\ InitialOptions \subseteq Options /\ OptionSets \subseteq Options
    /\ Networks \subseteq [online : BOOLEAN, wifi : BOOLEAN]
    /\ LegacyContents \subseteq {c \in Contents : c.quality = "original"}
    /\ SavesMayFail \in BOOLEAN /\ CanClose \in BOOLEAN
    /\ MaxUserRetries \in Nat
    /\ MaxCrashes \in Nat

Listed(store) == {j \in Ids : store.jobs[j].state # "none"}

-----------------------------------------------------------------------------
(* Saving.  Both outcomes leave the new state in memory. *)

SaveOk(new) ==
    /\ mem' = new
    /\ disk' = new
    /\ UNCHANGED fault

SaveFails(new) ==
    /\ SavesMayFail
    /\ mem' = new
    /\ disk' \in {disk, new}
    /\ fault' = TRUE

Save(new) == SaveOk(new) \/ SaveFails(new)

(* os.RemoveAll, whose error is ignored. *)
RemoveStaging(removed) ==
    \E gone \in SUBSET removed :
        staging' = [j \in Ids |-> IF j \in gone THEN "none" ELSE staging[j]]

(* Mutant: the files go whether or not the save succeeded. *)
SaveThenRemove_Always(new, removed) == Save(new) /\ RemoveStaging(removed)

(* A save that, once it has succeeded, removes the files of jobs "removed". *)
SaveThenRemove(new, removed) ==
    \/ SaveOk(new) /\ RemoveStaging(removed)
    \/ SaveFails(new) /\ UNCHANGED staging

(* Mutant: HandleJSON does not look at the fault flag. *)
Serving_DespiteFault == up

(* HandleJSON serves a request only while no save has failed. *)
Serving == up /\ ~fault

SetJob(j, job) == [mem EXCEPT !.jobs[j] = job]

-----------------------------------------------------------------------------
(* Requests that import media. *)

HasRoom == Cardinality(Listed(mem)) < MaxJobs

(* begin: draws an id, makes its directory, appends an importing job. *)
Begin(c) ==
    /\ Serving
    /\ issued < MaxIds
    /\ HasRoom
    /\ issued' = issued + 1
    /\ staging' = [staging EXCEPT ![issued + 1] = "partial"]
    /\ hashes' = hashes \cup {issued + 1}
    /\ Save(SetJob(issued + 1, NewJob(c)))
    /\ UNCHANGED <<up, active, cancelled, stopped, environment, history, seen,
                   crashes>>

(* appendChunk, for the chunk that completes the files; chunks before it    *)
(* leave the directory "partial".  Nothing is saved.                        *)
Append(j) ==
    /\ Serving
    /\ mem.jobs[j].state = "importing"
    /\ staging[j] = "partial"
    /\ staging' = [staging EXCEPT ![j] = "complete"]
    /\ UNCHANGED <<up, mem, disk, hashes, active, cancelled, fault, stopped,
                   environment, issued, history, seen, crashes>>

(* Mutant: seal only looks at queued and completed jobs. *)
Duplicates_MissRunning(j) ==
    {k \in Listed(mem) \ {j} :
        /\ mem.jobs[k].sealed
        /\ mem.jobs[k].content = mem.jobs[j].content
        /\ mem.jobs[k].state \in {"pending", "completed"}}

(* The jobs a newly sealed job j is a duplicate of: same fingerprint and    *)
(* not cancelled, older builds' unverified original completions excepted.   *)
Duplicates(j) ==
    {k \in Listed(mem) \ {j} :
        /\ mem.jobs[k].sealed
        /\ mem.jobs[k].content = mem.jobs[j].content
        /\ mem.jobs[k].state # "cancelled"
        /\ ~ /\ mem.jobs[j].content.quality = "original"
             /\ mem.jobs[k].state = "completed"
             /\ mem.jobs[k].originalPolicy = 0}

(* The id that seal answers for a duplicate: the first in the queue. *)
DuplicateOf(j) == CHOOSE k \in Duplicates(j) : \A i \in Duplicates(j) : k <= i

(* seal: queue the job, or drop it when its content is already in the queue. *)
Seal(j) ==
    /\ Serving
    /\ mem.jobs[j].state = "importing"
    /\ staging[j] = "complete"
    /\ hashes' = hashes \ {j}
    /\ IF Duplicates(j) # {}
         THEN SaveThenRemove(SetJob(j, [mem.jobs[j] EXCEPT !.state = "cancelled"]),
                             {j})
         ELSE /\ Save(SetJob(j, [mem.jobs[j] EXCEPT !.state = "pending",
                                                    !.sealed = TRUE]))
              /\ UNCHANGED staging
    /\ UNCHANGED <<up, active, cancelled, stopped, environment, issued, history,
                   seen, crashes>>

-----------------------------------------------------------------------------
(* Requests that manage jobs. *)

(* Mutant: the request is recorded, but the worker is not told. *)
CancelRunning_Untold(j) ==
    /\ j \in active
    /\ Save(SetJob(j, [mem.jobs[j] EXCEPT !.cancelRequested = TRUE]))
    /\ UNCHANGED <<cancelled, hashes, staging>>

(* cancel, of a job with a worker: it is asked to stop. *)
CancelRunning(j) ==
    /\ j \in active
    /\ cancelled' = cancelled \cup {j}
    /\ Save(SetJob(j, [mem.jobs[j] EXCEPT !.cancelRequested = TRUE]))
    /\ UNCHANGED <<hashes, staging>>

Withdrawn(job) == [job EXCEPT !.cancelRequested = TRUE, !.state = "cancelled"]

(* Mutant: cancel does not look for a worker. *)
CancelIdle_Anyway(j) ==
    /\ hashes' = hashes \ {j}
    /\ SaveThenRemove(SetJob(j, Withdrawn(mem.jobs[j])), {j})
    /\ UNCHANGED cancelled

(* cancel, of a job without a worker: it is cancelled at once. *)
CancelIdle(j) ==
    /\ j \notin active
    /\ hashes' = hashes \ {j}
    /\ SaveThenRemove(SetJob(j, Withdrawn(mem.jobs[j])), {j})
    /\ UNCHANGED cancelled

Cancel(j) ==
    /\ Serving
    /\ mem.jobs[j].state \notin Finished \cup {"none"}
    /\ CancelRunning(j) \/ CancelIdle(j)
    /\ UNCHANGED <<up, active, stopped, environment, issued, history, seen,
                   crashes>>

(* resetRetry *)
ResetRetry(job) ==
    [job EXCEPT !.state = "pending", !.attempts = 0, !.delayed = FALSE,
                !.cancelRequested = FALSE]

RetryJobs(jobs) ==
    /\ Serving
    /\ \A j \in jobs : retried[j] < MaxUserRetries
    /\ Save([mem EXCEPT !.jobs = [j \in Ids |-> IF j \in jobs
                                                  THEN ResetRetry(mem.jobs[j])
                                                  ELSE mem.jobs[j]]])
    /\ retried' = [j \in Ids |-> IF j \in jobs THEN retried[j] + 1 ELSE retried[j]]
    /\ charged' = [j \in Ids |-> IF j \in jobs THEN 0 ELSE charged[j]]
    /\ inDoubt' = inDoubt \ jobs
    /\ UNCHANGED <<up, staging, hashes, active, cancelled, stopped, environment,
                   issued, sent, commits, seen, crashes>>

(* retry, and retry_failed: every failed job at once. *)
Retry(j) == mem.jobs[j].state = "failed" /\ RetryJobs({j})

RetryFailed ==
    LET failed == {j \in Ids : mem.jobs[j].state = "failed"}
    IN  failed # {} /\ RetryJobs(failed)

(* clear_completed *)
ClearCompleted ==
    /\ Serving
    /\ \E j \in Ids : mem.jobs[j].state \in Finished
    /\ Save([mem EXCEPT !.jobs = [j \in Ids |-> IF mem.jobs[j].state \in Finished
                                                  THEN NoJob ELSE mem.jobs[j]]])
    /\ UNCHANGED <<up, staging, hashes, active, cancelled, stopped, environment,
                   issued, history, seen, crashes>>

-----------------------------------------------------------------------------
(* Requests that steer the scheduler. *)

Permitted(options, network) ==
    /\ ~options.paused
    /\ network.online
    /\ options.wifiOnly => network.wifi

(* Mutant: configure only stops uploads when pausing. *)
ConfigureStops_PauseOnly(options) == options.paused

ConfigureStops(options) == options.paused \/ (options.wifiOnly /\ ~net.wifi)

(* configure: stops running work when paused, or when Wi-Fi is now needed.  *)
(* Options that do not change are not saved.                                *)
Configure(options) ==
    /\ Serving
    /\ cancelled' = IF ConfigureStops(options) THEN active ELSE cancelled
    /\ IF options = mem.options
         THEN UNCHANGED <<mem, disk, fault>>
         ELSE Save([mem EXCEPT !.options = options])
    /\ UNCHANGED <<up, staging, hashes, active, stopped, environment, issued,
                   history, seen, crashes>>

(* conditions: stops running work when the network no longer allows it. *)
Conditions(network) ==
    /\ Serving
    /\ net' = network
    /\ cancelled' = IF ~network.online \/ (mem.options.wifiOnly /\ ~network.wifi)
                      THEN active ELSE cancelled
    /\ UNCHANGED <<up, mem, disk, staging, hashes, active, fault, stopped,
                   waiting, issued, history, seen, crashes>>

(* upload_summary tells a client the completion revision. *)
Summary ==
    /\ Serving
    /\ seen < mem.revision
    /\ seen' = mem.revision
    /\ UNCHANGED <<up, mem, disk, staging, hashes, active, cancelled, fault,
                   stopped, environment, issued, history, crashes>>

-----------------------------------------------------------------------------
(* The scheduler. *)

(* A pending job past its backoff whose account is authorized. *)
Eligible(j) ==
    /\ mem.jobs[j].state = "pending"
    /\ ~mem.jobs[j].delayed
    /\ mem.jobs[j].content.account \notin waiting

(* Mutant: one worker more than configured. *)
Chosen_OneMore ==
    {j \in Ids :
        /\ Eligible(j)
        /\ Cardinality(active) + Cardinality({k \in 1..(j - 1) : Eligible(k)})
             <= mem.options.concurrent}

(* The jobs one tick starts: in queue order, while worker slots are free. *)
Chosen ==
    {j \in Ids :
        /\ Eligible(j)
        /\ Cardinality(active) + Cardinality({k \in 1..(j - 1) : Eligible(k)})
             < mem.options.concurrent}

Started(job) ==
    [job EXCEPT !.state = "preparing",
                !.originalPolicy = IF job.content.quality = "original" THEN 1 ELSE @,
                !.attempts = @ + 1,
                !.error = ""]

WithStarted(jobs) ==
    [mem EXCEPT !.jobs = [j \in Ids |-> IF j \in jobs THEN Started(mem.jobs[j])
                                                     ELSE mem.jobs[j]]]

(* Tick saves each job before it starts its worker, and returns at the      *)
(* first save that fails: the jobs before it run, it is left "preparing"    *)
(* with no worker.                                                          *)
Tick ==
    /\ Serving /\ ~stopped
    /\ Permitted(mem.options, net)
    /\ Chosen # {}
    /\ \/ /\ SaveOk(WithStarted(Chosen))
          /\ active' = active \cup Chosen
       \/ \E k \in Chosen :
            LET before == {j \in Chosen : j < k}
            IN  /\ SavesMayFail
                /\ mem' = WithStarted(before \cup {k})
                /\ disk' \in {IF before = {} THEN disk ELSE WithStarted(before), mem'}
                /\ fault' = TRUE
                /\ active' = active \cup before
    /\ UNCHANGED <<up, staging, hashes, cancelled, stopped, environment, issued,
                   history, seen, crashes>>

-----------------------------------------------------------------------------
(* Upload workers.  The upload itself (gotohp, an external module) reports  *)
(* phases, sends the request that commits the media, and returns.  Assumed  *)
(* of it: it reports nothing after "finalizing", it sends one commit        *)
(* request per attempt and only after that report has returned.             *)

(* Mutant: the callback ignores a failed save. *)
SavePhase_Regardless(j, new) == Save(new) /\ UNCHANGED cancelled

(* A phase change is saved, and a save that fails cancels the upload. *)
SavePhase(j, new) ==
    \/ SaveOk(new) /\ UNCHANGED cancelled
    \/ SaveFails(new) /\ cancelled' = cancelled \cup {j}

(* The progress callback, reporting a new phase. *)
Progress(j, phase) ==
    /\ up
    /\ j \in active
    /\ mem.jobs[j].state \in Running \ {"committing", phase}
    /\ SavePhase(j, SetJob(j, [mem.jobs[j] EXCEPT !.state = phase]))
    /\ UNCHANGED <<up, staging, hashes, active, stopped, environment, issued,
                   history, seen, crashes>>

(* contextTransport lets the commit request out unless the context has been *)
(* cancelled; from then on the media may exist at Google.                   *)
SendCommit(j) ==
    /\ up
    /\ j \in active \ cancelled
    /\ mem.jobs[j].state = "committing"
    /\ j \notin sent
    /\ sent' = sent \cup {j}
    /\ inDoubt' = inDoubt \cup {j}
    /\ commits' = [commits EXCEPT ![j] = @ + 1]
    /\ UNCHANGED <<up, mem, disk, staging, hashes, active, cancelled, fault,
                   stopped, environment, issued, retried, charged, seen, crashes>>

(* Mutant: the attempt is not given back. *)
Refunded_Charged(job) == [job EXCEPT !.state = "pending", !.error = "other"]

(* Mutant: the job is not put back in the queue. *)
Refunded_Stuck(job) == [job EXCEPT !.error = "other", !.attempts = @ - 1]

(* Back to the queue, the attempt given back. *)
Refunded(job) ==
    [job EXCEPT !.state = "pending", !.error = "other",
                !.attempts = IF @ > 0 THEN @ - 1 ELSE @]

(* Whether an attempt that returned an error costs one of the retries. *)
Charges(job, outcome) ==
    /\ outcome = "error"
    /\ job.state # "committing"
    /\ ~job.cancelRequested
    /\ ~stopped
    /\ job.content.account \notin waiting

(* execute's switch: what becomes of the job of an attempt that returned. *)
Outcome(job, outcome) ==
    IF outcome = "success" THEN
        [job EXCEPT !.state = "completed", !.error = ""]
    ELSE IF outcome = "exists" THEN
        [job EXCEPT !.state = "failed", !.error = Exists]
    ELSE IF job.state = "committing" THEN
        [job EXCEPT !.state = "failed", !.error = Unknown]
    ELSE IF job.cancelRequested THEN
        [job EXCEPT !.state = "cancelled", !.error = ""]
    ELSE IF stopped \/ outcome = "canceled" THEN
        Refunded(job)
    ELSE IF job.content.account \in waiting THEN
        [Refunded(job) EXCEPT !.delayed = FALSE]
    ELSE IF job.attempts <= mem.options.retries THEN
        [job EXCEPT !.state = "pending", !.error = "other", !.delayed = TRUE]
    ELSE
        [job EXCEPT !.state = "failed", !.error = "other"]

(* The upload returned: "success" with a media key, "exists" for a Live     *)
(* Photo component found remotely, "canceled" for context.Canceled, or any  *)
(* other "error".                                                           *)
Finish(j, outcome) ==
    /\ up
    /\ j \in active
    /\ outcome = "success" => (mem.jobs[j].state = "committing" => j \in sent)
    /\ outcome = "canceled" => j \in cancelled
    /\ active' = active \ {j}
    /\ cancelled' = cancelled \ {j}
    /\ LET job == Outcome(mem.jobs[j], outcome)
           new == [SetJob(j, job) EXCEPT
                     !.revision = IF outcome = "success" THEN @ + 1 ELSE @]
       IN  SaveThenRemove(new, IF job.state \in Finished THEN {j} ELSE {})
    /\ charged' = [charged EXCEPT
                     ![j] = IF Charges(mem.jobs[j], outcome) THEN @ + 1 ELSE @]
    /\ sent' = sent \ {j}
    /\ inDoubt' = IF outcome \in {"success", "exists"} THEN inDoubt \ {j} ELSE inDoubt
    /\ UNCHANGED <<up, hashes, stopped, environment, issued, commits, retried,
                   seen, crashes>>

Outcomes == {"success", "exists", "canceled", "error"}

-----------------------------------------------------------------------------
(* Time and the environment. *)

(* The backoff of job j (an absolute time, also on disk) lies in the past. *)
BackoffExpires(j) ==
    /\ mem.jobs[j].delayed \/ disk.jobs[j].delayed
    /\ mem' = [mem EXCEPT !.jobs[j].delayed = FALSE]
    /\ disk' = [disk EXCEPT !.jobs[j].delayed = FALSE]
    /\ UNCHANGED <<up, staging, hashes, active, cancelled, fault, stopped,
                   environment, issued, history, seen, crashes>>

(* The relay gains a bearer, or loses it to time (nativeAuthorization). *)
AuthorizationChanges ==
    /\ waiting' \in SUBSET NativeAccounts
    /\ UNCHANGED <<up, mem, disk, staging, hashes, active, cancelled, fault,
                   stopped, net, issued, history, seen, crashes>>

-----------------------------------------------------------------------------
(* The life of the process. *)

Close ==
    /\ CanClose
    /\ up /\ ~stopped
    /\ stopped' = TRUE
    /\ cancelled' = active
    /\ UNCHANGED <<up, mem, disk, staging, hashes, active, fault, environment,
                   issued, history, seen, crashes>>

ForgetWork == hashes' = {} /\ active' = {} /\ cancelled' = {} /\ sent' = {}

(* The process dies; a crash inside a handler is one after its last save    *)
(* failed or before its RemoveAll.  What memory held is gone.               *)
Crash ==
    /\ up
    /\ crashes < MaxCrashes
    /\ crashes' = crashes + 1
    /\ up' = FALSE
    /\ mem' = disk
    /\ ForgetWork
    /\ fault' = FALSE /\ stopped' = FALSE
    /\ net' = Offline /\ waiting' = NativeAccounts
    /\ UNCHANGED <<disk, staging, issued, inDoubt, commits, retried, charged, seen>>

(* Mutant: recovery queues a commit in doubt again. *)
Interrupted_Requeued(job) ==
    IF job.state \in Running THEN [job EXCEPT !.state = "pending"]
    ELSE IF job.state = "importing" THEN [job EXCEPT !.state = "cancelled"]
    ELSE job

(* Mutant: recovery fails a commit in doubt without saying why. *)
Interrupted_Silent(job) ==
    IF job.state \in {"uploading", "preparing"} THEN
        [job EXCEPT !.state = "pending"]
    ELSE IF job.state = "committing" THEN [job EXCEPT !.state = "failed"]
    ELSE IF job.state = "importing" THEN [job EXCEPT !.state = "cancelled"]
    ELSE job

(* What Open makes of a persisted job. *)
Interrupted(job) ==
    IF job.state \in {"uploading", "preparing"} THEN
        [job EXCEPT !.state = "pending"]
    ELSE IF job.state = "committing" THEN
        [job EXCEPT !.state = "failed", !.error = Unknown]
    ELSE IF job.state = "importing" THEN
        [job EXCEPT !.state = "cancelled", !.error = "other"]
    ELSE job

(* Mutant: recovery forgets that a cancellation was asked for. *)
Recovered_Uncancelled(job) == Interrupted(job)

Recovered(job) ==
    IF job.cancelRequested /\ Interrupted(job).state = "pending"
      THEN [Interrupted(job) EXCEPT !.state = "cancelled"]
      ELSE Interrupted(job)

(* Open: recovers every job, removes the files of finished ones, saves, and *)
(* gives up if that save fails.                                             *)
Open ==
    /\ ~up
    /\ LET new == [disk EXCEPT !.jobs = [j \in Ids |-> Recovered(disk.jobs[j])]]
       IN  /\ RemoveStaging({j \in Ids : new.jobs[j].state \in Finished})
           /\ \/ up' = TRUE /\ disk' = new
              \/ SavesMayFail /\ up' = FALSE /\ disk' \in {disk, new}
           /\ mem' = disk'
           /\ charged' = [j \in Ids |-> disk'.jobs[j].attempts]
    /\ UNCHANGED <<hashes, active, cancelled, fault, stopped, environment, issued,
                   sent, inDoubt, commits, retried, seen, crashes>>

-----------------------------------------------------------------------------

EmptyStore(options) ==
    [jobs |-> [j \in Ids |-> NoJob], options |-> options, revision |-> 0]

(* A store in which an older build marked an original completed. *)
LegacyStore(options, c) ==
    [EmptyStore(options) EXCEPT
        !.jobs[1] = [NewJob(c) EXCEPT !.state = "completed", !.sealed = TRUE]]

Init ==
    /\ \E options \in InitialOptions :
         \/ disk = EmptyStore(options) /\ issued = 0
         \/ \E c \in LegacyContents : disk = LegacyStore(options, c) /\ issued = 1
    /\ up = FALSE /\ mem = disk
    /\ staging = [j \in Ids |-> "none"]
    /\ hashes = {} /\ active = {} /\ cancelled = {} /\ sent = {} /\ inDoubt = {}
    /\ fault = FALSE /\ stopped = FALSE
    /\ net = Offline /\ waiting = NativeAccounts
    /\ commits = [j \in Ids |-> 0] /\ retried = [j \in Ids |-> 0]
    /\ charged = [j \in Ids |-> 0]
    /\ seen = 0 /\ crashes = 0

Next ==
    \/ \E c \in Contents : Begin(c)
    \/ \E j \in Ids : Append(j) \/ Seal(j) \/ Cancel(j) \/ Retry(j)
    \/ RetryFailed \/ ClearCompleted \/ Summary
    \/ \E options \in OptionSets : Configure(options)
    \/ \E network \in Networks : Conditions(network)
    \/ Tick
    \/ \E j \in Ids, phase \in Running : Progress(j, phase)
    \/ \E j \in Ids : SendCommit(j) \/ BackoffExpires(j)
    \/ \E j \in Ids, outcome \in Outcomes : Finish(j, outcome)
    \/ AuthorizationChanges
    \/ Close \/ Crash \/ Open

Spec == Init /\ [][Next]_vars

(* The one-second ticker keeps ticking, time passes, an upload returns (its *)
(* requests have deadlines), and a dead process is started again, in the    *)
(* end with a writable store.                                               *)
Fairness ==
    /\ WF_vars(Tick)
    /\ WF_vars(Open /\ up')
    /\ \A j \in Ids : WF_vars(BackoffExpires(j))
    /\ \A j \in Ids : WF_vars(\E outcome \in Outcomes : Finish(j, outcome))

FairSpec == Spec /\ Fairness
=============================================================================
