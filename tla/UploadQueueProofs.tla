-------------------------- MODULE UploadQueueProofs --------------------------
(***************************************************************************)
(* Machine-checked proofs about the upload queue, for every value of the   *)
(* constants that ConstantsAssumption allows.                              *)
(***************************************************************************)
EXTENDS UploadQueueProperties, TLAPS

-----------------------------------------------------------------------------
(* Types of the operators the actions are built from. *)

LEMMA NoJobType == NoJob \in Job
<1>1. PICK a \in Accounts, q \in Qualities, b \in Bytes : TRUE
  BY ConstantsAssumption DEF ConstantsAssumption
<1>2. [account |-> a, quality |-> q, bytes |-> b] \in Contents
  BY DEF Contents
<1>3. (CHOOSE c \in Contents : TRUE) \in Contents
  BY <1>2, Zenon
<1> QED
  BY <1>3 DEF NoJob, NewJob, Job, States, Errors, Running, Finished

LEMMA NewJobType == \A c \in Contents : NewJob(c) \in Job
BY DEF NewJob, Job, States, Errors, Running, Finished

LEMMA SetJobType ==
  ASSUME mem \in Store, NEW j \in Ids, NEW job \in Job
  PROVE  SetJob(j, job) \in Store
BY DEF SetJob, Store

LEMMA SetJobsType ==
  ASSUME NEW store \in Store, NEW jobs \in [Ids -> Job]
  PROVE  [store EXCEPT !.jobs = jobs] \in Store
BY DEF Store

LEMMA JobType ==
  ASSUME NEW store \in Store, NEW j \in Ids
  PROVE  store.jobs[j] \in Job
BY DEF Store

LEMMA SaveType ==
  ASSUME TypeOK, NEW new \in Store, Save(new)
  PROVE  mem' \in Store /\ disk' \in Store /\ fault' \in BOOLEAN
BY DEF TypeOK, Save, SaveOk, SaveFails

LEMMA RemoveStagingType ==
  ASSUME TypeOK, NEW removed, RemoveStaging(removed)
  PROVE  staging' \in [Ids -> {"none", "partial", "complete"}]
BY DEF TypeOK, RemoveStaging

LEMMA SaveThenRemoveType ==
  ASSUME TypeOK, NEW new \in Store, NEW removed, SaveThenRemove(new, removed)
  PROVE  /\ mem' \in Store /\ disk' \in Store /\ fault' \in BOOLEAN
         /\ staging' \in [Ids -> {"none", "partial", "complete"}]
BY RemoveStagingType DEF TypeOK, SaveThenRemove, SaveOk, SaveFails

(* Changing a job's state and error, and each of its other fields. *)
LEMMA JobChange ==
  ASSUME NEW job \in Job, NEW state \in States, NEW error \in Errors
  PROVE  /\ [job EXCEPT !.state = state] \in Job
         /\ [job EXCEPT !.error = error] \in Job
         /\ [job EXCEPT !.state = state, !.error = error] \in Job
         /\ \A n \in Nat : [job EXCEPT !.attempts = n] \in Job
         /\ \A b \in BOOLEAN : [job EXCEPT !.delayed = b] \in Job
         /\ [job EXCEPT !.state = state, !.sealed = TRUE] \in Job
         /\ [job EXCEPT !.cancelRequested = TRUE] \in Job
         /\ [job EXCEPT !.cancelRequested = TRUE, !.state = state] \in Job
BY DEF Job

LEMMA StateNames ==
  /\ Running \subseteq States /\ Finished \subseteq States
  /\ {"pending", "failed", "importing", "none"} \subseteq States
  /\ {"", "other", Unknown, Exists} \subseteq Errors
BY DEF Running, Finished, States, Errors

LEMMA StartedType == \A job \in Job : Started(job) \in Job
<1> SUFFICES ASSUME NEW job \in Job PROVE Started(job) \in Job
  OBVIOUS
<1>1. \A p \in {0, 1}, n \in Nat :
        [job EXCEPT !.state = "preparing", !.originalPolicy = p,
                    !.attempts = n, !.error = ""] \in Job
  BY StateNames DEF Job, Running
<1>2. (IF job.content.quality = "original" THEN 1 ELSE job.originalPolicy) \in {0, 1}
  BY DEF Job
<1>3. job.attempts + 1 \in Nat
  BY DEF Job
<1> QED
  BY <1>1, <1>2, <1>3 DEF Started

LEMMA ResetRetryType == \A job \in Job : ResetRetry(job) \in Job
BY StateNames DEF ResetRetry, Job

LEMMA RefundedType == \A job \in Job : Refunded(job) \in Job
<1> SUFFICES ASSUME NEW job \in Job PROVE Refunded(job) \in Job
  OBVIOUS
<1>1. \A n \in Nat :
        [job EXCEPT !.state = "pending", !.error = "other", !.attempts = n] \in Job
  BY StateNames DEF Job
<1>2. (IF job.attempts > 0 THEN job.attempts - 1 ELSE job.attempts) \in Nat
  BY DEF Job
<1> QED
  BY <1>1, <1>2 DEF Refunded

LEMMA OutcomeType ==
  ASSUME NEW job \in Job, NEW outcome
  PROVE  Outcome(job, outcome) \in Job
<1>1. [job EXCEPT !.state = "completed", !.error = ""] \in Job
  BY JobChange, StateNames DEF Finished
<1>2. /\ [job EXCEPT !.state = "failed", !.error = Exists] \in Job
      /\ [job EXCEPT !.state = "failed", !.error = Unknown] \in Job
      /\ [job EXCEPT !.state = "failed", !.error = "other"] \in Job
  BY JobChange, StateNames
<1>3. [job EXCEPT !.state = "cancelled", !.error = ""] \in Job
  BY JobChange, StateNames DEF Finished
<1>4. Refunded(job) \in Job /\ [Refunded(job) EXCEPT !.delayed = FALSE] \in Job
  BY RefundedType, JobChange, StateNames
<1>5. [job EXCEPT !.state = "pending", !.error = "other", !.delayed = TRUE] \in Job
  BY StateNames DEF Job
<1> QED
  BY <1>1, <1>2, <1>3, <1>4, <1>5 DEF Outcome

LEMMA InterruptedType == \A job \in Job : Interrupted(job) \in Job
<1> SUFFICES ASSUME NEW job \in Job PROVE Interrupted(job) \in Job
  OBVIOUS
<1>1. /\ [job EXCEPT !.state = "pending"] \in Job
      /\ [job EXCEPT !.state = "failed", !.error = Unknown] \in Job
  BY JobChange, StateNames
<1>2. [job EXCEPT !.state = "cancelled", !.error = "other"] \in Job
  BY JobChange, StateNames DEF Finished
<1> QED
  BY <1>1, <1>2 DEF Interrupted

LEMMA RecoveredType == \A job \in Job : Recovered(job) \in Job
<1> SUFFICES ASSUME NEW job \in Job PROVE Recovered(job) \in Job
  OBVIOUS
<1>1. Interrupted(job) \in Job
  BY InterruptedType
<1>2. [Interrupted(job) EXCEPT !.state = "cancelled"] \in Job
  BY <1>1, JobChange, StateNames DEF Finished
<1> QED
  BY <1>1, <1>2 DEF Recovered

LEMMA WithStartedType ==
  ASSUME mem \in Store, NEW jobs
  PROVE  WithStarted(jobs) \in Store
BY StartedType, JobType, SetJobsType DEF WithStarted

-----------------------------------------------------------------------------
(* Type correctness. *)

LEMMA InitType == Init => TypeOK
<1> SUFFICES ASSUME Init PROVE TypeOK
  OBVIOUS
<1>1. \A options \in InitialOptions : EmptyStore(options) \in Store
  <2> SUFFICES ASSUME NEW options \in InitialOptions
               PROVE  EmptyStore(options) \in Store
    OBVIOUS
  <2>1. options \in Options
    BY ConstantsAssumption DEF ConstantsAssumption
  <2> QED
    BY <2>1, NoJobType DEF EmptyStore, Store
<1>2. \A options \in InitialOptions, c \in LegacyContents :
        LegacyStore(options, c) \in Store
  <2> SUFFICES ASSUME NEW options \in InitialOptions, NEW c \in LegacyContents
               PROVE  LegacyStore(options, c) \in Store
    OBVIOUS
  <2>1. NewJob(c) \in Job
    BY NewJobType, ConstantsAssumption DEF ConstantsAssumption
  <2>2. [NewJob(c) EXCEPT !.state = "completed", !.sealed = TRUE] \in Job
    BY <2>1, StateNames DEF Job, Finished
  <2> QED
    BY <1>1, <2>2 DEF LegacyStore, Store
<1>3. disk \in Store /\ mem \in Store /\ issued \in 0..MaxIds
  BY <1>1, <1>2, ConstantsAssumption DEF Init, ConstantsAssumption
<1> QED
  BY <1>3 DEF Init, TypeOK, Offline

LEMMA TypeStep == TypeOK /\ [Next]_vars => TypeOK'
<1> SUFFICES ASSUME TypeOK, [Next]_vars PROVE TypeOK'
  OBVIOUS
<1> USE DEF environment, history
<1>1. ASSUME NEW c \in Contents, Begin(c) PROVE TypeOK'
  <2>1. issued + 1 \in Ids
    BY <1>1, ConstantsAssumption DEF Begin, Ids, TypeOK, ConstantsAssumption
  <2>2. SetJob(issued + 1, NewJob(c)) \in Store
    BY <2>1, NewJobType, SetJobType DEF TypeOK
  <2>3. mem' \in Store /\ disk' \in Store /\ fault' \in BOOLEAN
    BY <1>1, <2>2, SaveType DEF Begin
  <2> QED
    BY <1>1, <2>1, <2>3 DEF Begin, TypeOK, Ids
<1>2. ASSUME NEW j \in Ids, Append(j) PROVE TypeOK'
  BY <1>2 DEF Append, TypeOK
<1>3. ASSUME NEW j \in Ids, Seal(j) PROVE TypeOK'
  <2>1. /\ [mem.jobs[j] EXCEPT !.state = "cancelled"] \in Job
        /\ [mem.jobs[j] EXCEPT !.state = "pending", !.sealed = TRUE] \in Job
    BY JobType, JobChange, StateNames DEF TypeOK, Finished
  <2>2. /\ SetJob(j, [mem.jobs[j] EXCEPT !.state = "cancelled"]) \in Store
        /\ SetJob(j, [mem.jobs[j] EXCEPT !.state = "pending", !.sealed = TRUE]) \in Store
    BY <2>1, SetJobType DEF TypeOK
  <2>3. /\ mem' \in Store /\ disk' \in Store /\ fault' \in BOOLEAN
        /\ staging' \in [Ids -> {"none", "partial", "complete"}]
    BY <1>3, <2>2, SaveType, SaveThenRemoveType DEF Seal, TypeOK
  <2> QED
    BY <1>3, <2>3 DEF Seal, TypeOK
<1>4. ASSUME NEW j \in Ids, Cancel(j) PROVE TypeOK'
  <2>1. /\ [mem.jobs[j] EXCEPT !.cancelRequested = TRUE] \in Job
        /\ Withdrawn(mem.jobs[j]) \in Job
    BY JobType, JobChange, StateNames DEF TypeOK, Finished, Withdrawn
  <2>2. /\ SetJob(j, [mem.jobs[j] EXCEPT !.cancelRequested = TRUE]) \in Store
        /\ SetJob(j, Withdrawn(mem.jobs[j])) \in Store
    BY <2>1, SetJobType DEF TypeOK
  <2>3. /\ mem' \in Store /\ disk' \in Store /\ fault' \in BOOLEAN
        /\ staging' \in [Ids -> {"none", "partial", "complete"}]
    BY <1>4, <2>2, SaveType, SaveThenRemoveType
    DEF Cancel, CancelRunning, CancelIdle, TypeOK
  <2> QED
    BY <1>4, <2>3 DEF Cancel, CancelRunning, CancelIdle, TypeOK
<1>5. ASSUME NEW jobs \in SUBSET Ids, RetryJobs(jobs) PROVE TypeOK'
  <2> DEFINE new == [j \in Ids |-> IF j \in jobs THEN ResetRetry(mem.jobs[j])
                                                 ELSE mem.jobs[j]]
  <2>1. new \in [Ids -> Job]
    BY JobType, ResetRetryType DEF TypeOK
  <2>2. [mem EXCEPT !.jobs = new] \in Store
    BY <2>1, SetJobsType DEF TypeOK
  <2>3. mem' \in Store /\ disk' \in Store /\ fault' \in BOOLEAN
    BY <1>5, <2>2, SaveType DEF RetryJobs
  <2> QED
    BY <1>5, <2>3 DEF RetryJobs, TypeOK
<1>6. ASSUME ClearCompleted PROVE TypeOK'
  <2> DEFINE new == [j \in Ids |-> IF mem.jobs[j].state \in Finished
                                     THEN NoJob ELSE mem.jobs[j]]
  <2>1. new \in [Ids -> Job]
    BY JobType, NoJobType DEF TypeOK
  <2>2. [mem EXCEPT !.jobs = new] \in Store
    BY <2>1, SetJobsType DEF TypeOK
  <2>3. mem' \in Store /\ disk' \in Store /\ fault' \in BOOLEAN
    BY <1>6, <2>2, SaveType DEF ClearCompleted
  <2> QED
    BY <1>6, <2>3 DEF ClearCompleted, TypeOK
<1>7. ASSUME Summary PROVE TypeOK'
  BY <1>7 DEF Summary, TypeOK, Store
<1>8. ASSUME NEW options \in OptionSets, Configure(options) PROVE TypeOK'
  <2>1. [mem EXCEPT !.options = options] \in Store
    BY ConstantsAssumption DEF ConstantsAssumption, TypeOK, Store
  <2>2. mem' \in Store /\ disk' \in Store /\ fault' \in BOOLEAN
    BY <1>8, <2>1, SaveType DEF Configure, TypeOK
  <2> QED
    BY <1>8, <2>2 DEF Configure, TypeOK
<1>9. ASSUME NEW network \in Networks, Conditions(network) PROVE TypeOK'
  BY <1>9, ConstantsAssumption DEF Conditions, TypeOK, ConstantsAssumption
<1>10. ASSUME Tick PROVE TypeOK'
  <2>1. \A jobs : WithStarted(jobs) \in Store
    BY WithStartedType DEF TypeOK
  <2>2. Chosen \subseteq Ids
    BY DEF Chosen
  <2>3. /\ mem' \in Store /\ disk' \in Store /\ fault' \in BOOLEAN
        /\ active' \subseteq Ids /\ active \subseteq active'
    <3>1. CASE SaveOk(WithStarted(Chosen)) /\ active' = active \cup Chosen
      BY <2>1, <2>2, <3>1 DEF SaveOk, TypeOK
    <3>2. ASSUME NEW k \in Chosen, NEW before \in SUBSET Chosen,
                 mem' = WithStarted(before \cup {k}),
                 disk' \in {IF before = {} THEN disk ELSE WithStarted(before), mem'},
                 fault' = TRUE, active' = active \cup before
          PROVE  /\ mem' \in Store /\ disk' \in Store /\ fault' \in BOOLEAN
                 /\ active' \subseteq Ids /\ active \subseteq active'
      BY <2>1, <2>2, <3>2 DEF TypeOK
    <3>3. \A k \in Chosen : {j \in Chosen : j < k} \in SUBSET Chosen
      OBVIOUS
    <3> QED
      BY <1>10, <3>1, <3>2, <3>3 DEF Tick
  <2> QED
    BY <1>10, <2>3 DEF Tick, TypeOK
<1>11. ASSUME NEW j \in Ids, NEW phase \in Running, Progress(j, phase) PROVE TypeOK'
  <2>1. SetJob(j, [mem.jobs[j] EXCEPT !.state = phase]) \in Store
    BY JobType, JobChange, StateNames, SetJobType DEF TypeOK
  <2>2. mem' \in Store /\ disk' \in Store /\ fault' \in BOOLEAN
    BY <1>11, <2>1, SaveType DEF Progress, SavePhase, Save
  <2> QED
    BY <1>11, <2>2 DEF Progress, SavePhase, TypeOK
<1>12. ASSUME NEW j \in Ids, SendCommit(j) PROVE TypeOK'
  BY <1>12 DEF SendCommit, TypeOK
<1>13. ASSUME NEW j \in Ids, BackoffExpires(j) PROVE TypeOK'
  <2>1. ASSUME NEW store \in Store
        PROVE  [store EXCEPT !.jobs[j].delayed = FALSE] \in Store
    <3>1. [store.jobs[j] EXCEPT !.delayed = FALSE] \in Job
      BY JobType, JobChange, StateNames
    <3> QED
      BY <3>1 DEF Store
  <2> QED
    BY <1>13, <2>1 DEF BackoffExpires, TypeOK
<1>14. ASSUME NEW j \in Ids, NEW outcome \in Outcomes, Finish(j, outcome) PROVE TypeOK'
  <2> DEFINE job == Outcome(mem.jobs[j], outcome)
             new == [SetJob(j, job) EXCEPT
                       !.revision = IF outcome = "success" THEN @ + 1 ELSE @]
             removed == IF job.state \in Finished THEN {j} ELSE {}
  <2>1. SetJob(j, job) \in Store
    BY JobType, OutcomeType, SetJobType DEF TypeOK
  <2>2. new \in Store
    BY <2>1 DEF Store
  <2>3. SaveThenRemove(new, removed)
    BY <1>14 DEF Finish
  <2>4. /\ mem' \in Store /\ disk' \in Store /\ fault' \in BOOLEAN
        /\ staging' \in [Ids -> {"none", "partial", "complete"}]
    BY <2>2, <2>3, SaveThenRemoveType
  <2>5. charged' \in [Ids -> Nat]
    BY <1>14 DEF Finish, TypeOK
  <2>6. /\ active' = active \ {j} /\ cancelled' = cancelled \ {j}
        /\ sent' = sent \ {j} /\ inDoubt' \in SUBSET Ids
        /\ UNCHANGED <<up, hashes, stopped, net, waiting, issued, commits,
                       retried, seen, crashes>>
    BY <1>14 DEF Finish, TypeOK
  <2> QED
    BY <2>4, <2>5, <2>6 DEF TypeOK
<1>15. ASSUME AuthorizationChanges PROVE TypeOK'
  BY <1>15 DEF AuthorizationChanges, TypeOK
<1>16. ASSUME Close PROVE TypeOK'
  BY <1>16 DEF Close, TypeOK
<1>17. ASSUME Crash PROVE TypeOK'
  <2>1. /\ mem' = disk /\ disk' = disk /\ disk \in Store
        /\ net' = Offline /\ Offline \in [online : BOOLEAN, wifi : BOOLEAN]
    <3>1. Offline \in [online : BOOLEAN, wifi : BOOLEAN]
      BY DEF Offline
    <3> QED
      BY <1>17, <3>1 DEF Crash, TypeOK
  <2>2. /\ hashes' = {} /\ active' = {} /\ cancelled' = {} /\ sent' = {}
        /\ waiting' \subseteq NativeAccounts
        /\ UNCHANGED <<staging, issued, inDoubt, commits, retried, charged, seen>>
    BY <1>17 DEF Crash, ForgetWork
  <2>3. up' \in BOOLEAN /\ fault' \in BOOLEAN /\ stopped' \in BOOLEAN
    BY <1>17, Zenon DEF Crash
  <2>4. crashes' \in Nat
    BY <1>17 DEF Crash, TypeOK
  <2> QED
    BY <2>1, <2>2, <2>3, <2>4 DEF TypeOK
<1>18. ASSUME Open PROVE TypeOK'
  <2> DEFINE new == [j \in Ids |-> Recovered(disk.jobs[j])]
  <2>1. new \in [Ids -> Job]
    BY JobType, RecoveredType DEF TypeOK
  <2>2. [disk EXCEPT !.jobs = new] \in Store
    BY <2>1, SetJobsType DEF TypeOK
  <2>3. mem' \in Store /\ disk' \in Store /\ up' \in BOOLEAN
    BY <1>18, <2>2 DEF Open, TypeOK
  <2>4. staging' \in [Ids -> {"none", "partial", "complete"}]
    BY <1>18, RemoveStagingType DEF Open
  <2>5. charged' \in [Ids -> Nat]
    BY <1>18, <2>3, JobType DEF Open, Job
  <2> QED
    BY <1>18, <2>3, <2>4, <2>5 DEF Open, TypeOK
<1>19. ASSUME UNCHANGED vars PROVE TypeOK'
  BY <1>19 DEF vars, TypeOK
<1> QED
  BY <1>1, <1>2, <1>3, <1>4, <1>5, <1>6, <1>7, <1>8, <1>9, <1>10, <1>11, <1>12,
     <1>13, <1>14, <1>15, <1>16, <1>17, <1>18, <1>19
  DEF Next, Retry, RetryFailed

(* Every variable keeps its type in every behaviour: in particular state.json *)
(* always holds a store that Open accepts field by field.                     *)
THEOREM TypeCorrect == Spec => []TypeOK
<1> QED
  BY InitType, TypeStep, PTL DEF Spec

-----------------------------------------------------------------------------
(* The commit invariant. *)

LEMMA SetJobAt ==
  ASSUME mem \in Store, NEW j \in Ids, NEW job \in Job, NEW k \in Ids
  PROVE  SetJob(j, job).jobs[k] = IF k = j THEN job ELSE mem.jobs[k]
BY DEF SetJob, Store

LEMMA SetJobsAt ==
  ASSUME NEW store \in Store, NEW jobs \in [Ids -> Job]
  PROVE  [store EXCEPT !.jobs = jobs].jobs = jobs
BY DEF Store

(* A request handler's step: its save may fail, no worker starts, ends or    *)
(* changes phase, and a job whose state changes has no worker and, if it may *)
(* now commit, has a commit left.                                            *)
LEMMA HandlerStep ==
  ASSUME TypeOK, CommitInv, NEW new,
         mem' = new, disk' \in {disk, new},
         up, up' = up, active' = active, sent' = sent, commits' = commits,
         cancelled \subseteq cancelled',
         \A j \in Ids : retried'[j] \in Nat /\ retried[j] <= retried'[j],
         issued' \in Nat, issued <= issued',
         \A j \in Ids : j > issued' => new.jobs[j].state = "none",
         \A j \in Ids :
            \/ new.jobs[j].state = mem.jobs[j].state
            \/ /\ j \notin active
               /\ new.jobs[j].state \in Unsent => commits[j] <= retried'[j]
  PROVE  CommitInv'
<1> USE DEF CommitInv
<1>1. \A j \in Ids : j \in active => new.jobs[j].state = mem.jobs[j].state
  BY DEF WorkersRun, Running, Unsent
<1>2. DownIsIdle' /\ WorkersRun'
  BY <1>1 DEF DownIsIdle, WorkersRun, TypeOK
<1>3. CommittingSaved'
  BY <1>1 DEF CommittingSaved, TypeOK
<1>4. SentCommitting'
  BY <1>1 DEF SentCommitting, TypeOK
<1>5. FreshIds'
  BY DEF FreshIds, TypeOK, Ids
<1>6. CommitBudget'
  <2> SUFFICES ASSUME NEW j \in Ids
               PROVE  /\ commits[j] <= 1 + retried'[j]
                      /\ \/ new.jobs[j].state \in Unsent
                         \/ disk'.jobs[j].state \in Unsent
                         \/ /\ j \in active \ sent
                            /\ new.jobs[j].state = "committing"
                         => commits[j] <= retried'[j]
    BY DEF CommitBudget
  <2>1. commits[j] \in Nat /\ retried[j] \in Nat /\ retried'[j] \in Nat
        /\ retried[j] <= retried'[j] /\ commits[j] <= 1 + retried[j]
    BY DEF TypeOK, CommitBudget
  <2>2. \/ mem.jobs[j].state \in Unsent
        \/ disk.jobs[j].state \in Unsent
        \/ j \in active \ sent /\ mem.jobs[j].state = "committing"
        => commits[j] <= retried'[j]
    BY <2>1 DEF CommitBudget
  <2>3. new.jobs[j].state \in Unsent => commits[j] <= retried'[j]
    BY <2>2
  <2>4. disk'.jobs[j].state \in Unsent => commits[j] <= retried'[j]
    BY <2>2, <2>3
  <2>5. j \in active \ sent /\ new.jobs[j].state = "committing"
          => commits[j] <= retried'[j]
    BY <2>2, <1>1
  <2> QED
    BY <2>1, <2>3, <2>4, <2>5
<1> QED
  BY <1>2, <1>3, <1>4, <1>5, <1>6

LEMMA SaveStep ==
  ASSUME NEW new, Save(new)
  PROVE  mem' = new /\ disk' \in {disk, new}
BY DEF Save, SaveOk, SaveFails

LEMMA SaveThenRemoveStep ==
  ASSUME NEW new, NEW removed, SaveThenRemove(new, removed)
  PROVE  mem' = new /\ disk' \in {disk, new}
BY DEF SaveThenRemove, SaveOk, SaveFails

LEMMA BeginStep ==
  ASSUME TypeOK, CommitInv, NEW c \in Contents, Begin(c)
  PROVE  CommitInv'
<1> DEFINE i == issued + 1
           new == SetJob(i, NewJob(c))
<1>1. i \in Ids /\ issued \in Nat /\ i \notin active /\ commits[i] = 0
  BY ConstantsAssumption
  DEF Begin, Ids, TypeOK, ConstantsAssumption, CommitInv, FreshIds, WorkersRun, Running
<1>2. \A j \in Ids : new.jobs[j] = IF j = i THEN NewJob(c) ELSE mem.jobs[j]
  BY <1>1, NewJobType, SetJobAt DEF TypeOK
<1>3. NewJob(c).state = "importing"
  BY DEF NewJob
<1>4. mem' = new /\ disk' \in {disk, new}
  BY SaveStep DEF Begin
<1>5. \A j \in Ids : j > issued' => new.jobs[j].state = "none"
  BY <1>1, <1>2 DEF Begin, CommitInv, FreshIds, Ids
<1>6. \A j \in Ids : retried'[j] \in Nat /\ retried[j] <= retried'[j]
  BY DEF Begin, TypeOK, history
<1>7. \A j \in Ids :
         \/ new.jobs[j].state = mem.jobs[j].state
         \/ /\ j \notin active
            /\ new.jobs[j].state \in Unsent => commits[j] <= retried'[j]
  BY <1>1, <1>2, <1>6
<1>8. issued' \in Nat /\ issued <= issued'
  BY <1>1 DEF Begin
<1>9. /\ up /\ up' = up /\ active' = active /\ sent' = sent
      /\ commits' = commits /\ cancelled \subseteq cancelled'
  BY DEF Begin, Serving, history
<1> HIDE DEF i, new
<1> QED
  BY <1>4, <1>5, <1>6, <1>7, <1>8, <1>9, HandlerStep

(* A handler that changes one idle job and creates none. *)
LEMMA IdleJobStep ==
  ASSUME TypeOK, CommitInv, NEW j \in Ids, NEW job \in Job,
         mem' = SetJob(j, job), disk' \in {disk, SetJob(j, job)},
         up, UNCHANGED <<up, active, sent, commits, retried, issued>>,
         cancelled \subseteq cancelled',
         \/ job.state = mem.jobs[j].state
         \/ /\ mem.jobs[j].state # "none"
            /\ j \notin active
            /\ job.state \in Unsent => mem.jobs[j].state \in Unsent
  PROVE  CommitInv'
<1>1. \A k \in Ids : SetJob(j, job).jobs[k] = IF k = j THEN job ELSE mem.jobs[k]
  BY SetJobAt DEF TypeOK
<1>2. \A k \in Ids : k > issued' => SetJob(j, job).jobs[k].state = "none"
  BY <1>1 DEF CommitInv, FreshIds
<1>3. \A k \in Ids : retried'[k] \in Nat /\ retried[k] <= retried'[k]
  BY DEF TypeOK
<1>4. \A k \in Ids :
         \/ SetJob(j, job).jobs[k].state = mem.jobs[k].state
         \/ /\ k \notin active
            /\ SetJob(j, job).jobs[k].state \in Unsent => commits[k] <= retried'[k]
  BY <1>1 DEF CommitInv, CommitBudget
<1>5. issued' \in Nat /\ issued <= issued'
  BY DEF TypeOK
<1> QED
  BY <1>2, <1>3, <1>4, <1>5, HandlerStep

LEMMA SealStep ==
  ASSUME TypeOK, CommitInv, NEW j \in Ids, Seal(j)
  PROVE  CommitInv'
<1> DEFINE dropped == [mem.jobs[j] EXCEPT !.state = "cancelled"]
           queued  == [mem.jobs[j] EXCEPT !.state = "pending", !.sealed = TRUE]
<1>1. mem.jobs[j] \in Job /\ mem.jobs[j].state = "importing"
  BY JobType DEF TypeOK, Seal
<1>2. /\ dropped \in Job /\ dropped.state = "cancelled"
      /\ queued \in Job /\ queued.state = "pending"
  BY <1>1, JobChange, StateNames DEF Job, Finished
<1>3. j \notin active
  BY <1>1 DEF CommitInv, WorkersRun, Running
<1>4. \/ mem' = SetJob(j, dropped) /\ disk' \in {disk, SetJob(j, dropped)}
      \/ mem' = SetJob(j, queued) /\ disk' \in {disk, SetJob(j, queued)}
  BY SaveStep, SaveThenRemoveStep DEF Seal
<1>5. /\ up /\ cancelled \subseteq cancelled'
      /\ UNCHANGED <<up, active, sent, commits, retried, issued>>
  BY DEF Seal, Serving, history
<1> HIDE DEF dropped, queued
<1> QED
  BY <1>1, <1>2, <1>3, <1>4, <1>5, IdleJobStep DEF Unsent

LEMMA CancelStep ==
  ASSUME TypeOK, CommitInv, NEW j \in Ids, Cancel(j)
  PROVE  CommitInv'
<1> DEFINE asked == [mem.jobs[j] EXCEPT !.cancelRequested = TRUE]
           gone  == Withdrawn(mem.jobs[j])
<1>1. mem.jobs[j] \in Job /\ mem.jobs[j].state # "none"
  BY JobType DEF TypeOK, Cancel
<1>2. /\ asked \in Job /\ asked.state = mem.jobs[j].state
      /\ gone \in Job /\ gone.state = "cancelled"
  BY <1>1, JobChange, StateNames DEF Job, Finished, Withdrawn
<1>3. \/ mem' = SetJob(j, asked) /\ disk' \in {disk, SetJob(j, asked)}
      \/ j \notin active /\ mem' = SetJob(j, gone) /\ disk' \in {disk, SetJob(j, gone)}
  BY SaveStep, SaveThenRemoveStep DEF Cancel, CancelRunning, CancelIdle
<1>4. /\ up /\ cancelled \subseteq cancelled'
      /\ UNCHANGED <<up, active, sent, commits, retried, issued>>
  BY DEF Cancel, CancelRunning, CancelIdle, Serving, history
<1> HIDE DEF asked, gone
<1> QED
  BY <1>1, <1>2, <1>3, <1>4, IdleJobStep DEF Unsent

LEMMA RetryStep ==
  ASSUME TypeOK, CommitInv, NEW jobs \in SUBSET Ids, RetryJobs(jobs),
         \A j \in jobs : mem.jobs[j].state = "failed"
  PROVE  CommitInv'
<1> DEFINE list == [j \in Ids |-> IF j \in jobs THEN ResetRetry(mem.jobs[j])
                                                ELSE mem.jobs[j]]
           new == [mem EXCEPT !.jobs = list]
<1>1. list \in [Ids -> Job]
  BY JobType, ResetRetryType DEF TypeOK
<1>2. \A j \in Ids : new.jobs[j] = IF j \in jobs THEN ResetRetry(mem.jobs[j])
                                                ELSE mem.jobs[j]
  BY <1>1, SetJobsAt DEF TypeOK
<1>3. mem' = new /\ disk' \in {disk, new}
  BY SaveStep DEF RetryJobs
<1>4. \A j \in jobs : j \notin active /\ mem.jobs[j].state # "none"
  BY DEF CommitInv, WorkersRun, Running
<1>5. /\ up /\ cancelled \subseteq cancelled' /\ up' = up /\ active' = active
      /\ sent' = sent /\ commits' = commits /\ issued' = issued
  BY DEF RetryJobs, Serving
<1>6. /\ \A j \in Ids : retried'[j] \in Nat /\ retried[j] <= retried'[j]
      /\ \A j \in jobs : commits[j] <= retried'[j]
  BY DEF RetryJobs, TypeOK, CommitInv, CommitBudget
<1> HIDE DEF list, new
<1>7. \A j \in Ids : j > issued' => new.jobs[j].state = "none"
  BY <1>2, <1>4, <1>5 DEF CommitInv, FreshIds
<1>8. ASSUME NEW j \in Ids
      PROVE  \/ new.jobs[j].state = mem.jobs[j].state
             \/ /\ j \notin active
                /\ new.jobs[j].state \in Unsent => commits[j] <= retried'[j]
  <2>1. CASE j \in jobs
    BY <2>1, <1>4, <1>6
  <2>2. CASE j \notin jobs
    BY <2>2, <1>2
  <2> QED
    BY <2>1, <2>2
<1>9. issued' \in Nat /\ issued <= issued'
  BY <1>5 DEF TypeOK
<1> QED
  BY <1>3, <1>5, <1>6, <1>7, <1>8, <1>9, HandlerStep

LEMMA ClearStep ==
  ASSUME TypeOK, CommitInv, ClearCompleted
  PROVE  CommitInv'
<1> DEFINE list == [j \in Ids |-> IF mem.jobs[j].state \in Finished
                                    THEN NoJob ELSE mem.jobs[j]]
           new == [mem EXCEPT !.jobs = list]
<1>1. list \in [Ids -> Job]
  BY JobType, NoJobType DEF TypeOK
<1>2. \A j \in Ids : new.jobs[j] = IF mem.jobs[j].state \in Finished
                                    THEN NoJob ELSE mem.jobs[j]
  BY <1>1, SetJobsAt DEF TypeOK
<1>3. mem' = new /\ disk' \in {disk, new}
  BY SaveStep DEF ClearCompleted
<1>4. \A j \in Ids : mem.jobs[j].state \in Finished => j \notin active
  BY DEF CommitInv, WorkersRun, Running, Finished
<1>5. /\ up /\ cancelled \subseteq cancelled' /\ up' = up /\ active' = active
      /\ sent' = sent /\ commits' = commits /\ issued' = issued
      /\ retried' = retried
  BY DEF ClearCompleted, Serving, history
<1>6. NoJob.state = "none" /\ "none" \notin Unsent
  BY DEF NoJob, NewJob, Unsent
<1>7. \A j \in Ids : j > issued' => new.jobs[j].state = "none"
  BY <1>2, <1>5, <1>6 DEF CommitInv, FreshIds
<1>8. \A j \in Ids :
         \/ new.jobs[j].state = mem.jobs[j].state
         \/ /\ j \notin active
            /\ new.jobs[j].state \in Unsent => commits[j] <= retried'[j]
  BY <1>2, <1>4, <1>6
<1>9. /\ issued' \in Nat /\ issued <= issued'
      /\ \A j \in Ids : retried'[j] \in Nat /\ retried[j] <= retried'[j]
  BY <1>5 DEF TypeOK
<1> HIDE DEF new
<1> QED
  BY <1>3, <1>5, <1>7, <1>8, <1>9, HandlerStep

LEMMA ConfigureStep ==
  ASSUME TypeOK, CommitInv, NEW options \in OptionSets, Configure(options)
  PROVE  CommitInv'
<1> DEFINE new == [mem EXCEPT !.options = options]
<1>1. new.jobs = mem.jobs
  BY DEF TypeOK, Store
<1>2. /\ up /\ cancelled \subseteq cancelled' /\ up' = up /\ active' = active
      /\ sent' = sent /\ commits' = commits /\ issued' = issued
      /\ retried' = retried
  BY DEF Configure, Serving, history, TypeOK
<1>3. /\ issued' \in Nat /\ issued <= issued'
      /\ \A j \in Ids : retried'[j] \in Nat /\ retried[j] <= retried'[j]
  BY <1>2 DEF TypeOK
<1>4. \/ mem' = new /\ disk' \in {disk, new}
      \/ mem' = mem /\ disk' \in {disk, mem}
  BY SaveStep DEF Configure
<1>5. \A j \in Ids : j > issued' => mem.jobs[j].state = "none"
  BY <1>2 DEF CommitInv, FreshIds
<1> HIDE DEF new
<1>6. CASE mem' = new /\ disk' \in {disk, new}
  BY <1>1, <1>2, <1>3, <1>5, <1>6, HandlerStep
<1>7. CASE mem' = mem /\ disk' \in {disk, mem}
  BY <1>2, <1>3, <1>5, <1>7, HandlerStep
<1> QED
  BY <1>4, <1>6, <1>7

(* Steps that leave the stored jobs, the workers and their requests alone. *)
LEMMA UntouchedStep ==
  ASSUME TypeOK, CommitInv, TypeOK',
         \A j \in Ids : /\ mem'.jobs[j].state = mem.jobs[j].state
                        /\ disk'.jobs[j].state = disk.jobs[j].state,
         UNCHANGED <<up, active, sent, commits, retried, issued>>,
         cancelled \subseteq cancelled'
  PROVE  CommitInv'
<1>1. active \subseteq Ids /\ sent \subseteq Ids
  BY DEF TypeOK
<1>2. DownIsIdle' /\ WorkersRun' /\ CommittingSaved' /\ SentCommitting'
  BY <1>1 DEF CommitInv, DownIsIdle, WorkersRun, CommittingSaved, SentCommitting
<1>3. FreshIds' /\ CommitBudget'
  BY DEF CommitInv, FreshIds, CommitBudget
<1> QED
  BY <1>2, <1>3 DEF CommitInv

LEMMA ProgressStep ==
  ASSUME TypeOK, CommitInv, NEW j \in Ids, NEW phase \in Running, Progress(j, phase)
  PROVE  CommitInv'
<1> DEFINE job == [mem.jobs[j] EXCEPT !.state = phase]
           new == SetJob(j, job)
<1>1. job \in Job /\ job.state = phase
  <2>1. mem.jobs[j] \in Job
    BY JobType DEF TypeOK
  <2> QED
    BY <2>1, JobChange, StateNames DEF Job
<1>2. \A k \in Ids : new.jobs[k] = IF k = j THEN job ELSE mem.jobs[k]
  BY <1>1, SetJobAt DEF TypeOK
<1>3. /\ mem' = new
      /\ \/ disk' = new /\ cancelled' = cancelled
         \/ disk' \in {disk, new} /\ cancelled' = cancelled \cup {j}
      /\ UNCHANGED <<up, active, sent, commits, retried, issued>>
      /\ up /\ j \in active
  BY DEF Progress, SavePhase, SaveOk, SaveFails, history
<1>4. mem.jobs[j].state \in Unsent /\ j \notin sent
  BY DEF Progress, Running, Unsent, CommitInv, SentCommitting
<1> HIDE DEF job, new
<1>5. DownIsIdle' /\ WorkersRun'
  BY <1>1, <1>2, <1>3 DEF CommitInv, DownIsIdle, WorkersRun, TypeOK
<1>6. CommittingSaved'
  BY <1>1, <1>2, <1>3 DEF CommitInv, CommittingSaved, TypeOK
<1>7. SentCommitting'
  BY <1>2, <1>3, <1>4 DEF CommitInv, SentCommitting, TypeOK
<1>8. FreshIds'
  BY <1>2, <1>3, <1>4 DEF CommitInv, FreshIds, Unsent
<1>9. CommitBudget'
  BY <1>2, <1>3, <1>4 DEF CommitInv, CommitBudget
<1> QED
  BY <1>5, <1>6, <1>7, <1>8, <1>9 DEF CommitInv

LEMMA SendCommitStep ==
  ASSUME TypeOK, CommitInv, NEW j \in Ids, SendCommit(j)
  PROVE  CommitInv'
<1>1. /\ j \in active \ cancelled /\ j \notin sent /\ sent' = sent \cup {j}
      /\ mem.jobs[j].state = "committing" /\ disk.jobs[j].state = "committing"
      /\ UNCHANGED <<up, mem, disk, active, cancelled, retried, issued>>
  BY DEF SendCommit, CommitInv, CommittingSaved
<1>2. \A k \in Ids : commits'[k] = IF k = j THEN commits[k] + 1 ELSE commits[k]
  BY DEF SendCommit, TypeOK
<1>3. j <= issued
  BY <1>1 DEF CommitInv, FreshIds, TypeOK, Ids
<1>4. DownIsIdle' /\ WorkersRun' /\ CommittingSaved' /\ SentCommitting'
  BY <1>1 DEF CommitInv, DownIsIdle, WorkersRun, CommittingSaved, SentCommitting
<1>5. FreshIds'
  BY <1>1, <1>2, <1>3 DEF CommitInv, FreshIds, Ids, TypeOK
<1>6. CommitBudget'
  BY <1>1, <1>2 DEF CommitInv, CommitBudget, Unsent, TypeOK
<1> QED
  BY <1>4, <1>5, <1>6 DEF CommitInv

LEMMA StartedState == \A job \in Job : Started(job).state = "preparing"
BY DEF Started, Job

LEMMA WithStartedAt ==
  ASSUME mem \in Store, NEW jobs, NEW k \in Ids
  PROVE  WithStarted(jobs).jobs[k] = IF k \in jobs THEN Started(mem.jobs[k])
                                                   ELSE mem.jobs[k]
<1> DEFINE list == [j \in Ids |-> IF j \in jobs THEN Started(mem.jobs[j])
                                                ELSE mem.jobs[j]]
<1>1. list \in [Ids -> Job]
  BY JobType, StartedType
<1>2. WithStarted(jobs).jobs = list
  BY <1>1, SetJobsAt DEF WithStarted
<1> QED
  BY <1>2

(* What a tick starts and saves, which is one and the same unless a save     *)
(* failed.                                                                   *)
LEMMA TickEffect ==
  ASSUME TypeOK, Tick
  PROVE  \E saved, marked \in SUBSET Chosen :
            /\ saved \subseteq marked
            /\ mem' = WithStarted(marked)
            /\ disk' \in {disk, WithStarted(saved), WithStarted(marked)}
            /\ active' = active \cup saved
            /\ ~fault' => saved = marked
<1>1. CASE SaveOk(WithStarted(Chosen)) /\ active' = active \cup Chosen
  BY <1>1 DEF SaveOk
<1>2. ASSUME NEW k \in Chosen, NEW before \in SUBSET Chosen,
             mem' = WithStarted(before \cup {k}),
             disk' \in {IF before = {} THEN disk ELSE WithStarted(before), mem'},
             active' = active \cup before, fault' = TRUE
      PROVE  \E saved, marked \in SUBSET Chosen :
                /\ saved \subseteq marked
                /\ mem' = WithStarted(marked)
                /\ disk' \in {disk, WithStarted(saved), WithStarted(marked)}
                /\ active' = active \cup saved
                /\ ~fault' => saved = marked
  <2>1. /\ before \cup {k} \in SUBSET Chosen
        /\ before \subseteq before \cup {k}
        /\ disk' \in {disk, WithStarted(before), WithStarted(before \cup {k})}
    BY <1>2
  <2> QED
    BY <1>2, <2>1
<1>3. \A k \in Chosen : {j \in Chosen : j < k} \in SUBSET Chosen
  OBVIOUS
<1> QED
  BY <1>1, <1>2, <1>3 DEF Tick

LEMMA TickStep ==
  ASSUME TypeOK, CommitInv, Tick
  PROVE  CommitInv'
<1>1. PICK saved, marked \in SUBSET Chosen :
         /\ saved \subseteq marked
         /\ mem' = WithStarted(marked)
         /\ disk' \in {disk, WithStarted(saved), WithStarted(marked)}
         /\ active' = active \cup saved
  BY TickEffect
<1>2. \A j \in marked : j \in Ids /\ mem.jobs[j].state = "pending"
  BY DEF Chosen, Eligible
<1>3. \A jobs, k : k \in Ids =>
         WithStarted(jobs).jobs[k] = IF k \in jobs THEN Started(mem.jobs[k])
                                                   ELSE mem.jobs[k]
  BY WithStartedAt DEF TypeOK
<1>4. \A k \in Ids : Started(mem.jobs[k]).state = "preparing"
  BY StartedState, JobType DEF TypeOK
<1>5. \A k \in Ids :
         /\ k \in marked => mem'.jobs[k].state = "preparing"
         /\ k \notin marked => mem'.jobs[k].state = mem.jobs[k].state
  BY <1>1, <1>3, <1>4
<1>6. \A k \in Ids :
         \/ disk'.jobs[k].state = disk.jobs[k].state
         \/ k \in marked /\ disk'.jobs[k].state \in {"preparing", "pending"}
         \/ k \notin marked /\ disk'.jobs[k].state = mem.jobs[k].state
  BY <1>1, <1>2, <1>3, <1>4
<1>7. \A k \in active : k \in Ids /\ k \notin marked
  BY <1>2 DEF CommitInv, WorkersRun, Running, TypeOK
<1>8. UNCHANGED <<cancelled, sent, commits, retried, issued>>
  BY DEF Tick, history
<1>9. DownIsIdle'
  BY DEF Tick, Serving, DownIsIdle
<1>10. WorkersRun'
  BY <1>1, <1>2, <1>5, <1>7 DEF CommitInv, WorkersRun, Running
<1>11. CommittingSaved'
  BY <1>1, <1>2, <1>5, <1>6, <1>7, <1>8 DEF CommitInv, CommittingSaved
<1>12. SentCommitting'
  BY <1>5, <1>6, <1>7, <1>8 DEF CommitInv, SentCommitting, TypeOK
<1>13. FreshIds'
  BY <1>2, <1>5, <1>6, <1>8 DEF CommitInv, FreshIds
<1>14. CommitBudget'
  BY <1>1, <1>2, <1>5, <1>6, <1>7, <1>8 DEF CommitInv, CommitBudget, Unsent
<1> QED
  BY <1>9, <1>10, <1>11, <1>12, <1>13, <1>14 DEF CommitInv

(* A worker that returned never leaves its job in a running state, and only  *)
(* puts it back in the queue if it had not reached "committing".             *)
LEMMA OutcomeState ==
  ASSUME NEW job \in Job, NEW outcome
  PROVE  /\ Outcome(job, outcome).state \in {"completed", "failed", "cancelled", "pending"}
         /\ Outcome(job, outcome).state = "pending" => job.state # "committing"
<1>1. Refunded(job).state = "pending"
      /\ [Refunded(job) EXCEPT !.delayed = FALSE].state = "pending"
  <2>1. Refunded(job) \in Job
    BY RefundedType
  <2> QED
    BY <2>1 DEF Refunded, Job
<1> QED
  BY <1>1 DEF Outcome, Job

LEMMA FinishStep ==
  ASSUME TypeOK, CommitInv, NEW j \in Ids, NEW outcome \in Outcomes, Finish(j, outcome)
  PROVE  CommitInv'
<1> DEFINE job == Outcome(mem.jobs[j], outcome)
           new == [SetJob(j, job) EXCEPT
                     !.revision = IF outcome = "success" THEN @ + 1 ELSE @]
           removed == IF job.state \in Finished THEN {j} ELSE {}
<1>1. /\ mem.jobs[j] \in Job /\ job \in Job
      /\ job.state \in {"completed", "failed", "cancelled", "pending"}
      /\ job.state = "pending" => mem.jobs[j].state # "committing"
  BY JobType, OutcomeType, OutcomeState DEF TypeOK
<1>2. \A k \in Ids : new.jobs[k] = IF k = j THEN job ELSE mem.jobs[k]
  <2>1. SetJob(j, job) \in Store
    BY <1>1, SetJobType DEF TypeOK
  <2>2. new.jobs = SetJob(j, job).jobs
    BY <2>1 DEF Store
  <2> QED
    BY <1>1, <2>2, SetJobAt DEF TypeOK
<1>3. mem' = new /\ disk' \in {disk, new}
  <2>1. SaveThenRemove(new, removed)
    BY DEF Finish
  <2> QED
    BY <2>1, SaveThenRemoveStep
<1>4. /\ up /\ j \in active /\ active' = active \ {j}
      /\ cancelled' = cancelled \ {j} /\ sent' = sent \ {j}
      /\ UNCHANGED <<up, commits, retried, issued>>
  BY DEF Finish
<1>5. /\ mem.jobs[j].state \in Running
      /\ job.state = "pending" => mem.jobs[j].state \in Unsent
  BY <1>1, <1>4 DEF CommitInv, WorkersRun, Running, Unsent
<1> HIDE DEF job, new, removed
<1>6. DownIsIdle' /\ WorkersRun'
  BY <1>2, <1>3, <1>4 DEF CommitInv, DownIsIdle, WorkersRun, TypeOK
<1>7. CommittingSaved' /\ SentCommitting'
  BY <1>2, <1>3, <1>4 DEF CommitInv, CommittingSaved, SentCommitting, TypeOK
<1>8. FreshIds'
  <2>1. j <= issued
    BY <1>5 DEF CommitInv, FreshIds, Running, TypeOK, Ids
  <2> QED
    BY <1>2, <1>3, <1>4, <2>1 DEF CommitInv, FreshIds, TypeOK, Ids
<1>9. CommitBudget'
  BY <1>1, <1>2, <1>3, <1>4, <1>5 DEF CommitInv, CommitBudget, Unsent
<1> QED
  BY <1>6, <1>7, <1>8, <1>9 DEF CommitInv

LEMMA CrashStep ==
  ASSUME TypeOK, CommitInv, Crash
  PROVE  CommitInv'
<1>1. /\ mem' = disk /\ disk' = disk /\ active' = {} /\ sent' = {}
      /\ UNCHANGED <<commits, retried, issued>>
  BY DEF Crash, ForgetWork
<1>2. /\ DownIsIdle' /\ WorkersRun' /\ CommittingSaved' /\ SentCommitting'
  BY <1>1 DEF DownIsIdle, WorkersRun, CommittingSaved, SentCommitting
<1>3. FreshIds' /\ CommitBudget'
  BY <1>1 DEF CommitInv, FreshIds, CommitBudget
<1> QED
  BY <1>2, <1>3 DEF CommitInv

(* Recovery creates no job and makes none able to commit that was not. *)
LEMMA RecoveredState ==
  ASSUME NEW job \in Job
  PROVE  /\ Recovered(job).state \in Unsent => job.state \in Unsent
         /\ job.state = "none" => Recovered(job).state = "none"
<1>1. /\ Interrupted(job) \in Job
      /\ Interrupted(job).state \in Unsent => job.state \in Unsent
      /\ job.state = "none" => Interrupted(job).state = "none"
  BY InterruptedType DEF Interrupted, Job, Unsent
<1> QED
  BY <1>1 DEF Recovered, Job, Unsent

LEMMA OpenStep ==
  ASSUME TypeOK, CommitInv, Open
  PROVE  CommitInv'
<1> DEFINE list == [j \in Ids |-> Recovered(disk.jobs[j])]
           new == [disk EXCEPT !.jobs = list]
<1>1. list \in [Ids -> Job]
  BY JobType, RecoveredType DEF TypeOK
<1>2. \A j \in Ids : new.jobs[j] = Recovered(disk.jobs[j])
  BY <1>1, SetJobsAt DEF TypeOK
<1>3. \A j \in Ids : /\ new.jobs[j].state \in Unsent => disk.jobs[j].state \in Unsent
                     /\ disk.jobs[j].state = "none" => new.jobs[j].state = "none"
  BY <1>2, RecoveredState, JobType DEF TypeOK
<1>4. /\ disk' \in {disk, new} /\ mem' = disk'
      /\ active = {} /\ sent = {} /\ active' = {} /\ sent' = {}
      /\ UNCHANGED <<commits, retried, issued>>
  BY DEF Open, CommitInv, DownIsIdle, TypeOK
<1> HIDE DEF list, new
<1>5. /\ DownIsIdle' /\ WorkersRun' /\ CommittingSaved' /\ SentCommitting'
  BY <1>4 DEF DownIsIdle, WorkersRun, CommittingSaved, SentCommitting
<1>6. ASSUME NEW j \in Ids
      PROVE  /\ mem'.jobs[j].state \in Unsent => disk.jobs[j].state \in Unsent
             /\ disk'.jobs[j].state \in Unsent => disk.jobs[j].state \in Unsent
             /\ disk.jobs[j].state = "none" =>
                   mem'.jobs[j].state = "none" /\ disk'.jobs[j].state = "none"
  <2>1. /\ new.jobs[j].state \in Unsent => disk.jobs[j].state \in Unsent
        /\ disk.jobs[j].state = "none" => new.jobs[j].state = "none"
    BY <1>3
  <2>2. \/ mem' = disk /\ disk' = disk
        \/ mem' = new /\ disk' = new
    <3>1. disk' = disk \/ disk' = new
      BY <1>4
    <3> QED
      BY <1>4, <3>1
  <2> QED
    BY <2>1, <2>2
<1>7. FreshIds'
  BY <1>4, <1>6 DEF CommitInv, FreshIds
<1>8. CommitBudget'
  BY <1>4, <1>6 DEF CommitInv, CommitBudget
<1> QED
  BY <1>5, <1>7, <1>8 DEF CommitInv

LEMMA BackoffStep ==
  ASSUME TypeOK, CommitInv, TypeOK', NEW j \in Ids, BackoffExpires(j)
  PROVE  CommitInv'
<1>1. ASSUME NEW store \in Store, NEW k \in Ids
      PROVE  [store EXCEPT !.jobs[j].delayed = FALSE].jobs[k].state = store.jobs[k].state
  BY DEF Store, Job
<1>2. \A k \in Ids : /\ mem'.jobs[k].state = mem.jobs[k].state
                     /\ disk'.jobs[k].state = disk.jobs[k].state
  BY <1>1 DEF BackoffExpires, TypeOK
<1>3. UNCHANGED <<up, active, cancelled, sent, commits, retried, issued>>
  BY DEF BackoffExpires, history
<1> QED
  BY <1>2, <1>3, UntouchedStep

LEMMA CommitInvInit == Init => CommitInv
<1> SUFFICES ASSUME Init PROVE CommitInv
  OBVIOUS
<1>1. \A j \in Ids : j > issued => disk.jobs[j].state = "none"
  <2>1. \A options, j : j \in Ids => EmptyStore(options).jobs[j] = NoJob
    BY DEF EmptyStore
  <2>2. \A options, c, j : j \in Ids /\ j > 1 => LegacyStore(options, c).jobs[j] = NoJob
    BY ConstantsAssumption DEF LegacyStore, EmptyStore, Ids, ConstantsAssumption
  <2>3. NoJob.state = "none"
    BY DEF NoJob, NewJob
  <2> QED
    BY <2>1, <2>2, <2>3 DEF Init
<1>2. DownIsIdle /\ WorkersRun /\ CommittingSaved /\ SentCommitting
  BY DEF Init, DownIsIdle, WorkersRun, CommittingSaved, SentCommitting
<1>3. FreshIds /\ CommitBudget
  BY <1>1 DEF Init, FreshIds, CommitBudget
<1> QED
  BY <1>2, <1>3 DEF CommitInv

LEMMA CommitInvStep == TypeOK /\ CommitInv /\ [Next]_vars => CommitInv'
<1> SUFFICES ASSUME TypeOK, CommitInv, [Next]_vars PROVE CommitInv'
  OBVIOUS
<1>1. TypeOK'
  BY TypeStep
<1>2. ASSUME NEW j \in Ids, Append(j) \/ BackoffExpires(j) PROVE CommitInv'
  BY <1>1, <1>2, UntouchedStep, BackoffStep DEF Append, history
<1>3. ASSUME NEW j \in Ids, Retry(j) PROVE CommitInv'
  BY <1>3, RetryStep DEF Retry
<1>4. ASSUME RetryFailed PROVE CommitInv'
  BY <1>4, RetryStep DEF RetryFailed
<1>5. ASSUME Summary \/ AuthorizationChanges PROVE CommitInv'
  BY <1>1, <1>5, UntouchedStep DEF Summary, AuthorizationChanges, history
<1>6. ASSUME NEW network \in Networks, Conditions(network) PROVE CommitInv'
  BY <1>1, <1>6, UntouchedStep DEF Conditions, history, TypeOK
<1>7. ASSUME Close \/ UNCHANGED vars PROVE CommitInv'
  BY <1>1, <1>7, UntouchedStep DEF Close, vars, history, TypeOK
<1> QED
  BY <1>2, <1>3, <1>4, <1>5, <1>6, <1>7, BeginStep, SealStep, CancelStep, ClearStep,
     ConfigureStep, TickStep, ProgressStep, SendCommitStep, FinishStep, CrashStep,
     OpenStep
  DEF Next

LEMMA CommitInvariant == Spec => []CommitInv
<1> QED
  BY InitType, TypeStep, CommitInvInit, CommitInvStep, PTL DEF Spec

-----------------------------------------------------------------------------
(* The theorems. *)

(* Whatever saves fail and whenever the process dies, a commit request is    *)
(* only ever out while state.json records its job as committing.             *)
THEOREM CommitsAreDurable == Spec => []CommitIsDurable
<1>1. CommitInv => CommitIsDurable
  BY DEF CommitInv, SentCommitting, CommitIsDurable
<1> QED
  BY <1>1, CommitInvariant, PTL

(* Restarts, failed saves and the scheduler's own retries never commit a job *)
(* a second time: that takes a retry by the user.                            *)
THEOREM NoSilentDuplicates == Spec => []NoSilentDuplicate
<1>1. CommitInv => NoSilentDuplicate
  BY DEF CommitInv, CommitBudget, NoSilentDuplicate
<1> QED
  BY <1>1, CommitInvariant, PTL
=============================================================================
