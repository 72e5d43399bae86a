------------------------ MODULE QueueInvariantProofs ------------------------
(***************************************************************************)
(* The other invariants of the upload queue, for every value of the        *)
(* constants: what a failed save leaves behind, and what the scheduler,    *)
(* recovery and the clearing of files may rely on.                         *)
(***************************************************************************)
EXTENDS UploadQueueProofs, FiniteSetTheorems, WellFoundedInduction

-----------------------------------------------------------------------------
(* Memory and disk. *)

(* They differ only after a failed save, and a dead process has no fault. *)
InSync == (~fault => mem = disk) /\ (~up => ~fault)

LEMMA SaveSync ==
  ASSUME NEW new, Save(new), up
  PROVE  (~fault' => mem' = disk') /\ up
BY DEF Save, SaveOk, SaveFails

LEMMA SaveThenRemoveSync ==
  ASSUME NEW new, NEW removed, SaveThenRemove(new, removed)
  PROVE  ~fault' => mem' = disk'
BY DEF SaveThenRemove, SaveOk, SaveFails

LEMMA InSyncInit == Init => InSync
BY DEF Init, InSync

LEMMA InSyncStep == InSync /\ [Next]_vars => InSync'
<1> SUFFICES ASSUME InSync, [Next]_vars PROVE InSync'
  OBVIOUS
<1>1. ASSUME up, up' = up, ~fault' => mem' = disk' PROVE InSync'
  BY <1>1, Zenon DEF InSync
<1>2. ASSUME UNCHANGED <<up, mem, disk, fault>> PROVE InSync'
  BY <1>2, Zenon DEF InSync
<1>3. ASSUME NEW c \in Contents, Begin(c) PROVE InSync'
  BY <1>1, <1>3, SaveSync DEF Begin, Serving
<1>4. ASSUME NEW j \in Ids, Seal(j) PROVE InSync'
  BY <1>1, <1>4, SaveSync, SaveThenRemoveSync DEF Seal, Serving
<1>5. ASSUME NEW j \in Ids, Cancel(j) PROVE InSync'
  BY <1>1, <1>5, SaveSync, SaveThenRemoveSync
  DEF Cancel, CancelRunning, CancelIdle, Serving
<1>6. ASSUME NEW jobs \in SUBSET Ids, RetryJobs(jobs) PROVE InSync'
  BY <1>1, <1>6, SaveSync DEF RetryJobs, Serving
<1>7. ASSUME ClearCompleted PROVE InSync'
  BY <1>1, <1>7, SaveSync DEF ClearCompleted, Serving
<1>8. ASSUME NEW options \in OptionSets, Configure(options) PROVE InSync'
  BY <1>1, <1>2, <1>8, SaveSync DEF Configure, Serving
<1>9. ASSUME Tick PROVE InSync'
  <2>1. up /\ up' = up
    BY <1>9 DEF Tick, Serving
  <2>2. ~fault' => mem' = disk'
    BY <1>9 DEF Tick, SaveOk
  <2> QED
    BY <1>1, <2>1, <2>2
<1>10. ASSUME NEW j \in Ids, NEW phase \in Running, Progress(j, phase) PROVE InSync'
  <2>1. up /\ up' = up
    BY <1>10 DEF Progress
  <2>2. ~fault' => mem' = disk'
    BY <1>10 DEF Progress, SavePhase, SaveOk, SaveFails
  <2> QED
    BY <1>1, <2>1, <2>2
<1>11. ASSUME NEW j \in Ids, BackoffExpires(j) PROVE InSync'
  BY <1>11, Zenon DEF BackoffExpires, InSync
<1>12. ASSUME NEW j \in Ids, NEW outcome \in Outcomes, Finish(j, outcome) PROVE InSync'
  <2>1. up /\ up' = up
    BY <1>12 DEF Finish
  <2>2. ~fault' => mem' = disk'
    BY <1>12, SaveThenRemoveSync DEF Finish
  <2> QED
    BY <1>1, <2>1, <2>2
<1>13. ASSUME Crash PROVE InSync'
  BY <1>13, Zenon DEF Crash, InSync
<1>14. ASSUME Open PROVE InSync'
  <2>1. ~fault /\ fault' = fault /\ mem' = disk'
    BY <1>14, Zenon DEF Open, InSync
  <2> QED
    BY <2>1, Zenon DEF InSync
<1>15. ASSUME UNCHANGED vars PROVE InSync'
  BY <1>2, <1>15 DEF vars
<1> QED
  BY <1>2, <1>3, <1>4, <1>5, <1>6, <1>7, <1>8, <1>9, <1>10, <1>11, <1>12, <1>13,
     <1>14, <1>15
  DEF Next, Append, Retry, RetryFailed, Summary, Conditions, SendCommit,
      AuthorizationChanges, Close

(* Whatever a request is answered while no save has failed survives a crash  *)
(* and the next start: nothing is only in memory.                            *)
THEOREM MemoryIsDurable == Spec => []DurableUnlessFault
<1>1. InSync => DurableUnlessFault
  BY DEF InSync, DurableUnlessFault
<1> QED
  BY <1>1, InSyncInit, InSyncStep, PTL DEF Spec

-----------------------------------------------------------------------------
(* What a step does to the stored options and the completion revision. *)

LEMMA SetJobFields ==
  ASSUME mem \in Store, NEW j \in Ids, NEW job
  PROVE  /\ SetJob(j, job).options = mem.options
         /\ SetJob(j, job).revision = mem.revision
BY DEF SetJob, Store

LEMMA SetJobsFields ==
  ASSUME NEW store \in Store, NEW jobs
  PROVE  /\ [store EXCEPT !.jobs = jobs].options = store.options
         /\ [store EXCEPT !.jobs = jobs].revision = store.revision
BY DEF Store

LEMMA WithStartedFields ==
  ASSUME mem \in Store, NEW jobs
  PROVE  /\ WithStarted(jobs).options = mem.options
         /\ WithStarted(jobs).revision = mem.revision
BY SetJobsFields DEF WithStarted

(* Memory keeps both fields, and the disk is as it was or caught up. *)
Quiet == /\ mem'.options = mem.options /\ mem'.revision = mem.revision
         /\ disk'.revision \in {disk.revision, mem.revision}

LEMMA QuietSave ==
  ASSUME NEW new, new.options = mem.options, new.revision = mem.revision,
         mem' = new, disk' \in {disk, new}
  PROVE  Quiet
BY DEF Quiet

LEMMA BeginQuiet ==
  ASSUME TypeOK, NEW c \in Contents, Begin(c)
  PROVE  Quiet
<1>1. issued + 1 \in Ids
  BY ConstantsAssumption DEF Begin, Ids, TypeOK, ConstantsAssumption
<1> QED
  BY <1>1, SetJobFields, SaveStep, QuietSave DEF Begin, TypeOK

LEMMA SealQuiet ==
  ASSUME TypeOK, NEW j \in Ids, Seal(j)
  PROVE  Quiet
<1>1. \A job : SetJob(j, job).options = mem.options /\ SetJob(j, job).revision = mem.revision
  BY SetJobFields DEF TypeOK
<1>2. \E job : mem' = SetJob(j, job) /\ disk' \in {disk, SetJob(j, job)}
  BY SaveStep, SaveThenRemoveStep DEF Seal
<1> QED
  BY <1>1, <1>2, QuietSave

LEMMA CancelQuiet ==
  ASSUME TypeOK, NEW j \in Ids, Cancel(j)
  PROVE  Quiet
<1>1. \A job : SetJob(j, job).options = mem.options /\ SetJob(j, job).revision = mem.revision
  BY SetJobFields DEF TypeOK
<1>2. \E job : mem' = SetJob(j, job) /\ disk' \in {disk, SetJob(j, job)}
  BY SaveStep, SaveThenRemoveStep DEF Cancel, CancelRunning, CancelIdle
<1> QED
  BY <1>1, <1>2, QuietSave

LEMMA RetryQuiet ==
  ASSUME TypeOK, NEW jobs \in SUBSET Ids, RetryJobs(jobs)
  PROVE  Quiet
<1>1. \A list : LET new == [mem EXCEPT !.jobs = list]
                IN  new.options = mem.options /\ new.revision = mem.revision
  BY SetJobsFields DEF TypeOK
<1>2. \E list : LET new == [mem EXCEPT !.jobs = list]
                IN  mem' = new /\ disk' \in {disk, new}
  BY SaveStep DEF RetryJobs
<1> QED
  BY <1>1, <1>2, QuietSave

LEMMA ClearQuiet ==
  ASSUME TypeOK, ClearCompleted
  PROVE  Quiet
<1>1. \A list : LET new == [mem EXCEPT !.jobs = list]
                IN  new.options = mem.options /\ new.revision = mem.revision
  BY SetJobsFields DEF TypeOK
<1>2. \E list : LET new == [mem EXCEPT !.jobs = list]
                IN  mem' = new /\ disk' \in {disk, new}
  BY SaveStep DEF ClearCompleted
<1> QED
  BY <1>1, <1>2, QuietSave

LEMMA TickQuiet ==
  ASSUME TypeOK, Tick
  PROVE  Quiet
<1>1. PICK saved, marked \in SUBSET Chosen :
         /\ mem' = WithStarted(marked)
         /\ disk' \in {disk, WithStarted(saved), WithStarted(marked)}
  BY TickEffect
<1>2. \A jobs : /\ WithStarted(jobs).options = mem.options
                /\ WithStarted(jobs).revision = mem.revision
  BY WithStartedFields DEF TypeOK
<1> QED
  BY <1>1, <1>2 DEF Quiet

LEMMA ProgressQuiet ==
  ASSUME TypeOK, NEW j \in Ids, NEW phase \in Running, Progress(j, phase)
  PROVE  Quiet
<1>1. \A job : SetJob(j, job).options = mem.options /\ SetJob(j, job).revision = mem.revision
  BY SetJobFields DEF TypeOK
<1>2. \E job : mem' = SetJob(j, job) /\ disk' \in {disk, SetJob(j, job)}
  BY DEF Progress, SavePhase, SaveOk, SaveFails
<1> QED
  BY <1>1, <1>2, QuietSave

LEMMA BackoffQuiet ==
  ASSUME TypeOK, NEW j \in Ids, BackoffExpires(j)
  PROVE  Quiet /\ disk'.revision = disk.revision
<1>1. ASSUME NEW store \in Store
      PROVE  LET new == [store EXCEPT !.jobs[j].delayed = FALSE]
             IN  new.options = store.options /\ new.revision = store.revision
  BY DEF Store
<1> QED
  BY <1>1 DEF BackoffExpires, TypeOK, Quiet

(* A worker's end keeps the options and never lowers the revision. *)
LEMMA FinishFields ==
  ASSUME TypeOK, NEW j \in Ids, NEW outcome \in Outcomes, Finish(j, outcome)
  PROVE  /\ mem'.options = mem.options /\ mem.revision <= mem'.revision
         /\ disk'.revision \in {disk.revision, mem'.revision}
<1> DEFINE job == Outcome(mem.jobs[j], outcome)
           new == [SetJob(j, job) EXCEPT
                     !.revision = IF outcome = "success" THEN @ + 1 ELSE @]
           removed == IF job.state \in Finished THEN {j} ELSE {}
<1>1. SetJob(j, job) \in Store
  BY JobType, OutcomeType, SetJobType DEF TypeOK
<1>2. SetJob(j, job).options = mem.options /\ SetJob(j, job).revision = mem.revision
  BY SetJobFields DEF TypeOK
<1>3. new.options = mem.options /\ mem.revision <= new.revision
  BY <1>1, <1>2 DEF Store, TypeOK
<1>4. SaveThenRemove(new, removed)
  BY DEF Finish
<1>5. mem' = new /\ disk' \in {disk, new}
  BY <1>4, SaveThenRemoveStep
<1> HIDE DEF new
<1> QED
  BY <1>3, <1>5

LEMMA OpenFields ==
  ASSUME TypeOK, Open
  PROVE  disk'.revision = disk.revision /\ mem' = disk'
<1>1. \A list : [disk EXCEPT !.jobs = list].revision = disk.revision
  BY SetJobsFields DEF TypeOK
<1>2. mem' = disk' /\ \E list : disk' \in {disk, [disk EXCEPT !.jobs = list]}
  BY DEF Open
<1> QED
  BY <1>1, <1>2

-----------------------------------------------------------------------------
(* The completion revision. *)

RevisionInv == seen <= disk.revision /\ disk.revision <= mem.revision

LEMMA RevisionInit == Init => RevisionInv
<1>1. \A options : EmptyStore(options).revision = 0
  BY DEF EmptyStore
<1>2. \A options, c : LegacyStore(options, c).revision = 0
  BY DEF LegacyStore, EmptyStore
<1>3. Init => disk.revision = 0 /\ mem = disk /\ seen = 0
  BY <1>1, <1>2 DEF Init
<1> QED
  BY <1>3 DEF RevisionInv

LEMMA RevisionStep == TypeOK /\ InSync /\ RevisionInv /\ [Next]_vars => RevisionInv'
<1> SUFFICES ASSUME TypeOK, InSync, RevisionInv, [Next]_vars PROVE RevisionInv'
  OBVIOUS
<1>1. /\ seen \in Nat /\ disk.revision \in Nat /\ mem.revision \in Nat
      /\ seen <= disk.revision /\ disk.revision <= mem.revision
  BY DEF TypeOK, Store, RevisionInv
<1>2. ASSUME Quiet, seen' = seen PROVE RevisionInv'
  BY <1>1, <1>2 DEF Quiet, RevisionInv
<1>3. ASSUME mem' = mem, disk' = disk, seen' = seen PROVE RevisionInv'
  BY <1>1, <1>3 DEF RevisionInv
<1>4. ASSUME NEW c \in Contents, Begin(c) PROVE RevisionInv'
  BY <1>2, <1>4, BeginQuiet DEF Begin
<1>5. ASSUME NEW j \in Ids, Seal(j) PROVE RevisionInv'
  BY <1>2, <1>5, SealQuiet DEF Seal
<1>6. ASSUME NEW j \in Ids, Cancel(j) PROVE RevisionInv'
  BY <1>2, <1>6, CancelQuiet DEF Cancel
<1>7. ASSUME NEW jobs \in SUBSET Ids, RetryJobs(jobs) PROVE RevisionInv'
  BY <1>2, <1>7, RetryQuiet DEF RetryJobs
<1>8. ASSUME ClearCompleted PROVE RevisionInv'
  BY <1>2, <1>8, ClearQuiet DEF ClearCompleted
<1>9. ASSUME Summary PROVE RevisionInv'
  <2>1. ~fault /\ seen' = mem.revision /\ mem' = mem /\ disk' = disk
    BY <1>9 DEF Summary, Serving
  <2>2. mem = disk
    BY <2>1, Zenon DEF InSync
  <2> QED
    BY <1>1, <2>1, <2>2 DEF RevisionInv
<1>10. ASSUME NEW options \in OptionSets, Configure(options) PROVE RevisionInv'
  <2> DEFINE new == [mem EXCEPT !.options = options]
  <2>1. new.revision = mem.revision
    BY DEF TypeOK, Store
  <2>2. seen' = seen /\ ((mem' = mem /\ disk' = disk) \/ Save(new))
    BY <1>10 DEF Configure
  <2> HIDE DEF new
  <2>3. CASE Save(new)
    BY <1>1, <2>1, <2>2, <2>3, SaveStep DEF RevisionInv
  <2> QED
    BY <1>3, <2>2, <2>3
<1>11. ASSUME Tick PROVE RevisionInv'
  BY <1>2, <1>11, TickQuiet DEF Tick
<1>12. ASSUME NEW j \in Ids, NEW phase \in Running, Progress(j, phase) PROVE RevisionInv'
  BY <1>2, <1>12, ProgressQuiet DEF Progress
<1>13. ASSUME NEW j \in Ids, BackoffExpires(j) PROVE RevisionInv'
  BY <1>2, <1>13, BackoffQuiet DEF BackoffExpires
<1>14. ASSUME NEW j \in Ids, NEW outcome \in Outcomes, Finish(j, outcome)
       PROVE  RevisionInv'
  <2>1. /\ mem.revision <= mem'.revision /\ seen' = seen
        /\ disk'.revision \in {disk.revision, mem'.revision}
    BY <1>14, FinishFields DEF Finish
  <2>2. mem'.revision \in Nat
    BY TypeStep DEF TypeOK, Store
  <2> QED
    BY <1>1, <2>1, <2>2 DEF RevisionInv
<1>15. ASSUME Crash PROVE RevisionInv'
  BY <1>1, <1>15 DEF Crash, RevisionInv
<1>16. ASSUME Open PROVE RevisionInv'
  <2>1. seen' = seen
    BY <1>16 DEF Open
  <2> QED
    BY <1>1, <1>16, <2>1, OpenFields DEF RevisionInv
<1>17. ASSUME UNCHANGED vars PROVE RevisionInv'
  BY <1>3, <1>17 DEF vars
<1> QED
  BY <1>3, <1>4, <1>5, <1>6, <1>7, <1>8, <1>9, <1>10, <1>11, <1>12, <1>13, <1>14,
     <1>15, <1>16, <1>17
  DEF Next, Append, Retry, RetryFailed, Conditions, SendCommit, AuthorizationChanges,
      Close

(* A completion revision a client was told is in state.json, and stays there *)
(* whatever saves fail later and whenever the process dies.                  *)
THEOREM RevisionsAreDurable == Spec => []SeenIsDurable
<1>1. RevisionInv => SeenIsDurable
  BY DEF RevisionInv, SeenIsDurable
<1> QED
  BY <1>1, InitType, TypeStep, InSyncInit, InSyncStep, RevisionInit, RevisionStep, PTL
  DEF Spec

-----------------------------------------------------------------------------
(* Uploads run only while they are permitted. *)

LEMMA PermittedInit == Init => RunsOnlyWhilePermitted
BY DEF Init, RunsOnlyWhilePermitted

LEMMA PermittedKept ==
  ASSUME RunsOnlyWhilePermitted,
         mem'.options = mem.options, net' = net, stopped' = stopped,
         active' # cancelled' => active # cancelled
  PROVE  RunsOnlyWhilePermitted'
<1>1. Permitted(mem.options, net) => Permitted(mem'.options, net')
  BY Zenon DEF Permitted
<1> QED
  BY <1>1, Zenon DEF RunsOnlyWhilePermitted

LEMMA ConfigurePermitted ==
  ASSUME TypeOK, RunsOnlyWhilePermitted, NEW options \in OptionSets, Configure(options)
  PROVE  RunsOnlyWhilePermitted'
<1>1. mem'.options = options
  <2> DEFINE new == [mem EXCEPT !.options = options]
  <2>1. new.options = options
    BY DEF TypeOK, Store
  <2>2. CASE options = mem.options
    BY <2>2 DEF Configure
  <2>3. CASE options # mem.options
    <3>1. Save(new)
      BY <2>3 DEF Configure
    <3> HIDE DEF new
    <3> QED
      BY <2>1, <3>1, SaveStep
  <2> QED
    BY <2>2, <2>3
<1>2. /\ net' = net /\ stopped' = stopped /\ active' = active
      /\ cancelled' = IF ConfigureStops(options) THEN active ELSE cancelled
  BY DEF Configure, environment
<1>3. CASE ConfigureStops(options)
  BY <1>2, <1>3 DEF RunsOnlyWhilePermitted
<1>4. CASE ~ConfigureStops(options)
  <2>1. ~options.paused /\ (options.wifiOnly => net.wifi)
    BY <1>4, Zenon DEF ConfigureStops
  <2>2. Permitted(mem.options, net) => Permitted(mem'.options, net')
    BY <1>1, <1>2, <2>1, Zenon DEF Permitted
  <2>3. active' # cancelled' => active # cancelled
    BY <1>2, <1>4
  <2> QED
    BY <1>2, <2>2, <2>3, Zenon DEF RunsOnlyWhilePermitted
<1> QED
  BY <1>3, <1>4

LEMMA ConditionsPermitted ==
  ASSUME RunsOnlyWhilePermitted, NEW network \in Networks, Conditions(network)
  PROVE  RunsOnlyWhilePermitted'
<1> DEFINE stops == ~network.online \/ (mem.options.wifiOnly /\ ~network.wifi)
<1>1. /\ net' = network /\ stopped' = stopped /\ active' = active /\ mem' = mem
      /\ cancelled' = IF stops THEN active ELSE cancelled
  BY DEF Conditions
<1>2. CASE stops
  BY <1>1, <1>2 DEF RunsOnlyWhilePermitted
<1>3. CASE ~stops
  <2>1. network.online /\ (mem.options.wifiOnly => network.wifi)
    BY <1>3, Zenon
  <2>2. Permitted(mem.options, net) => Permitted(mem'.options, net')
    BY <1>1, <2>1, Zenon DEF Permitted
  <2>3. active' # cancelled' => active # cancelled
    BY <1>1, <1>3
  <2> QED
    BY <1>1, <2>2, <2>3, Zenon DEF RunsOnlyWhilePermitted
<1> QED
  BY <1>2, <1>3

LEMMA PermittedStep ==
  TypeOK /\ CommitInv /\ RunsOnlyWhilePermitted /\ [Next]_vars => RunsOnlyWhilePermitted'
<1> SUFFICES ASSUME TypeOK, CommitInv, RunsOnlyWhilePermitted, [Next]_vars
             PROVE  RunsOnlyWhilePermitted'
  OBVIOUS
<1> USE DEF environment
<1>1. ASSUME NEW c \in Contents, Begin(c) PROVE RunsOnlyWhilePermitted'
  BY <1>1, BeginQuiet, PermittedKept DEF Begin, Quiet
<1>2. ASSUME NEW j \in Ids, Append(j) \/ SendCommit(j) PROVE RunsOnlyWhilePermitted'
  BY <1>2, PermittedKept DEF Append, SendCommit
<1>3. ASSUME NEW j \in Ids, Seal(j) PROVE RunsOnlyWhilePermitted'
  BY <1>3, SealQuiet, PermittedKept DEF Seal, Quiet
<1>4. ASSUME NEW j \in Ids, Cancel(j) PROVE RunsOnlyWhilePermitted'
  <2>1. /\ net' = net /\ stopped' = stopped /\ active' = active
        /\ cancelled' = cancelled \/ (j \in active /\ cancelled' = cancelled \cup {j})
    BY <1>4 DEF Cancel, CancelRunning, CancelIdle
  <2>2. active' # cancelled' => active # cancelled
    BY <2>1 DEF TypeOK
  <2> QED
    BY <1>4, <2>1, <2>2, CancelQuiet, PermittedKept DEF Quiet
<1>5. ASSUME NEW jobs \in SUBSET Ids, RetryJobs(jobs) PROVE RunsOnlyWhilePermitted'
  BY <1>5, RetryQuiet, PermittedKept DEF RetryJobs, Quiet
<1>6. ASSUME ClearCompleted PROVE RunsOnlyWhilePermitted'
  BY <1>6, ClearQuiet, PermittedKept DEF ClearCompleted, Quiet
<1>7. ASSUME Summary \/ AuthorizationChanges \/ UNCHANGED vars
      PROVE  RunsOnlyWhilePermitted'
  BY <1>7, PermittedKept DEF Summary, AuthorizationChanges, vars
<1>8. ASSUME Tick PROVE RunsOnlyWhilePermitted'
  <2>1. Permitted(mem.options, net) /\ net' = net
    BY <1>8 DEF Tick
  <2>2. mem'.options = mem.options
    BY <1>8, TickQuiet DEF Quiet
  <2>3. Permitted(mem'.options, net')
    BY <2>1, <2>2, Zenon DEF Permitted
  <2> QED
    BY <2>3 DEF RunsOnlyWhilePermitted
<1>9. ASSUME NEW j \in Ids, NEW phase \in Running, Progress(j, phase)
      PROVE  RunsOnlyWhilePermitted'
  <2>1. /\ net' = net /\ stopped' = stopped /\ active' = active /\ j \in active
        /\ cancelled' = cancelled \/ cancelled' = cancelled \cup {j}
    BY <1>9 DEF Progress, SavePhase
  <2>2. active' # cancelled' => active # cancelled
    BY <2>1 DEF TypeOK
  <2> QED
    BY <1>9, <2>1, <2>2, ProgressQuiet, PermittedKept DEF Quiet
<1>10. ASSUME NEW j \in Ids, BackoffExpires(j) PROVE RunsOnlyWhilePermitted'
  BY <1>10, BackoffQuiet, PermittedKept DEF BackoffExpires, Quiet
<1>11. ASSUME NEW j \in Ids, NEW outcome \in Outcomes, Finish(j, outcome)
       PROVE  RunsOnlyWhilePermitted'
  <2>1. /\ net' = net /\ stopped' = stopped /\ active' = active \ {j}
        /\ cancelled' = cancelled \ {j}
    BY <1>11 DEF Finish
  <2>2. mem'.options = mem.options
    BY <1>11, FinishFields
  <2>3. active' # cancelled' => active # cancelled
    BY <2>1
  <2> QED
    BY <2>1, <2>2, <2>3, PermittedKept
<1>12. ASSUME Close PROVE RunsOnlyWhilePermitted'
  BY <1>12 DEF Close, RunsOnlyWhilePermitted
<1>13. ASSUME Crash PROVE RunsOnlyWhilePermitted'
  BY <1>13 DEF Crash, ForgetWork, RunsOnlyWhilePermitted
<1>14. ASSUME Open PROVE RunsOnlyWhilePermitted'
  <2>1. active' = {} /\ cancelled' = {}
    BY <1>14 DEF Open, CommitInv, DownIsIdle, TypeOK
  <2> QED
    BY <2>1 DEF RunsOnlyWhilePermitted
<1> QED
  BY <1>1, <1>2, <1>3, <1>4, <1>5, <1>6, <1>7, <1>8, <1>9, <1>10, <1>11, <1>12, <1>13,
     <1>14, ConfigurePermitted, ConditionsPermitted
  DEF Next, Retry, RetryFailed

(* However options, conditions, cancellations and the ends of uploads        *)
(* interleave, no upload goes on against what was last configured and        *)
(* reported without having been told to stop.                                *)
THEOREM UploadsArePermitted == Spec => []RunsOnlyWhilePermitted
<1> QED
  BY InitType, TypeStep, CommitInvInit, CommitInvStep, PermittedInit, PermittedStep, PTL
  DEF Spec

-----------------------------------------------------------------------------
(* What a step of a living process may do to job k, in memory and in the     *)
(* variables that go with it: the life cycle of a job, move by move.         *)

Kept(a, b) == b.content = a.content /\ b.sealed = a.sealed
                 /\ b.originalPolicy = a.originalPolicy

Alike(a, b) == Kept(a, b) /\ b.state = a.state /\ b.error = a.error
                  /\ b.attempts = a.attempts

(* What a worker may leave of a job it was told to cancel. *)
Over == {"completed", "failed", "cancelled"}

(* The files stay, or go once the job is finished in memory and on disk. *)
FilesStay(k) == staging'[k] \in {staging[k], "complete"}
FilesGo(k)   == mem'.jobs[k].state \in Finished /\ disk' = mem'

(* A request to cancel is kept; a new one is to a worker, which is told. *)
Asked(k) ==
    /\ mem.jobs[k].cancelRequested => mem'.jobs[k].cancelRequested
    /\ mem'.jobs[k].cancelRequested =>
         mem.jobs[k].cancelRequested \/ (k \in active /\ k \in cancelled')

Stays(k) ==
    /\ Alike(mem.jobs[k], mem'.jobs[k])
    /\ Asked(k)
    /\ (k \in active') <=> (k \in active)
    /\ k \in hashes => k \in hashes'
    /\ charged'[k] = charged[k]
    /\ k \in inDoubt' => k \in inDoubt \/ mem.jobs[k].state = "committing"
    /\ FilesStay(k)

Created(k) ==
    /\ Serving
    /\ k = issued + 1
    /\ mem'.jobs[k].state = "importing" /\ ~mem'.jobs[k].sealed
    /\ mem'.jobs[k].attempts = 0 /\ ~mem'.jobs[k].cancelRequested
    /\ active' = active /\ k \in hashes' /\ charged' = charged /\ inDoubt' = inDoubt
    /\ disk' \in {disk, mem'}

(* Seal drops a duplicate, cancel takes back an idle job. *)
Dropped(k) ==
    /\ Serving
    /\ mem.jobs[k].state \notin Finished \cup {"none"}
    /\ mem'.jobs[k].state = "cancelled"
    /\ Kept(mem.jobs[k], mem'.jobs[k])
    /\ k \notin active /\ active' = active /\ inDoubt' = inDoubt
    /\ FilesStay(k) \/ FilesGo(k)

Queued(k) ==
    /\ Serving
    /\ mem.jobs[k].state = "importing" /\ mem'.jobs[k].state = "pending"
    /\ mem'.jobs[k].content = mem.jobs[k].content
    /\ mem'.jobs[k].attempts = mem.jobs[k].attempts
    /\ mem'.jobs[k].cancelRequested = mem.jobs[k].cancelRequested
    /\ Duplicates(k) = {} /\ \A i \in Ids : i # k => mem'.jobs[i] = mem.jobs[i]
    /\ disk' \in {disk, mem'}
    /\ staging[k] = "complete" /\ staging' = staging
    /\ charged' = charged /\ inDoubt' = inDoubt

Renewed(k) ==
    /\ Serving
    /\ mem.jobs[k].state = "failed" /\ mem'.jobs[k].state = "pending"
    /\ Kept(mem.jobs[k], mem'.jobs[k])
    /\ mem'.jobs[k].attempts = 0 /\ charged'[k] = 0
    /\ ~mem'.jobs[k].cancelRequested
    /\ k \notin inDoubt' /\ staging' = staging

Cleared(k) ==
    /\ Serving
    /\ mem.jobs[k].state \in Finished /\ mem'.jobs[k].state = "none"
    /\ ~mem'.jobs[k].sealed /\ ~mem'.jobs[k].cancelRequested
    /\ staging' = staging /\ inDoubt' = inDoubt

Begun(k) ==
    /\ Serving
    /\ mem.jobs[k].state = "pending" /\ mem'.jobs[k].state = "preparing"
    /\ mem'.jobs[k].content = mem.jobs[k].content
    /\ mem'.jobs[k].sealed = mem.jobs[k].sealed
    /\ mem'.jobs[k].cancelRequested = mem.jobs[k].cancelRequested
    /\ mem.jobs[k].content.quality = "original" => mem'.jobs[k].originalPolicy = 1
    /\ mem'.jobs[k].attempts = mem.jobs[k].attempts + 1
    /\ ~fault' => k \in active'
    /\ staging' = staging /\ charged' = charged /\ inDoubt' = inDoubt

Phased(k) ==
    /\ k \in active /\ active' = active
    /\ mem.jobs[k].state \in Running \ {"committing"}
    /\ mem'.jobs[k].state \in Running
    /\ Kept(mem.jobs[k], mem'.jobs[k])
    /\ mem'.jobs[k].cancelRequested = mem.jobs[k].cancelRequested
    /\ mem'.jobs[k].attempts = mem.jobs[k].attempts
    /\ staging' = staging /\ charged' = charged /\ inDoubt' = inDoubt

Ended(k) ==
    /\ k \in active /\ k \notin active'
    /\ Kept(mem.jobs[k], mem'.jobs[k])
    /\ mem'.jobs[k].cancelRequested = mem.jobs[k].cancelRequested
    /\ mem.jobs[k].cancelRequested => mem'.jobs[k].state \in Over
    /\ mem'.jobs[k].state = "completed" => mem'.revision > mem.revision
    /\ mem'.jobs[k].state \in {"completed", "failed", "cancelled", "pending"}
    /\ mem.jobs[k].state = "committing" => mem'.jobs[k].state \in {"completed", "failed"}
    /\ mem'.jobs[k].state = "pending" /\ mem.jobs[k].attempts = charged[k] + 1
         => mem'.jobs[k].attempts = charged'[k]
    /\ k \in inDoubt' => k \in inDoubt
    /\ k \in inDoubt' /\ mem.jobs[k].state = "committing"
         => mem'.jobs[k].state = "failed" /\ mem'.jobs[k].error = Unknown
    /\ FilesStay(k) \/ FilesGo(k)

Move(k) == \/ Stays(k) \/ Created(k) \/ Dropped(k) \/ Queued(k) \/ Renewed(k)
           \/ Cleared(k) \/ Begun(k) \/ Phased(k) \/ Ended(k)

(* The disk stays, up to backoffs that expire; or catches up with memory, of *)
(* which a tick may still have saved only the jobs before the one it could   *)
(* not save.                                                                 *)
SameButDelay(a, b) == Alike(a, b) /\ b.cancelRequested = a.cancelRequested

DiskStays == \A k \in Ids : SameButDelay(disk.jobs[k], disk'.jobs[k])
DiskFollows ==
    \A k \in Ids : \/ disk'.jobs[k] = mem'.jobs[k]
                   \/ disk'.jobs[k] = mem.jobs[k] /\ Begun(k)

Moves ==
    /\ \A k \in Ids : Move(k)
    /\ \/ DiskStays /\ disk'.revision = disk.revision
       \/ DiskFollows /\ disk'.revision = mem'.revision

-----------------------------------------------------------------------------
(* Every step of a living process consists of such moves. *)

LEMMA DiskMoves ==
  ASSUME disk' \in {disk, mem'}
  PROVE  \/ DiskStays /\ disk'.revision = disk.revision
         \/ DiskFollows /\ disk'.revision = mem'.revision
BY DEF DiskStays, DiskFollows, SameButDelay, Alike, Kept

(* A step that only changes the job in memory, and possibly the disk. *)
LEMMA StaysAside ==
  ASSUME NEW k \in Ids, mem'.jobs[k] = mem.jobs[k],
         (k \in active') <=> (k \in active), k \in hashes => k \in hashes',
         charged'[k] = charged[k], k \in inDoubt' => k \in inDoubt,
         staging'[k] = staging[k]
  PROVE  Move(k)
BY DEF Move, Stays, Alike, Kept, Asked, FilesStay

LEMMA BeginMoves ==
  ASSUME TypeOK, CommitInv, NEW c \in Contents, Begin(c)
  PROVE  Moves
<1> DEFINE i == issued + 1
<1>1. i \in Ids
  BY ConstantsAssumption DEF Begin, Ids, TypeOK, ConstantsAssumption
<1>2. mem' = SetJob(i, NewJob(c)) /\ disk' \in {disk, mem'}
  BY SaveStep DEF Begin
<1>3. \A k \in Ids : mem'.jobs[k] = IF k = i THEN NewJob(c) ELSE mem.jobs[k]
  BY <1>1, <1>2, NewJobType, SetJobAt DEF TypeOK
<1>4. NewJob(c).state = "importing" /\ NewJob(c).sealed = FALSE /\ NewJob(c).attempts = 0
      /\ NewJob(c).cancelRequested = FALSE
  BY DEF NewJob
<1>5. /\ active' = active /\ hashes' = hashes \cup {i} /\ charged' = charged
      /\ Serving /\ inDoubt' = inDoubt /\ \A k \in Ids : k # i => staging'[k] = staging[k]
  BY <1>1 DEF Begin, history, TypeOK
<1>6. Created(i)
  BY <1>1, <1>2, <1>3, <1>4, <1>5 DEF Created
<1>7. \A k \in Ids : k # i => Move(k)
  BY <1>3, <1>5, StaysAside
<1> QED
  BY <1>2, <1>6, <1>7, DiskMoves DEF Moves, Move

LEMMA AppendMoves ==
  ASSUME TypeOK, NEW j \in Ids, Append(j)
  PROVE  Moves
<1>1. /\ mem' = mem /\ disk' = disk /\ active' = active /\ hashes' = hashes
      /\ charged' = charged /\ inDoubt' = inDoubt
  BY DEF Append, history
<1>2. \A k \in Ids : staging'[k] \in {staging[k], "complete"}
  BY DEF Append, TypeOK
<1>3. \A k \in Ids : Move(k)
  BY <1>1, <1>2 DEF Move, Stays, Alike, Kept, Asked, FilesStay
<1> QED
  BY <1>1, <1>3, DiskMoves DEF Moves

(* A save that removes the files of a finished job removes no others. *)
LEMMA RemovedFiles ==
  ASSUME NEW new, NEW j \in Ids, NEW removed, removed \subseteq {j},
         TypeOK, SaveThenRemove(new, removed)
  PROVE  /\ \A k \in Ids : k # j => staging'[k] = staging[k]
         /\ staging'[j] = staging[j] \/ (j \in removed /\ disk' = mem')
BY DEF SaveThenRemove, RemoveStaging, SaveOk, TypeOK

LEMMA SealMoves ==
  ASSUME TypeOK, CommitInv, NEW j \in Ids, Seal(j)
  PROVE  Moves
<1> DEFINE dropped == [mem.jobs[j] EXCEPT !.state = "cancelled"]
           queued  == [mem.jobs[j] EXCEPT !.state = "pending", !.sealed = TRUE]
<1>1. /\ mem.jobs[j] \in Job /\ mem.jobs[j].state = "importing"
      /\ staging[j] = "complete"
  BY JobType DEF TypeOK, Seal
<1>2. /\ dropped \in Job /\ dropped.state = "cancelled" /\ Kept(mem.jobs[j], dropped)
      /\ queued \in Job /\ queued.state = "pending"
      /\ queued.content = mem.jobs[j].content
      /\ queued.attempts = mem.jobs[j].attempts
      /\ queued.cancelRequested = mem.jobs[j].cancelRequested
  <2>1. dropped \in Job /\ queued \in Job
    BY <1>1, JobChange, StateNames DEF Finished
  <2>2. /\ dropped.state = "cancelled" /\ Kept(mem.jobs[j], dropped)
        /\ queued.state = "pending" /\ queued.content = mem.jobs[j].content
    BY <1>1 DEF Job, Kept
  <2>3. /\ queued.attempts = mem.jobs[j].attempts
        /\ queued.cancelRequested = mem.jobs[j].cancelRequested
    BY <1>1 DEF Job
  <2> QED
    BY <2>1, <2>2, <2>3
<1>3. j \notin active
  BY <1>1 DEF CommitInv, WorkersRun, Running
<1>4. /\ active' = active /\ hashes' = hashes \ {j} /\ charged' = charged
      /\ inDoubt' = inDoubt /\ Serving
  BY DEF Seal, history
<1>5. CASE Duplicates(j) # {}
  <2>1. SaveThenRemove(SetJob(j, dropped), {j})
    BY <1>5 DEF Seal
  <2> HIDE DEF dropped, queued
  <2>2. mem' = SetJob(j, dropped) /\ disk' \in {disk, mem'}
    BY <2>1, SaveThenRemoveStep
  <2>3. \A k \in Ids : mem'.jobs[k] = IF k = j THEN dropped ELSE mem.jobs[k]
    BY <1>2, <2>2, SetJobAt DEF TypeOK
  <2>4. /\ \A k \in Ids : k # j => staging'[k] = staging[k]
        /\ staging'[j] = staging[j] \/ disk' = mem'
    BY <2>1, RemovedFiles
  <2>5. Dropped(j)
    BY <1>1, <1>2, <1>3, <1>4, <2>3, <2>4
    DEF Dropped, FilesStay, FilesGo, Finished
  <2>6. \A k \in Ids : k # j => Move(k)
    BY <1>4, <2>3, <2>4, StaysAside
  <2> QED
    BY <2>2, <2>5, <2>6, DiskMoves DEF Moves, Move
<1>6. CASE Duplicates(j) = {}
  <2>1. Save(SetJob(j, queued)) /\ staging' = staging
    BY <1>6 DEF Seal
  <2> HIDE DEF dropped, queued
  <2>2. mem' = SetJob(j, queued) /\ disk' \in {disk, mem'}
    BY <2>1, SaveStep
  <2>3. \A k \in Ids : mem'.jobs[k] = IF k = j THEN queued ELSE mem.jobs[k]
    BY <1>2, <2>2, SetJobAt DEF TypeOK
  <2>4. Queued(j)
    BY <1>1, <1>2, <1>4, <1>6, <2>1, <2>2, <2>3 DEF Queued
  <2>5. \A k \in Ids : k # j => Move(k)
    BY <1>4, <2>1, <2>3, StaysAside
  <2> QED
    BY <2>2, <2>4, <2>5, DiskMoves DEF Moves, Move
<1> QED
  BY <1>5, <1>6

LEMMA CancelMoves ==
  ASSUME TypeOK, CommitInv, NEW j \in Ids, Cancel(j)
  PROVE  Moves
<1> DEFINE asked == [mem.jobs[j] EXCEPT !.cancelRequested = TRUE]
           gone  == Withdrawn(mem.jobs[j])
<1>1. mem.jobs[j] \in Job /\ mem.jobs[j].state \notin Finished \cup {"none"}
  BY JobType DEF TypeOK, Cancel
<1>2. /\ asked \in Job /\ Alike(mem.jobs[j], asked) /\ asked.cancelRequested
      /\ gone \in Job /\ gone.state = "cancelled" /\ Kept(mem.jobs[j], gone)
  <2>1. asked \in Job /\ gone \in Job
    BY <1>1, JobChange, StateNames DEF Finished, Withdrawn
  <2>2. Alike(mem.jobs[j], asked) /\ asked.cancelRequested
    BY <1>1 DEF Job, Alike, Kept
  <2>3. gone.state = "cancelled" /\ Kept(mem.jobs[j], gone)
    BY <1>1 DEF Job, Withdrawn, Kept
  <2> QED
    BY <2>1, <2>2, <2>3
<1>3. Serving /\ active' = active /\ charged' = charged /\ inDoubt' = inDoubt
  BY DEF Cancel, history
<1>4. CASE CancelRunning(j)
  <2>1. /\ Save(SetJob(j, asked)) /\ staging' = staging /\ hashes' = hashes
        /\ j \in active /\ j \in cancelled'
    BY <1>4 DEF CancelRunning
  <2> HIDE DEF asked, gone
  <2>2. mem' = SetJob(j, asked) /\ disk' \in {disk, mem'}
    BY <2>1, SaveStep
  <2>3. \A k \in Ids : mem'.jobs[k] = IF k = j THEN asked ELSE mem.jobs[k]
    BY <1>2, <2>2, SetJobAt DEF TypeOK
  <2>4. Stays(j)
    BY <1>2, <1>3, <2>1, <2>3 DEF Stays, Asked, FilesStay
  <2>5. \A k \in Ids : k # j => Move(k)
    BY <1>3, <2>1, <2>3, StaysAside
  <2> QED
    BY <2>2, <2>4, <2>5, DiskMoves DEF Moves, Move
<1>5. CASE CancelIdle(j)
  <2>1. /\ SaveThenRemove(SetJob(j, gone), {j})
        /\ j \notin active /\ hashes' = hashes \ {j}
    BY <1>5 DEF CancelIdle
  <2> HIDE DEF asked, gone
  <2>2. mem' = SetJob(j, gone) /\ disk' \in {disk, mem'}
    BY <2>1, SaveThenRemoveStep
  <2>3. \A k \in Ids : mem'.jobs[k] = IF k = j THEN gone ELSE mem.jobs[k]
    BY <1>2, <2>2, SetJobAt DEF TypeOK
  <2>4. /\ \A k \in Ids : k # j => staging'[k] = staging[k]
        /\ staging'[j] = staging[j] \/ disk' = mem'
    BY <2>1, RemovedFiles
  <2>5. Dropped(j)
    BY <1>1, <1>2, <1>3, <2>1, <2>3, <2>4
    DEF Dropped, FilesStay, FilesGo, Finished
  <2>6. \A k \in Ids : k # j => Move(k)
    BY <1>3, <2>1, <2>3, <2>4, StaysAside
  <2> QED
    BY <2>2, <2>5, <2>6, DiskMoves DEF Moves, Move
<1> QED
  BY <1>4, <1>5 DEF Cancel

LEMMA ResetRetryFields ==
  ASSUME NEW job \in Job
  PROVE  /\ ResetRetry(job).state = "pending" /\ ResetRetry(job).attempts = 0
         /\ Kept(job, ResetRetry(job)) /\ ~ResetRetry(job).cancelRequested
BY DEF ResetRetry, Job, Kept

LEMMA RetryMoves ==
  ASSUME TypeOK, CommitInv, NEW jobs \in SUBSET Ids, RetryJobs(jobs),
         \A j \in jobs : mem.jobs[j].state = "failed"
  PROVE  Moves
<1> DEFINE list == [j \in Ids |-> IF j \in jobs THEN ResetRetry(mem.jobs[j])
                                                ELSE mem.jobs[j]]
           new == [mem EXCEPT !.jobs = list]
<1>1. list \in [Ids -> Job]
  BY JobType, ResetRetryType DEF TypeOK
<1>2. \A j \in Ids : new.jobs[j] = IF j \in jobs THEN ResetRetry(mem.jobs[j])
                                                ELSE mem.jobs[j]
  BY <1>1, SetJobsAt DEF TypeOK
<1>3. mem' = new /\ disk' \in {disk, new}
  BY SaveStep DEF RetryJobs
<1>4. /\ active' = active /\ hashes' = hashes /\ staging' = staging
      /\ Serving /\ inDoubt' = inDoubt \ jobs
      /\ \A k \in Ids : charged'[k] = IF k \in jobs THEN 0 ELSE charged[k]
  BY DEF RetryJobs
<1> HIDE DEF list, new
<1>5. ASSUME NEW k \in jobs PROVE Renewed(k)
  <2>1. mem.jobs[k] \in Job
    BY JobType DEF TypeOK
  <2> QED
    BY <1>2, <1>3, <1>4, <2>1, ResetRetryFields DEF Renewed
<1>6. \A k \in Ids : k \notin jobs => Move(k)
  BY <1>2, <1>3, <1>4, StaysAside
<1> QED
  BY <1>3, <1>5, <1>6, DiskMoves DEF Moves, Move

LEMMA ClearMoves ==
  ASSUME TypeOK, CommitInv, ClearCompleted
  PROVE  Moves
<1> DEFINE list == [j \in Ids |-> IF mem.jobs[j].state \in Finished
                                    THEN NoJob ELSE mem.jobs[j]]
           new == [mem EXCEPT !.jobs = list]
<1>1. list \in [Ids -> Job]
  BY JobType, NoJobType DEF TypeOK
<1>2. \A j \in Ids : new.jobs[j] = IF mem.jobs[j].state \in Finished
                                    THEN NoJob ELSE mem.jobs[j]
  BY <1>1, SetJobsAt DEF TypeOK
<1>3. mem' = new /\ disk' \in {disk, new}
  BY SaveStep DEF ClearCompleted
<1>4. /\ active' = active /\ hashes' = hashes /\ staging' = staging
      /\ Serving /\ inDoubt' = inDoubt /\ charged' = charged
  BY DEF ClearCompleted, history
<1>5. NoJob.state = "none" /\ NoJob.sealed = FALSE /\ NoJob.cancelRequested = FALSE
  BY DEF NoJob, NewJob
<1> HIDE DEF list, new
<1>6. \A k \in Ids : mem.jobs[k].state \in Finished => Cleared(k)
  BY <1>2, <1>3, <1>4, <1>5 DEF Cleared
<1>7. \A k \in Ids : mem.jobs[k].state \notin Finished => Move(k)
  BY <1>2, <1>3, <1>4, StaysAside
<1> QED
  BY <1>3, <1>6, <1>7, DiskMoves DEF Moves, Move

LEMMA ConfigureMoves ==
  ASSUME TypeOK, NEW options \in OptionSets, Configure(options)
  PROVE  Moves
<1> DEFINE new == [mem EXCEPT !.options = options]
<1>1. new.jobs = mem.jobs /\ new.revision = mem.revision
  BY DEF TypeOK, Store
<1>2. /\ active' = active /\ hashes' = hashes /\ staging' = staging
      /\ inDoubt' = inDoubt /\ charged' = charged
  BY DEF Configure, history
<1>3. (mem' = mem /\ disk' = disk) \/ Save(new)
  BY DEF Configure
<1> HIDE DEF new
<1>4. mem'.jobs = mem.jobs /\ disk' \in {disk, mem'}
  BY <1>1, <1>3, SaveStep
<1> QED
  BY <1>2, <1>4, StaysAside, DiskMoves DEF Moves

LEMMA StartedFields ==
  ASSUME NEW job \in Job
  PROVE  /\ Started(job).state = "preparing" /\ Started(job).content = job.content
         /\ Started(job).sealed = job.sealed
         /\ Started(job).cancelRequested = job.cancelRequested
         /\ Started(job).attempts = job.attempts + 1
         /\ job.content.quality = "original" => Started(job).originalPolicy = 1
BY DEF Started, Job

LEMMA TickMoves ==
  ASSUME TypeOK, CommitInv, Tick
  PROVE  Moves
<1>1. PICK saved, marked \in SUBSET Chosen :
         /\ saved \subseteq marked
         /\ mem' = WithStarted(marked)
         /\ disk' \in {disk, WithStarted(saved), WithStarted(marked)}
         /\ active' = active \cup saved
         /\ ~fault' => saved = marked
  BY TickEffect
<1>2. \A j \in marked : j \in Ids /\ mem.jobs[j].state = "pending"
  BY DEF Chosen, Eligible
<1>3. \A jobs, k : k \in Ids =>
         WithStarted(jobs).jobs[k] = IF k \in jobs THEN Started(mem.jobs[k])
                                                   ELSE mem.jobs[k]
  BY WithStartedAt DEF TypeOK
<1>4. /\ hashes' = hashes /\ staging' = staging /\ inDoubt' = inDoubt
      /\ charged' = charged /\ Serving
  BY DEF Tick, history
<1>5. ASSUME NEW k \in marked PROVE Begun(k)
  <2>1. k \in Ids /\ mem.jobs[k] \in Job /\ mem'.jobs[k] = Started(mem.jobs[k])
    BY <1>1, <1>2, <1>3, JobType DEF TypeOK
  <2>2. ~fault' => k \in active'
    BY <1>1
  <2> QED
    BY <1>2, <1>4, <2>1, <2>2, StartedFields DEF Begun
<1>6. ASSUME NEW k \in Ids, k \notin marked PROVE Move(k)
  <2>1. mem'.jobs[k] = mem.jobs[k] /\ ((k \in active') <=> (k \in active))
    BY <1>1, <1>3, <1>6
  <2> QED
    BY <1>4, <2>1, StaysAside
<1>7. \/ DiskStays /\ disk'.revision = disk.revision
      \/ DiskFollows /\ disk'.revision = mem'.revision
  <2>1. CASE disk' \in {disk, mem'}
    BY <2>1, DiskMoves
  <2>2. CASE disk' = WithStarted(saved)
    <3>1. ASSUME NEW k \in Ids
          PROVE  \/ disk'.jobs[k] = mem'.jobs[k]
                 \/ disk'.jobs[k] = mem.jobs[k] /\ Begun(k)
      BY <1>1, <1>3, <1>5, <2>2
    <3>2. disk'.revision = mem'.revision
      BY <1>1, <2>2, WithStartedFields DEF TypeOK
    <3> QED
      BY <3>1, <3>2 DEF DiskFollows
  <2> QED
    BY <1>1, <2>1, <2>2
<1> QED
  BY <1>5, <1>6, <1>7 DEF Moves, Move

LEMMA ProgressMoves ==
  ASSUME TypeOK, CommitInv, NEW j \in Ids, NEW phase \in Running, Progress(j, phase)
  PROVE  Moves
<1> DEFINE job == [mem.jobs[j] EXCEPT !.state = phase]
           new == SetJob(j, job)
<1>1. /\ job \in Job /\ job.state = phase /\ Kept(mem.jobs[j], job)
      /\ job.attempts = mem.jobs[j].attempts
      /\ job.cancelRequested = mem.jobs[j].cancelRequested
  <2>1. mem.jobs[j] \in Job
    BY JobType DEF TypeOK
  <2> QED
    BY <2>1, JobChange, StateNames DEF Job, Kept
<1>2. \A k \in Ids : new.jobs[k] = IF k = j THEN job ELSE mem.jobs[k]
  BY <1>1, SetJobAt DEF TypeOK
<1>3. /\ mem' = new /\ disk' \in {disk, new} /\ j \in active
      /\ mem.jobs[j].state \in Running \ {"committing"}
      /\ UNCHANGED <<active, hashes, staging, charged, inDoubt>>
  BY DEF Progress, SavePhase, SaveOk, SaveFails, history
<1> HIDE DEF job, new
<1>4. Phased(j)
  BY <1>1, <1>2, <1>3 DEF Phased
<1>5. \A k \in Ids : k # j => Move(k)
  BY <1>2, <1>3, StaysAside
<1> QED
  BY <1>3, <1>4, <1>5, DiskMoves DEF Moves, Move

LEMMA SendCommitMoves ==
  ASSUME TypeOK, NEW j \in Ids, SendCommit(j)
  PROVE  Moves
<1>1. /\ UNCHANGED <<mem, disk, active, hashes, staging, charged>>
      /\ inDoubt' = inDoubt \cup {j} /\ mem.jobs[j].state = "committing"
  BY DEF SendCommit
<1>2. \A k \in Ids : Move(k)
  BY <1>1 DEF Move, Stays, Alike, Kept, Asked, FilesStay
<1> QED
  BY <1>1, <1>2, DiskMoves DEF Moves

LEMMA BackoffMoves ==
  ASSUME TypeOK, NEW j \in Ids, BackoffExpires(j)
  PROVE  Moves
<1>1. ASSUME NEW store \in Store, NEW k \in Ids
      PROVE  SameButDelay(store.jobs[k], [store EXCEPT !.jobs[j].delayed = FALSE].jobs[k])
  BY DEF Store, Job, SameButDelay, Alike, Kept
<1>2. \A k \in Ids : /\ SameButDelay(mem.jobs[k], mem'.jobs[k])
                     /\ SameButDelay(disk.jobs[k], disk'.jobs[k])
  BY <1>1 DEF BackoffExpires, TypeOK
<1>3. UNCHANGED <<active, hashes, staging, charged, inDoubt>>
  BY DEF BackoffExpires, history
<1>4. \A k \in Ids : Move(k)
  BY <1>2, <1>3 DEF Move, Stays, SameButDelay, Asked, FilesStay
<1> QED
  BY <1>2, <1>4, BackoffQuiet DEF Moves, DiskStays

(* What execute makes of a job: a commit in doubt is failed as such, and a   *)
(* job that is queued again has paid for its attempt or got it back.         *)
LEMMA OutcomeFields ==
  ASSUME NEW job \in Job, NEW outcome \in Outcomes
  PROVE  /\ Kept(job, Outcome(job, outcome))
         /\ job.state = "committing" =>
              Outcome(job, outcome).state \in {"completed", "failed"}
         /\ job.state = "committing" /\ outcome \notin {"success", "exists"} =>
              Outcome(job, outcome).state = "failed" /\ Outcome(job, outcome).error = Unknown
         /\ Outcome(job, outcome).state = "pending" /\ job.attempts > 0 =>
              Outcome(job, outcome).attempts =
                IF Charges(job, outcome) THEN job.attempts ELSE job.attempts - 1
         /\ Outcome(job, outcome).cancelRequested = job.cancelRequested
         /\ job.cancelRequested => Outcome(job, outcome).state \in Over
         /\ Outcome(job, outcome).state = "completed" => outcome = "success"
<1> DEFINE given == Refunded(job)
<1>1. /\ given \in Job /\ given.state = "pending" /\ Kept(job, given)
      /\ job.attempts > 0 => given.attempts = job.attempts - 1
      /\ given.cancelRequested = job.cancelRequested
  BY RefundedType DEF Refunded, Job, Kept
<1> HIDE DEF given
<1>2. LET now == [given EXCEPT !.delayed = FALSE]
      IN  /\ now.state = "pending" /\ Kept(job, now) /\ now.attempts = given.attempts
          /\ now.cancelRequested = given.cancelRequested
  BY <1>1 DEF Job, Kept
<1>3. CASE outcome = "success"
  BY <1>3 DEF Outcome, Job, Kept, Over
<1>4. CASE outcome = "exists"
  BY <1>4 DEF Outcome, Job, Kept, Over
<1>5. CASE outcome \in {"canceled", "error"} /\ job.state = "committing"
  <2>1. Outcome(job, outcome) = [job EXCEPT !.state = "failed", !.error = Unknown]
    BY <1>5 DEF Outcome
  <2> QED
    BY <1>5, <2>1 DEF Job, Kept, Over
<1>6. CASE outcome \in {"canceled", "error"} /\ job.state # "committing"
  <2>1. CASE job.cancelRequested
    <3>1. Outcome(job, outcome) = [job EXCEPT !.state = "cancelled", !.error = ""]
      BY <1>6, <2>1 DEF Outcome
    <3> QED
      BY <1>6, <3>1 DEF Job, Kept, Over
  <2>2. CASE ~job.cancelRequested /\ (stopped \/ outcome = "canceled")
    <3>1. Outcome(job, outcome) = given
      BY <1>6, <2>2 DEF Outcome, given
    <3>2. ~Charges(job, outcome)
      BY <2>2 DEF Charges
    <3> QED
      BY <1>1, <1>6, <2>2, <3>1, <3>2
  <2>3. CASE ~job.cancelRequested /\ ~stopped /\ outcome # "canceled"
             /\ job.content.account \in waiting
    <3>1. Outcome(job, outcome) = [given EXCEPT !.delayed = FALSE]
      BY <1>6, <2>3 DEF Outcome, given
    <3>2. ~Charges(job, outcome)
      BY <2>3 DEF Charges
    <3> QED
      BY <1>1, <1>2, <1>6, <2>3, <3>1, <3>2
  <2>4. CASE ~job.cancelRequested /\ ~stopped /\ outcome # "canceled"
             /\ job.content.account \notin waiting
    <3>1. Charges(job, outcome)
      BY <1>6, <2>4 DEF Charges
    <3>2. \/ Outcome(job, outcome) =
               [job EXCEPT !.state = "pending", !.error = "other", !.delayed = TRUE]
          \/ Outcome(job, outcome) = [job EXCEPT !.state = "failed", !.error = "other"]
      BY <1>6, <2>4 DEF Outcome
    <3> QED
      BY <1>6, <2>4, <3>1, <3>2 DEF Job, Kept
  <2> QED
    BY <2>1, <2>2, <2>3, <2>4
<1> QED
  BY <1>3, <1>4, <1>5, <1>6 DEF Outcomes

LEMMA FinishMoves ==
  ASSUME TypeOK, CommitInv, NEW j \in Ids, NEW outcome \in Outcomes, Finish(j, outcome)
  PROVE  Moves
<1> DEFINE job == Outcome(mem.jobs[j], outcome)
           new == [SetJob(j, job) EXCEPT
                     !.revision = IF outcome = "success" THEN @ + 1 ELSE @]
           removed == IF job.state \in Finished THEN {j} ELSE {}
<1>1. /\ mem.jobs[j] \in Job /\ job \in Job
      /\ job.state \in {"completed", "failed", "cancelled", "pending"}
      /\ Kept(mem.jobs[j], job)
      /\ mem.jobs[j].state = "committing" => job.state \in {"completed", "failed"}
      /\ mem.jobs[j].state = "committing" /\ outcome \notin {"success", "exists"} =>
           job.state = "failed" /\ job.error = Unknown
      /\ job.state = "pending" /\ mem.jobs[j].attempts > 0 =>
           job.attempts = IF Charges(mem.jobs[j], outcome) THEN mem.jobs[j].attempts
                                                           ELSE mem.jobs[j].attempts - 1
      /\ job.cancelRequested = mem.jobs[j].cancelRequested
      /\ mem.jobs[j].cancelRequested => job.state \in Over
      /\ job.state = "completed" => outcome = "success"
  BY JobType, OutcomeType, OutcomeState, OutcomeFields DEF TypeOK
<1>2. \A k \in Ids : new.jobs[k] = IF k = j THEN job ELSE mem.jobs[k]
  <2>1. SetJob(j, job) \in Store
    BY <1>1, SetJobType DEF TypeOK
  <2>2. new.jobs = SetJob(j, job).jobs
    BY <2>1 DEF Store
  <2> QED
    BY <1>1, <2>2, SetJobAt DEF TypeOK
<1>3. outcome = "success" => new.revision > mem.revision
  <2>1. SetJob(j, job) \in Store /\ SetJob(j, job).revision = mem.revision
    BY <1>1, SetJobType, SetJobFields DEF TypeOK
  <2> QED
    BY <2>1 DEF Store
<1>4. SaveThenRemove(new, removed)
  BY DEF Finish
<1>5. /\ j \in active /\ active' = active \ {j} /\ hashes' = hashes
      /\ inDoubt' = IF outcome \in {"success", "exists"} THEN inDoubt \ {j} ELSE inDoubt
      /\ \A k \in Ids : k # j => charged'[k] = charged[k]
      /\ charged'[j] = IF Charges(mem.jobs[j], outcome) THEN charged[j] + 1 ELSE charged[j]
      /\ charged[j] \in Nat
  BY DEF Finish, TypeOK
<1>6. (job.state \notin Finished => removed = {}) /\ removed \subseteq {j}
  OBVIOUS
<1> HIDE DEF job, new, removed
<1>7. mem' = new /\ disk' \in {disk, mem'}
  BY <1>4, SaveThenRemoveStep
<1>8. /\ \A k \in Ids : k # j => staging'[k] = staging[k]
      /\ staging'[j] = staging[j] \/ (job.state \in Finished /\ disk' = mem')
  BY <1>4, <1>6, RemovedFiles
<1>9. Ended(j)
  <2>1. mem'.jobs[j] = job
    BY <1>2, <1>7
  <2>2. mem'.jobs[j].state = "pending" /\ mem.jobs[j].attempts = charged[j] + 1
          => mem'.jobs[j].attempts = charged'[j]
    <3>1. CASE Charges(mem.jobs[j], outcome)
      BY <1>1, <1>5, <2>1, <3>1
    <3>2. CASE ~Charges(mem.jobs[j], outcome)
      BY <1>1, <1>5, <2>1, <3>2
    <3> QED
      BY <3>1, <3>2
  <2>3. /\ j \in inDoubt' => j \in inDoubt
        /\ j \in inDoubt' /\ mem.jobs[j].state = "committing"
             => job.state = "failed" /\ job.error = Unknown
    BY <1>1, <1>5
  <2>4. FilesStay(j) \/ FilesGo(j)
    BY <1>8, <2>1 DEF FilesStay, FilesGo
  <2> QED
    BY <1>1, <1>5, <1>7, <1>3, <2>1, <2>2, <2>3, <2>4 DEF Ended
<1>10. \A k \in Ids : k # j => Move(k)
  BY <1>2, <1>5, <1>7, <1>8, StaysAside
<1> QED
  BY <1>7, <1>9, <1>10, DiskMoves DEF Moves, Move

LEMMA MovesStep ==
  ASSUME TypeOK, CommitInv, [Next]_vars
  PROVE  Moves \/ Crash \/ Open
<1>1. ASSUME mem' = mem, disk' = disk,
             UNCHANGED <<active, hashes, staging, charged, inDoubt>>
      PROVE  Moves
  BY <1>1, StaysAside, DiskMoves DEF Moves
<1>2. ASSUME Summary \/ AuthorizationChanges \/ Close \/ UNCHANGED vars
      PROVE  Moves
  BY <1>1, <1>2 DEF Summary, AuthorizationChanges, Close, vars, history
<1>3. ASSUME NEW network \in Networks, Conditions(network) PROVE Moves
  BY <1>1, <1>3 DEF Conditions, history
<1>4. ASSUME NEW j \in Ids, Retry(j) PROVE Moves
  BY <1>4, RetryMoves DEF Retry
<1>5. ASSUME RetryFailed PROVE Moves
  BY <1>5, RetryMoves DEF RetryFailed
<1> QED
  BY <1>2, <1>3, <1>4, <1>5, BeginMoves, AppendMoves, SealMoves, CancelMoves, ClearMoves,
     ConfigureMoves, TickMoves, ProgressMoves, SendCommitMoves, BackoffMoves, FinishMoves
  DEF Next

(* A fault stays until the process dies. *)
LEMMA SaveKeepsFault == ASSUME NEW new, Save(new), ~fault' PROVE ~fault
BY DEF Save, SaveOk, SaveFails

LEMMA SaveThenRemoveKeepsFault ==
  ASSUME NEW new, NEW removed, SaveThenRemove(new, removed), ~fault' PROVE ~fault
BY DEF SaveThenRemove, SaveOk, SaveFails

LEMMA FaultStep ==
  ASSUME [Next]_vars, up', ~fault', ~Crash, ~Open
  PROVE  up /\ ~fault
<1>1. ASSUME Serving PROVE up /\ ~fault
  BY <1>1 DEF Serving
<1>2. ASSUME UNCHANGED <<up, fault>> PROVE up /\ ~fault
  BY <1>2, Zenon
<1>3. ASSUME NEW j \in Ids, NEW phase \in Running, Progress(j, phase)
      PROVE  up /\ ~fault
  <2>1. \A new : SavePhase(j, new) => Save(new)
    BY DEF SavePhase, Save
  <2> QED
    BY <1>3, <2>1, SaveKeepsFault DEF Progress
<1>4. ASSUME NEW j \in Ids, NEW outcome \in Outcomes, Finish(j, outcome)
      PROVE  up /\ ~fault
  BY <1>4, SaveThenRemoveKeepsFault DEF Finish
<1>5. ASSUME Tick PROVE up /\ ~fault
  BY <1>1, <1>5 DEF Tick
<1> QED
  BY <1>1, <1>2, <1>3, <1>4, <1>5
  DEF Next, Begin, Append, Seal, Cancel, Retry, RetryFailed, RetryJobs, ClearCompleted,
      Summary, Configure, Conditions, SendCommit, BackoffExpires, AuthorizationChanges,
      Close, vars

(* What recovery makes of a job. *)
LEMMA RecoveredFields ==
  ASSUME NEW job \in Job
  PROVE  /\ Recovered(job) \in Job /\ Kept(job, Recovered(job))
         /\ Recovered(job).attempts = job.attempts
         /\ Recovered(job).cancelRequested = job.cancelRequested
         /\ Recovered(job).state \in {"none", "pending", "failed"} \cup Finished
         /\ Recovered(job).state \in {"pending", "failed"} =>
              job.state \in {"pending", "failed"} \cup Running
         /\ Recovered(job).state = "pending" => ~job.cancelRequested
         /\ job.state \in {"none", "completed", "cancelled"} =>
              Recovered(job).state = job.state
         /\ Recovered(job).state = "completed" => job.state = "completed"
         /\ job.state = "committing" =>
              Recovered(job).state = "failed" /\ Recovered(job).error = Unknown
         /\ job.state = "failed" =>
              Recovered(job).state = "failed" /\ Recovered(job).error = job.error
<1> DEFINE now == Interrupted(job)
<1>1. /\ now \in Job /\ Kept(job, now) /\ now.attempts = job.attempts
      /\ now.cancelRequested = job.cancelRequested
  BY InterruptedType DEF Interrupted, Job, Kept
<1>2. /\ now.state \in {"none", "pending", "failed"} \cup Finished
      /\ now.state = "pending" => job.state \in {"pending", "preparing", "uploading"}
      /\ now.state = "failed" => job.state \in {"failed", "committing"}
      /\ now.state = "completed" => job.state = "completed"
      /\ job.state \in {"none", "completed", "cancelled"} => now.state = job.state
      /\ job.state = "committing" => now.state = "failed" /\ now.error = Unknown
      /\ job.state = "failed" => now.state = "failed" /\ now.error = job.error
  BY DEF Interrupted, Job, States, Running, Finished
<1> HIDE DEF now
<1>3. CASE job.cancelRequested /\ now.state = "pending"
  <2>1. Recovered(job) = [now EXCEPT !.state = "cancelled"]
    BY <1>3 DEF Recovered, now
  <2>2. /\ Recovered(job).state = "cancelled" /\ Kept(now, Recovered(job))
        /\ Recovered(job).attempts = now.attempts
        /\ Recovered(job).cancelRequested = now.cancelRequested
    BY <1>1, <2>1 DEF Job, Kept
  <2> QED
    BY <1>1, <1>2, <1>3, <2>2, RecoveredType DEF Kept, Finished
<1>4. CASE ~(job.cancelRequested /\ now.state = "pending")
  <2>1. Recovered(job) = now
    BY <1>4 DEF Recovered, now
  <2> QED
    BY <1>1, <1>2, <1>4, <2>1 DEF Running
<1> QED
  BY <1>3, <1>4

(* What a start of the process, successful or not, makes of memory and disk. *)
LEMMA OpenJobs ==
  ASSUME TypeOK, Open
  PROVE  /\ mem' = disk'
         /\ \/ disk' = disk
            \/ \A k \in Ids : disk'.jobs[k] = Recovered(disk.jobs[k])
         /\ up' => \A k \in Ids : disk'.jobs[k] = Recovered(disk.jobs[k])
         /\ \A k \in Ids : disk.jobs[k] \in Job
<1> DEFINE list == [j \in Ids |-> Recovered(disk.jobs[j])]
           new == [disk EXCEPT !.jobs = list]
<1>1. list \in [Ids -> Job]
  BY JobType, RecoveredType DEF TypeOK
<1>2. \A j \in Ids : new.jobs[j] = Recovered(disk.jobs[j])
  BY <1>1, SetJobsAt DEF TypeOK
<1>3. /\ mem' = disk' /\ disk' \in {disk, new}
      /\ up' => disk' = new
  BY Zenon DEF Open
<1>4. \A k \in Ids : disk.jobs[k] \in Job
  BY JobType DEF TypeOK
<1> HIDE DEF list, new
<1> QED
  BY <1>2, <1>3, <1>4

-----------------------------------------------------------------------------
(* Workers and running jobs. *)

RunningHasWorker ==
    up /\ ~fault => \A j \in Ids : mem.jobs[j].state \in Running => j \in active

LEMMA WorkerStep ==
  TypeOK /\ CommitInv /\ RunningHasWorker /\ [Next]_vars => RunningHasWorker'
<1> SUFFICES ASSUME TypeOK, CommitInv, RunningHasWorker, [Next]_vars,
                    up', ~fault', NEW k \in Ids, mem'.jobs[k].state \in Running
             PROVE  k \in active'
  BY DEF RunningHasWorker
<1>1. CASE Crash
  BY <1>1 DEF Crash
<1>2. CASE Open
  <2>1. mem'.jobs[k] = Recovered(disk.jobs[k]) /\ disk.jobs[k] \in Job
    BY <1>2, OpenJobs
  <2>2. mem'.jobs[k].state \notin Running
    BY <2>1, RecoveredFields DEF Running, Finished
  <2> QED
    BY <2>2
<1>3. CASE ~Crash /\ ~Open
  <2>1. up /\ ~fault
    BY <1>3, FaultStep
  <2>2. mem.jobs[k].state \in Running => k \in active
    BY <2>1 DEF RunningHasWorker
  <2>3. Move(k)
    BY <1>3, MovesStep DEF Moves
  <2>4. CASE Stays(k)
    BY <2>2, <2>4 DEF Stays, Alike
  <2>5. CASE Created(k) \/ Dropped(k) \/ Queued(k) \/ Renewed(k) \/ Cleared(k) \/ Ended(k)
    BY <2>5 DEF Created, Dropped, Queued, Renewed, Cleared, Ended, Running
  <2>6. CASE Begun(k)
    BY <2>6 DEF Begun
  <2>7. CASE Phased(k)
    BY <2>7 DEF Phased
  <2> QED
    BY <2>3, <2>4, <2>5, <2>6, <2>7 DEF Move
<1> QED
  BY <1>1, <1>2, <1>3

(* While no save has failed the running jobs are exactly those with a        *)
(* worker, so that cancel, the tick and the completions never act on a job   *)
(* that someone else is working on.                                          *)
THEOREM WorkersAreMatched == Spec => []WorkersMatchStates
<1>1. CommitInv /\ RunningHasWorker => WorkersMatchStates
  BY DEF CommitInv, WorkersRun, RunningHasWorker, WorkersMatchStates
<1>2. Init => RunningHasWorker
  BY DEF Init, RunningHasWorker
<1> QED
  BY <1>1, <1>2, InitType, TypeStep, CommitInvInit, CommitInvStep, WorkerStep, PTL DEF Spec

-----------------------------------------------------------------------------
(* Commits in doubt. *)

Reported(job) ==
    \/ job.state \in {"committing", "cancelled", "none"}
    \/ job.state = "failed" /\ job.error = Unknown

DoubtInv ==
    \A j \in inDoubt :
        j <= issued /\ Reported(mem.jobs[j]) /\ Reported(disk.jobs[j])

LEMMA IssuedStep ==
  ASSUME TypeOK, [Next]_vars
  PROVE  issued' \in Nat /\ issued \in Nat /\ issued <= issued'
<1>1. issued \in Nat
  BY DEF TypeOK
<1>2. issued' = issued \/ issued' = issued + 1
  BY DEF Next, Begin, Append, Seal, Cancel, Retry, RetryFailed, RetryJobs,
         ClearCompleted, Summary, Configure, Conditions, Tick, Progress, SendCommit,
         BackoffExpires, Finish, AuthorizationChanges, Close, Crash, Open, vars
<1> QED
  BY <1>1, <1>2

(* Only a commit request that goes out puts a job in doubt. *)
LEMMA DoubtStep ==
  ASSUME [Next]_vars
  PROVE  inDoubt' \subseteq inDoubt \cup sent'
BY DEF Next, Begin, Append, Seal, Cancel, Retry, RetryFailed, RetryJobs,
       ClearCompleted, Summary, Configure, Conditions, Tick, Progress, SendCommit,
       BackoffExpires, Finish, AuthorizationChanges, Close, Crash, Open, vars, history

LEMMA DoubtInvStep ==
  TypeOK /\ CommitInv /\ DoubtInv /\ [Next]_vars => DoubtInv'
<1> SUFFICES ASSUME TypeOK, CommitInv, DoubtInv, [Next]_vars, NEW k \in inDoubt'
             PROVE  k <= issued' /\ Reported(mem'.jobs[k]) /\ Reported(disk'.jobs[k])
  BY DEF DoubtInv, Reported
<1>1. CommitInv' /\ TypeOK'
  BY TypeStep, CommitInvStep
<1>2. k \in Ids /\ k \in Nat
  BY <1>1 DEF TypeOK, Ids
<1>3. CASE k \notin inDoubt
  <2>1. k \in sent'
    BY <1>3, DoubtStep
  <2>2. mem'.jobs[k].state = "committing" /\ disk'.jobs[k].state = "committing"
    BY <1>1, <2>1 DEF CommitInv, SentCommitting
  <2>3. k <= issued'
    BY <1>1, <1>2, <2>2, IssuedStep DEF CommitInv, FreshIds
  <2> QED
    BY <2>2, <2>3 DEF Reported
<1>4. CASE k \in inDoubt
  <2>1. k <= issued' /\ k <= issued /\ Reported(mem.jobs[k]) /\ Reported(disk.jobs[k])
    BY <1>2, <1>4, IssuedStep DEF DoubtInv
  <2>2. CASE Crash
    BY <2>1, <2>2 DEF Crash
  <2>3. CASE Open
    <3>1. /\ mem' = disk'
          /\ disk'.jobs[k] = disk.jobs[k] \/ disk'.jobs[k] = Recovered(disk.jobs[k])
          /\ disk.jobs[k] \in Job
      BY <1>2, <2>3, OpenJobs
    <3>2. Reported(Recovered(disk.jobs[k]))
      BY <2>1, <3>1, RecoveredFields DEF Reported
    <3> QED
      BY <2>1, <3>1, <3>2
  <2>4. CASE ~Crash /\ ~Open
    <3>1. Move(k) /\ (DiskStays \/ DiskFollows)
      BY <1>2, <2>4, MovesStep DEF Moves
    <3>2. Reported(mem'.jobs[k])
      <4>1. mem.jobs[k].state \notin {"importing", "pending", "preparing", "uploading"}
        BY <2>1 DEF Reported
      <4>2. CASE Stays(k)
        BY <2>1, <4>2 DEF Stays, Alike, Reported
      <4>3. CASE Created(k)
        BY <1>2, <2>1, <4>3, IssuedStep DEF Created
      <4>4. CASE Dropped(k) \/ Cleared(k)
        BY <4>4 DEF Dropped, Cleared, Reported
      <4>5. CASE Queued(k) \/ Begun(k) \/ Phased(k)
        BY <4>1, <4>5 DEF Queued, Begun, Phased, Running
      <4>6. CASE Renewed(k)
        BY <4>6 DEF Renewed
      <4>7. CASE Ended(k)
        <5>1. mem.jobs[k].state = "committing"
          BY <4>1, <4>7 DEF Ended, CommitInv, WorkersRun, Running
        <5> QED
          BY <4>7, <5>1 DEF Ended, Reported
      <4> QED
        BY <3>1, <4>2, <4>3, <4>4, <4>5, <4>6, <4>7 DEF Move
    <3>3. Reported(disk'.jobs[k])
      <4>1. CASE DiskStays
        BY <1>2, <2>1, <4>1 DEF DiskStays, SameButDelay, Alike, Reported
      <4>2. CASE DiskFollows
        BY <1>2, <2>1, <3>2, <4>2 DEF DiskFollows, Begun, Reported
      <4> QED
        BY <3>1, <4>1, <4>2
    <3> QED
      BY <2>1, <3>2, <3>3
  <2> QED
    BY <2>2, <2>3, <2>4
<1> QED
  BY <1>3, <1>4

(* A commit whose outcome was never learnt stays on record, through failed   *)
(* saves, crashes and recoveries, until the user decides about it.           *)
THEOREM DoubtIsReported == Spec => []InDoubtIsReported
<1>1. DoubtInv => InDoubtIsReported
  BY DEF DoubtInv, Reported, InDoubtIsReported
<1>2. Init => DoubtInv
  BY DEF Init, DoubtInv
<1> QED
  BY <1>1, <1>2, InitType, TypeStep, CommitInvInit, CommitInvStep, DoubtInvStep, PTL
  DEF Spec

-----------------------------------------------------------------------------
(* The retry budget. *)

Charged ==
    up /\ ~fault => \A j \in Ids :
        /\ mem.jobs[j].state \in {"importing", "pending"} =>
             mem.jobs[j].attempts = charged[j]
        /\ mem.jobs[j].state \in Running => mem.jobs[j].attempts = charged[j] + 1

(* Ids not drawn yet have been charged for nothing. *)
FreshCharges ==
    \A j \in Ids : j > issued =>
        charged[j] = 0 /\ mem.jobs[j].attempts = 0 /\ disk.jobs[j].attempts = 0

LEMMA FreshChargesInit == Init => FreshCharges
<1>1. NoJob.attempts = 0
  BY DEF NoJob, NewJob
<1>2. \A options, j : j \in Ids => EmptyStore(options).jobs[j] = NoJob
  BY DEF EmptyStore
<1>3. \A options, c, j : j \in Ids /\ j > 1 => LegacyStore(options, c).jobs[j] = NoJob
  BY ConstantsAssumption DEF LegacyStore, EmptyStore, Ids, ConstantsAssumption
<1> QED
  BY <1>1, <1>2, <1>3 DEF Init, FreshCharges

LEMMA FreshChargesStep ==
  TypeOK /\ CommitInv /\ FreshCharges /\ [Next]_vars => FreshCharges'
<1> SUFFICES ASSUME TypeOK, CommitInv, FreshCharges, [Next]_vars,
                    NEW k \in Ids, k > issued'
             PROVE  /\ charged'[k] = 0 /\ mem'.jobs[k].attempts = 0
                    /\ disk'.jobs[k].attempts = 0
  BY DEF FreshCharges
<1>1. k > issued
  BY IssuedStep DEF Ids
<1>2. /\ charged[k] = 0 /\ mem.jobs[k].attempts = 0 /\ disk.jobs[k].attempts = 0
      /\ mem.jobs[k].state = "none" /\ k \notin active
  BY <1>1 DEF FreshCharges, CommitInv, FreshIds, WorkersRun, Running
<1>3. CASE Crash
  BY <1>2, <1>3 DEF Crash
<1>4. CASE Open
  <2>1. /\ mem' = disk'
        /\ disk'.jobs[k] = disk.jobs[k] \/ disk'.jobs[k] = Recovered(disk.jobs[k])
        /\ disk.jobs[k] \in Job
    BY <1>4, OpenJobs
  <2>2. charged'[k] = disk'.jobs[k].attempts
    BY <1>4 DEF Open
  <2> QED
    BY <1>2, <2>1, <2>2, RecoveredFields
<1>5. CASE ~Crash /\ ~Open
  <2>1. Move(k) /\ (DiskStays \/ DiskFollows)
    BY <1>5, MovesStep DEF Moves
  <2>2. Stays(k) \/ Created(k)
    BY <1>2, <2>1 DEF Move, Dropped, Queued, Renewed, Cleared, Begun, Phased, Ended, Finished
  <2>3. charged'[k] = 0 /\ mem'.jobs[k].attempts = 0
    BY <1>2, <2>2 DEF Stays, Created, Alike
  <2> QED
    BY <1>2, <2>1, <2>3 DEF DiskStays, DiskFollows, SameButDelay, Alike, Begun
<1> QED
  BY <1>3, <1>4, <1>5

LEMMA ChargedStep ==
  TypeOK /\ CommitInv /\ FreshCharges /\ Charged /\ [Next]_vars => Charged'
<1> SUFFICES ASSUME TypeOK, CommitInv, FreshCharges, Charged, [Next]_vars,
                    up', ~fault', NEW k \in Ids
             PROVE  /\ mem'.jobs[k].state \in {"importing", "pending"} =>
                         mem'.jobs[k].attempts = charged'[k]
                    /\ mem'.jobs[k].state \in Running =>
                         mem'.jobs[k].attempts = charged'[k] + 1
  BY DEF Charged
<1>1. CASE Crash
  BY <1>1 DEF Crash
<1>2. CASE Open
  <2>1. mem'.jobs[k] = Recovered(disk.jobs[k]) /\ disk.jobs[k] \in Job
        /\ mem' = disk'
    BY <1>2, OpenJobs
  <2>2. charged'[k] = disk'.jobs[k].attempts
    BY <1>2 DEF Open
  <2>3. mem'.jobs[k].state \notin Running
    BY <2>1, RecoveredFields DEF Running, Finished
  <2> QED
    BY <2>1, <2>2, <2>3
<1>3. CASE ~Crash /\ ~Open
  <2>1. up /\ ~fault
    BY <1>3, FaultStep
  <2>2. /\ mem.jobs[k].state \in {"importing", "pending"} =>
             mem.jobs[k].attempts = charged[k]
        /\ mem.jobs[k].state \in Running => mem.jobs[k].attempts = charged[k] + 1
    BY <2>1 DEF Charged
  <2>3. Move(k)
    BY <1>3, MovesStep DEF Moves
  <2>4. CASE Stays(k)
    BY <2>2, <2>4 DEF Stays, Alike
  <2>5. CASE Created(k)
    <3>1. k > issued
      BY <2>5 DEF Created, TypeOK
    <3> QED
      BY <2>5, <3>1 DEF Created, FreshCharges, Running
  <2>6. CASE Dropped(k) \/ Cleared(k)
    BY <2>6 DEF Dropped, Cleared, Running
  <2>7. CASE Queued(k)
    BY <2>2, <2>7 DEF Queued, Running
  <2>8. CASE Renewed(k)
    BY <2>8 DEF Renewed, Running
  <2>9. CASE Begun(k)
    BY <2>2, <2>9 DEF Begun, Running
  <2>10. CASE Phased(k)
    BY <2>2, <2>10 DEF Phased, Running
  <2>11. CASE Ended(k)
    <3>1. mem.jobs[k].state \in Running
      BY <2>11 DEF Ended, CommitInv, WorkersRun
    <3> QED
      BY <2>2, <2>11, <3>1 DEF Ended, Running
  <2> QED
    BY <2>3, <2>4, <2>5, <2>6, <2>7, <2>8, <2>9, <2>10, <2>11 DEF Move
<1> QED
  BY <1>1, <1>2, <1>3

(* Whatever is paused, cancelled, unauthorized or restarted in between, a    *)
(* job's retries are used up by its failures and by restarts only.           *)
THEOREM BudgetIsFair == Spec => []BudgetChargesFailures
<1>1. Charged => BudgetChargesFailures
  BY DEF Charged, BudgetChargesFailures
<1>2. Init => Charged
  BY DEF Init, Charged
<1> QED
  BY <1>1, <1>2, InitType, TypeStep, CommitInvInit, CommitInvStep, FreshChargesInit,
     FreshChargesStep, ChargedStep, PTL
  DEF Spec

-----------------------------------------------------------------------------
(* The files of jobs that may still upload. *)

Uploadable == {"pending", "failed"} \cup Running

HashesOpen == up /\ ~fault => \A j \in Ids : mem.jobs[j].state = "importing" => j \in hashes

FilesReady == up => \A j \in Ids : mem.jobs[j].state \in Uploadable => staging[j] = "complete"

FilesRecoverable ==
    \A j \in Ids :
        Recovered(disk.jobs[j]).state \in {"pending", "failed"} => staging[j] = "complete"

FilesInv == HashesOpen /\ FilesReady /\ FilesRecoverable

LEMMA RecoveredSame ==
  ASSUME NEW a \in Job, NEW b \in Job, SameButDelay(a, b)
  PROVE  Recovered(b).state = Recovered(a).state
<1>1. Interrupted(b).state = Interrupted(a).state
  BY DEF SameButDelay, Alike, Interrupted, Job
<1>2. /\ Interrupted(a) \in Job /\ Interrupted(b) \in Job
      /\ a.cancelRequested = b.cancelRequested
  BY InterruptedType DEF SameButDelay
<1>3. \A now \in Job : [now EXCEPT !.state = "cancelled"].state = "cancelled"
  BY DEF Job
<1> QED
  BY <1>1, <1>2, <1>3 DEF Recovered

(* Nothing happens to the queue of a dead process but that backoffs expire. *)
LEMMA DownStep ==
  ASSUME TypeOK, [Next]_vars, ~up, ~Open
  PROVE  DiskStays /\ staging' = staging /\ ~up'
<1>1. ASSUME NEW j \in Ids, BackoffExpires(j)
      PROVE  DiskStays /\ staging' = staging /\ up' = up
  <2>1. ASSUME NEW store \in Store, NEW k \in Ids
        PROVE  SameButDelay(store.jobs[k], [store EXCEPT !.jobs[j].delayed = FALSE].jobs[k])
    BY DEF Store, Job, SameButDelay, Alike, Kept
  <2> QED
    BY <1>1, <2>1 DEF BackoffExpires, TypeOK, DiskStays
<1>2. ASSUME disk' = disk PROVE DiskStays
  BY <1>2 DEF DiskStays, SameButDelay, Alike, Kept
<1>3. ASSUME AuthorizationChanges \/ UNCHANGED vars
      PROVE  DiskStays /\ staging' = staging /\ up' = up
  BY <1>2, <1>3 DEF AuthorizationChanges, vars
<1>4. (\E j \in Ids : BackoffExpires(j)) \/ AuthorizationChanges \/ UNCHANGED vars
  BY DEF Next, Begin, Append, Seal, Cancel, Retry, RetryFailed, RetryJobs,
         ClearCompleted, Summary, Configure, Conditions, Tick, Progress, SendCommit,
         Finish, Close, Crash, Serving
<1> QED
  BY <1>1, <1>3, <1>4

(* Staged files are only touched for the job that a step moves. *)
LEMMA FilesMove ==
  ASSUME TypeOK, CommitInv, FilesReady, up, NEW k \in Ids, Move(k),
         mem'.jobs[k].state \in Uploadable
  PROVE  staging'[k] = "complete"
<1>1. mem.jobs[k].state \in Uploadable => staging[k] = "complete"
  BY DEF FilesReady
<1>2. CASE Stays(k)
  BY <1>1, <1>2 DEF Stays, Alike, FilesStay
<1>3. CASE Created(k) \/ Dropped(k) \/ Cleared(k)
  BY <1>3 DEF Created, Dropped, Cleared, Uploadable, Running
<1>4. CASE Queued(k)
  BY <1>4 DEF Queued
<1>5. CASE Renewed(k) \/ Begun(k) \/ Phased(k)
  BY <1>1, <1>5 DEF Renewed, Begun, Phased, Uploadable
<1>6. CASE Ended(k)
  <2>1. mem.jobs[k].state \in Running
    BY <1>6 DEF Ended, CommitInv, WorkersRun
  <2>2. ~FilesGo(k)
    BY DEF FilesGo, Finished, Uploadable, Running
  <2> QED
    BY <1>1, <1>6, <2>1, <2>2 DEF Ended, FilesStay, Uploadable
<1> QED
  BY <1>2, <1>3, <1>4, <1>5, <1>6 DEF Move

LEMMA RecoverableMove ==
  ASSUME TypeOK, TypeOK', CommitInv, FilesInv, up, NEW k \in Ids, Move(k),
         DiskStays \/ DiskFollows,
         Recovered(disk'.jobs[k]).state \in {"pending", "failed"}
  PROVE  staging'[k] = "complete"
<1>1. disk.jobs[k] \in Job /\ disk'.jobs[k] \in Job
  BY JobType DEF TypeOK
<1>2. disk'.jobs[k].state \in Uploadable
  BY <1>1, RecoveredFields DEF Uploadable
<1>3. CASE disk'.jobs[k] = mem'.jobs[k]
  BY <1>2, <1>3, FilesMove DEF FilesInv
<1>4. CASE disk'.jobs[k] = mem.jobs[k] /\ Begun(k)
  BY <1>4, <1>2 DEF Begun, FilesInv, FilesReady
<1>5. CASE DiskStays
  <2>1. staging[k] = "complete" /\ disk.jobs[k].state \in Uploadable
    BY <1>1, <1>2, <1>5, RecoveredSame
    DEF DiskStays, SameButDelay, Alike, FilesInv, FilesRecoverable
  <2>2. CASE FilesGo(k)
    BY <1>2, <2>2 DEF FilesGo, Finished, Uploadable, Running
  <2>3. CASE Created(k)
    <3>1. k > issued
      BY <2>3 DEF Created, TypeOK
    <3> QED
      BY <2>1, <3>1 DEF CommitInv, FreshIds, Uploadable, Running
  <2>4. CASE staging'[k] = staging[k] \/ FilesStay(k)
    BY <2>1, <2>4 DEF FilesStay
  <2> QED
    BY <2>2, <2>3, <2>4
    DEF Move, Stays, Dropped, Queued, Renewed, Cleared, Begun, Phased, Ended
<1> QED
  BY <1>3, <1>4, <1>5 DEF DiskFollows

(* Recovery removes the files of jobs it finds, or makes, finished. *)
LEMMA OpenFiles ==
  ASSUME TypeOK, FilesInv, Open, NEW k \in Ids,
         Recovered(disk.jobs[k]).state \in {"pending", "failed"}
  PROVE  staging'[k] = "complete"
<1> DEFINE list == [j \in Ids |-> Recovered(disk.jobs[j])]
           new == [disk EXCEPT !.jobs = list]
           removed == {j \in Ids : new.jobs[j].state \in Finished}
<1>1. list \in [Ids -> Job]
  BY JobType, RecoveredType DEF TypeOK
<1>2. new.jobs[k] = Recovered(disk.jobs[k])
  BY <1>1, SetJobsAt DEF TypeOK
<1>3. RemoveStaging(removed)
  BY DEF Open
<1>4. k \notin removed
  BY <1>2 DEF Finished
<1> HIDE DEF list, new, removed
<1>5. staging'[k] = staging[k]
  BY <1>3, <1>4 DEF RemoveStaging
<1> QED
  BY <1>5 DEF FilesInv, FilesRecoverable

LEMMA OpenFilesStep ==
  ASSUME TypeOK, FilesInv, Open
  PROVE  FilesInv'
<1>1. ASSUME NEW k \in Ids
      PROVE  /\ Recovered(disk'.jobs[k]).state \in {"pending", "failed"} =>
                  Recovered(disk.jobs[k]).state \in {"pending", "failed"}
             /\ up' => mem'.jobs[k] = Recovered(disk.jobs[k])
             /\ disk.jobs[k] \in Job
  <2>1. /\ disk'.jobs[k] = disk.jobs[k] \/ disk'.jobs[k] = Recovered(disk.jobs[k])
        /\ disk.jobs[k] \in Job
        /\ up' => mem'.jobs[k] = Recovered(disk.jobs[k])
    BY OpenJobs
  <2>2. Recovered(disk.jobs[k]) \in Job
    BY <2>1, RecoveredFields
  <2>3. Recovered(Recovered(disk.jobs[k])).state \in {"pending", "failed"} =>
          Recovered(disk.jobs[k]).state \in {"pending", "failed"}
    BY <2>1, <2>2, RecoveredFields DEF Running, Finished
  <2> QED
    BY <2>1, <2>3
<1>2. HashesOpen'
  <2> SUFFICES ASSUME up', NEW k \in Ids PROVE mem'.jobs[k].state # "importing"
    BY DEF HashesOpen
  <2> QED
    BY <1>1, RecoveredFields DEF Finished
<1>3. FilesReady'
  <2> SUFFICES ASSUME up', NEW k \in Ids, mem'.jobs[k].state \in Uploadable
               PROVE  staging'[k] = "complete"
    BY DEF FilesReady
  <2>1. Recovered(disk.jobs[k]).state \in {"pending", "failed"}
    BY <1>1, RecoveredFields DEF Finished, Uploadable, Running
  <2> QED
    BY <2>1, OpenFiles
<1>4. FilesRecoverable'
  BY <1>1, OpenFiles DEF FilesRecoverable
<1> QED
  BY <1>2, <1>3, <1>4 DEF FilesInv

LEMMA FilesInvStep ==
  TypeOK /\ CommitInv /\ FilesInv /\ [Next]_vars => FilesInv'
<1> SUFFICES ASSUME TypeOK, CommitInv, FilesInv, [Next]_vars PROVE FilesInv'
  OBVIOUS
<1>1. TypeOK'
  BY TypeStep
<1>2. CASE Crash
  <2>1. ~up' /\ disk' = disk /\ staging' = staging
    BY <1>2 DEF Crash
  <2> QED
    BY <2>1 DEF FilesInv, HashesOpen, FilesReady, FilesRecoverable
<1>3. CASE Open
  BY <1>3, OpenFilesStep
<1>4. CASE ~up /\ ~Open
  <2>1. DiskStays /\ staging' = staging /\ ~up'
    BY <1>4, DownStep
  <2>2. ASSUME NEW k \in Ids
        PROVE  Recovered(disk'.jobs[k]).state = Recovered(disk.jobs[k]).state
    <3>1. disk.jobs[k] \in Job /\ disk'.jobs[k] \in Job
      BY <1>1, JobType DEF TypeOK
    <3> QED
      BY <2>1, <3>1, RecoveredSame DEF DiskStays
  <2> QED
    BY <2>1, <2>2 DEF FilesInv, HashesOpen, FilesReady, FilesRecoverable
<1>5. CASE up /\ ~Crash /\ ~Open
  <2>1. (\A k \in Ids : Move(k)) /\ (DiskStays \/ DiskFollows)
    BY <1>5, MovesStep DEF Moves
  <2>2. HashesOpen'
    <3> SUFFICES ASSUME up', ~fault', NEW k \in Ids, mem'.jobs[k].state = "importing"
                 PROVE  k \in hashes'
      BY DEF HashesOpen
    <3>1. mem.jobs[k].state = "importing" => k \in hashes
      BY <1>5, FaultStep DEF FilesInv, HashesOpen
    <3>2. Stays(k) \/ Created(k)
      BY <2>1 DEF Move, Dropped, Queued, Renewed, Cleared, Begun, Phased, Ended, Running
    <3> QED
      BY <3>1, <3>2 DEF Stays, Created, Alike
  <2>3. FilesReady'
    BY <1>5, <2>1, FilesMove DEF FilesReady, FilesInv
  <2>4. FilesRecoverable'
    BY <1>1, <1>5, <2>1, RecoverableMove DEF FilesRecoverable
  <2> QED
    BY <2>2, <2>3, <2>4 DEF FilesInv
<1> QED
  BY <1>2, <1>3, <1>4, <1>5

LEMMA EmptyStores ==
  ASSUME Init, NEW k \in Ids
  PROVE  /\ mem = disk
         /\ \/ disk.jobs[k] = NoJob
            \/ k = 1 /\ \E c \in LegacyContents :
                 disk.jobs[k] = [NewJob(c) EXCEPT !.state = "completed", !.sealed = TRUE]
<1>1. \A options : EmptyStore(options).jobs[k] = NoJob
  BY DEF EmptyStore
<1>2. \A options, c :
        LegacyStore(options, c).jobs[k] =
          IF k = 1 THEN [NewJob(c) EXCEPT !.state = "completed", !.sealed = TRUE]
                   ELSE NoJob
  BY ConstantsAssumption DEF LegacyStore, EmptyStore, Ids, ConstantsAssumption
<1>3. \/ \E options : disk = EmptyStore(options)
      \/ \E options, c : c \in LegacyContents /\ disk = LegacyStore(options, c)
  BY Zenon DEF Init
<1>4. mem = disk
  BY DEF Init
<1>5. CASE \E options : disk = EmptyStore(options)
  BY <1>1, <1>4, <1>5
<1>6. ASSUME NEW options, NEW c \in LegacyContents, disk = LegacyStore(options, c)
      PROVE  \/ disk.jobs[k] = NoJob
             \/ /\ k = 1
                /\ disk.jobs[k] = [NewJob(c) EXCEPT !.state = "completed", !.sealed = TRUE]
  <2>1. CASE k = 1
    BY <1>2, <1>6, <2>1, Zenon
  <2>2. CASE k # 1
    BY <1>2, <1>6, <2>2, Zenon
  <2> QED
    BY <2>1, <2>2
<1> QED
  BY <1>3, <1>4, <1>5, <1>6, Zenon

LEMMA FilesInvInit == Init => FilesInv
<1> SUFFICES ASSUME Init PROVE FilesInv
  OBVIOUS
<1>1. HashesOpen /\ FilesReady
  BY DEF Init, HashesOpen, FilesReady
<1>2. ASSUME NEW k \in Ids PROVE Recovered(disk.jobs[k]).state \notin {"pending", "failed"}
  <2>1. CASE disk.jobs[k] = NoJob
    <3>1. NoJob \in Job /\ NoJob.state = "none"
      BY NoJobType DEF NoJob, NewJob
    <3> QED
      BY <2>1, <3>1, RecoveredFields
  <2>2. ASSUME NEW c \in LegacyContents,
               disk.jobs[k] = [NewJob(c) EXCEPT !.state = "completed", !.sealed = TRUE]
        PROVE  Recovered(disk.jobs[k]).state \notin {"pending", "failed"}
    <3>1. NewJob(c) \in Job
      BY NewJobType, ConstantsAssumption DEF ConstantsAssumption
    <3>2. disk.jobs[k] \in Job /\ disk.jobs[k].state = "completed"
      BY <2>2, <3>1, StateNames DEF Job, Finished
    <3> QED
      BY <3>2, RecoveredFields
  <2> QED
    BY <2>1, <2>2, EmptyStores
<1> QED
  BY <1>1, <1>2 DEF FilesInv, FilesRecoverable

(* No failed save, crash or recovery removes the files of a job that memory  *)
(* or the next start may still upload, and an open import has its hashes.    *)
THEOREM FilesAreKept == Spec => []FilesKept
<1>1. FilesInv => FilesKept
  BY DEF FilesInv, HashesOpen, FilesReady, FilesRecoverable, FilesKept, Uploadable
<1> QED
  BY <1>1, InitType, TypeStep, CommitInvInit, CommitInvStep, FilesInvInit, FilesInvStep,
     PTL
  DEF Spec

-----------------------------------------------------------------------------
(* Duplicates. *)

(* Sealed and neither cancelled nor cleared: what seal compares with. *)
Alive(job) == job.sealed /\ job.state \notin {"none", "cancelled"}

(* What an older build completed without verifying the original. *)
OldOriginal(job) ==
    /\ job.content.quality = "original"
    /\ job.state = "completed" /\ job.originalPolicy = 0

DupFree(jobs) ==
    \A j, k \in Ids :
        j < k /\ Alive(jobs[j]) /\ Alive(jobs[k]) /\ jobs[j].content = jobs[k].content
          => OldOriginal(jobs[j])

(* This build marks originals before it uploads them, so that only the first *)
(* job, from the older build's store, can be unverified.                     *)
Marked(k, job) ==
    /\ job.content.quality = "original" /\ job.originalPolicy = 0
    /\ job.state \in Running \cup {"completed"}
    => k = 1 /\ job.state = "completed"

DupInv ==
    /\ DupFree(mem.jobs) /\ DupFree(disk.jobs)
    /\ \A k \in Ids : Marked(k, mem.jobs[k]) /\ Marked(k, disk.jobs[k])

(* A change of a job that cannot make it a new duplicate. *)
NoNewCopy(a, b) ==
    Alive(b) => Alive(a) /\ b.content = a.content /\ (OldOriginal(a) => OldOriginal(b))

LEMMA DupKept ==
  ASSUME NEW jobs, NEW later, DupFree(jobs), \A k \in Ids : NoNewCopy(jobs[k], later[k])
  PROVE  DupFree(later)
<1> SUFFICES ASSUME NEW j \in Ids, NEW k \in Ids, j < k, Alive(later[j]), Alive(later[k]),
                    later[j].content = later[k].content
             PROVE  OldOriginal(later[j])
  BY DEF DupFree
<1>1. /\ Alive(jobs[j]) /\ Alive(jobs[k])
      /\ later[j].content = jobs[j].content /\ later[k].content = jobs[k].content
      /\ OldOriginal(jobs[j]) => OldOriginal(later[j])
  BY DEF NoNewCopy
<1> QED
  BY <1>1 DEF DupFree

LEMMA AlikeCopy ==
  ASSUME NEW k, NEW a, NEW b, Alike(a, b)
  PROVE  NoNewCopy(a, b) /\ (Marked(k, a) => Marked(k, b))
BY DEF Alike, Kept, NoNewCopy, Alive, OldOriginal, Marked

LEMMA RecoveredCopy ==
  ASSUME NEW k, NEW job \in Job
  PROVE  NoNewCopy(job, Recovered(job)) /\ (Marked(k, job) => Marked(k, Recovered(job)))
<1> DEFINE now == Recovered(job)
<1>1. /\ Kept(job, now)
      /\ job.state \in {"none", "completed", "cancelled"} => now.state = job.state
      /\ now.state = "completed" => job.state = "completed"
      /\ now.state \notin Running
  BY RecoveredFields DEF Running, Finished
<1> HIDE DEF now
<1>2. NoNewCopy(job, now)
  BY <1>1 DEF Kept, NoNewCopy, Alive, OldOriginal
<1>3. Marked(k, job) => Marked(k, now)
  BY <1>1 DEF Kept, Marked
<1> QED
  BY <1>2, <1>3 DEF now

LEMMA MoveCopy ==
  ASSUME TypeOK, CommitInv, DupInv, NEW k \in Ids, Move(k)
  PROVE  /\ Marked(k, mem'.jobs[k])
         /\ ~Queued(k) => NoNewCopy(mem.jobs[k], mem'.jobs[k])
<1>1. Marked(k, mem.jobs[k]) /\ (k \in active => mem.jobs[k].state \in Running)
  BY DEF DupInv, CommitInv, WorkersRun
<1>2. mem.jobs[k] \in Job
  BY JobType DEF TypeOK
<1>3. CASE Stays(k)
  BY <1>1, <1>3, AlikeCopy DEF Stays
<1>4. CASE Created(k)
  BY <1>4 DEF Created, NoNewCopy, Alive, Marked, Running
<1>5. CASE Dropped(k)
  BY <1>5 DEF Dropped, NoNewCopy, Alive, Marked, Running
<1>6. CASE Queued(k)
  BY <1>6 DEF Queued, Marked, Running
<1>7. CASE Renewed(k)
  BY <1>7 DEF Renewed, Kept, NoNewCopy, Alive, OldOriginal, Marked, Running
<1>8. CASE Cleared(k)
  BY <1>8 DEF Cleared, NoNewCopy, Alive, Marked, Running
<1>9. CASE Begun(k)
  BY <1>9 DEF Begun, NoNewCopy, Alive, OldOriginal, Marked
<1>10. CASE Phased(k)
  <2>1. Marked(k, mem'.jobs[k])
    BY <1>1, <1>10 DEF Phased, Kept, Marked, Running
  <2>2. NoNewCopy(mem.jobs[k], mem'.jobs[k])
    BY <1>10 DEF Phased, Kept, NoNewCopy, Alive, OldOriginal, Running
  <2> QED
    BY <2>1, <2>2
<1>11. CASE Ended(k)
  <2>1. Marked(k, mem'.jobs[k])
    BY <1>1, <1>11 DEF Ended, Kept, Marked, Running
  <2>2. NoNewCopy(mem.jobs[k], mem'.jobs[k])
    BY <1>1, <1>11 DEF Ended, Kept, NoNewCopy, Alive, OldOriginal, Running
  <2> QED
    BY <2>1, <2>2
<1> QED
  BY <1>3, <1>4, <1>5, <1>6, <1>7, <1>8, <1>9, <1>10, <1>11 DEF Move

(* What seal queues is no copy of anything, old originals excepted. *)
LEMMA QueuedIsNew ==
  ASSUME TypeOK, DupInv, NEW k \in Ids, Queued(k)
  PROVE  DupFree(mem'.jobs)
<1>1. \A i \in Ids : i # k /\ Alive(mem.jobs[i]) /\ mem.jobs[i].content = mem.jobs[k].content
         => OldOriginal(mem.jobs[i])
  BY DEF Queued, Duplicates, Listed, Alive, OldOriginal
<1>2. \A i \in Ids : OldOriginal(mem.jobs[i]) => i = 1
  BY DEF DupInv, Marked, OldOriginal
<1>3. /\ \A i \in Ids : i # k => mem'.jobs[i] = mem.jobs[i]
      /\ mem'.jobs[k].content = mem.jobs[k].content
  BY DEF Queued
<1>4. ASSUME NEW i \in Ids, NEW j \in Ids, i < j,
             Alive(mem'.jobs[i]), Alive(mem'.jobs[j]),
             mem'.jobs[i].content = mem'.jobs[j].content
      PROVE  OldOriginal(mem'.jobs[i])
  <2>1. CASE i # k /\ j # k
    BY <1>3, <1>4, <2>1 DEF DupInv, DupFree
  <2>2. CASE j = k
    <3>1. i # k
      BY <1>4, <2>2 DEF Ids
    <3> QED
      BY <1>1, <1>3, <1>4, <2>2, <3>1
  <2>3. CASE i = k
    <3>1. j # k
      BY <1>4, <2>3 DEF Ids
    <3>2. j = 1
      BY <1>1, <1>2, <1>3, <1>4, <2>3, <3>1
    <3> QED
      BY <1>4, <3>2 DEF Ids
  <2> QED
    BY <2>1, <2>2, <2>3
<1> QED
  BY <1>4 DEF DupFree

LEMMA DupInvStep ==
  TypeOK /\ CommitInv /\ DupInv /\ [Next]_vars => DupInv'
<1> SUFFICES ASSUME TypeOK, CommitInv, DupInv, [Next]_vars PROVE DupInv'
  OBVIOUS
<1>1. DupFree(mem.jobs) /\ DupFree(disk.jobs)
  BY DEF DupInv
<1>2. \A k \in Ids : Marked(k, mem.jobs[k]) /\ Marked(k, disk.jobs[k])
  BY DEF DupInv
<1>3. CASE Crash
  <2>1. mem' = disk /\ disk' = disk
    BY <1>3 DEF Crash
  <2> QED
    BY <1>1, <1>2, <2>1 DEF DupInv
<1>4. CASE Open
  <2>1. /\ mem' = disk'
        /\ disk' = disk \/ \A k \in Ids : disk'.jobs[k] = Recovered(disk.jobs[k])
        /\ \A k \in Ids : disk.jobs[k] \in Job
    BY <1>4, OpenJobs
  <2>2. CASE disk' = disk
    BY <1>1, <1>2, <2>1, <2>2 DEF DupInv
  <2>3. CASE \A k \in Ids : disk'.jobs[k] = Recovered(disk.jobs[k])
    <3>1. \A k \in Ids : NoNewCopy(disk.jobs[k], disk'.jobs[k]) /\ Marked(k, disk'.jobs[k])
      BY <1>2, <2>1, <2>3, RecoveredCopy
    <3>2. DupFree(disk'.jobs)
      BY <1>1, <3>1, DupKept
    <3> QED
      BY <2>1, <3>1, <3>2 DEF DupInv
  <2> QED
    BY <2>1, <2>2, <2>3
<1>5. CASE ~Crash /\ ~Open
  <2>1. (\A k \in Ids : Move(k)) /\ (DiskStays \/ DiskFollows)
    BY <1>5, MovesStep DEF Moves
  <2>2. \A k \in Ids : /\ Marked(k, mem'.jobs[k])
                       /\ ~Queued(k) => NoNewCopy(mem.jobs[k], mem'.jobs[k])
    BY <2>1, MoveCopy
  <2>3. DupFree(mem'.jobs)
    <3>1. CASE \E k \in Ids : Queued(k)
      BY <3>1, QueuedIsNew
    <3>2. CASE \A k \in Ids : ~Queued(k)
      BY <1>1, <2>2, <3>2, DupKept
    <3> QED
      BY <3>1, <3>2
  <2>4. CASE DiskStays
    <3>1. \A k \in Ids : NoNewCopy(disk.jobs[k], disk'.jobs[k]) /\ Marked(k, disk'.jobs[k])
      BY <1>2, <2>4, AlikeCopy DEF DiskStays, SameButDelay
    <3>2. DupFree(disk'.jobs)
      BY <1>1, <3>1, DupKept
    <3> QED
      BY <2>2, <2>3, <3>1, <3>2 DEF DupInv
  <2>5. CASE DiskFollows
    <3>1. \A k \in Ids : Marked(k, disk'.jobs[k])
      BY <1>2, <2>2, <2>5 DEF DiskFollows
    <3>2. DupFree(disk'.jobs)
      <4>1. CASE \E k \in Ids : Queued(k)
        <5>1. disk' = disk \/ disk' = mem'
          BY <4>1 DEF Queued
        <5> QED
          BY <1>1, <2>3, <5>1
      <4>2. CASE \A k \in Ids : ~Queued(k)
        <5>1. \A k \in Ids : NoNewCopy(mem.jobs[k], mem.jobs[k])
          BY DEF NoNewCopy
        <5>2. \A k \in Ids : NoNewCopy(mem.jobs[k], disk'.jobs[k])
          BY <2>2, <2>5, <4>2, <5>1 DEF DiskFollows
        <5> QED
          BY <1>1, <5>2, DupKept
      <4> QED
        BY <4>1, <4>2
    <3> QED
      BY <2>2, <2>3, <3>1, <3>2 DEF DupInv
  <2> QED
    BY <2>1, <2>4, <2>5
<1> QED
  BY <1>3, <1>4, <1>5

LEMMA DupInvInit == Init => DupInv
<1> SUFFICES ASSUME Init PROVE DupInv
  OBVIOUS
<1>1. ASSUME NEW k \in Ids
      PROVE  /\ mem = disk /\ (Alive(disk.jobs[k]) => k = 1)
             /\ Marked(k, disk.jobs[k])
  <2>1. CASE disk.jobs[k] = NoJob
    <3>1. NoJob.state = "none"
      BY DEF NoJob, NewJob
    <3> QED
      BY <2>1, <3>1, EmptyStores DEF Alive, Marked, Running
  <2>2. ASSUME k = 1, NEW c \in LegacyContents,
               disk.jobs[k] = [NewJob(c) EXCEPT !.state = "completed", !.sealed = TRUE]
        PROVE  Marked(k, disk.jobs[k])
    <3>1. NewJob(c) \in Job
      BY NewJobType, ConstantsAssumption DEF ConstantsAssumption
    <3>2. disk.jobs[k].state = "completed"
      BY <2>2, <3>1 DEF Job
    <3> QED
      BY <2>2, <3>2 DEF Marked
  <2> QED
    BY <2>1, <2>2, EmptyStores
<1>2. mem = disk
  BY DEF Init
<1>3. DupFree(disk.jobs)
  BY <1>1 DEF DupFree, Ids
<1> QED
  BY <1>1, <1>2, <1>3 DEF DupInv

(* Seal, the scheduler, retries, clearing, failed saves and recovery never   *)
(* leave the same content twice in the queue for an account and a quality.   *)
THEOREM ContentIsUnique == Spec => []NoDuplicateContent
<1>1. DupInv => NoDuplicateContent
  BY DEF DupInv, DupFree, Alive, OldOriginal, NoDuplicateContent, Listed
<1> QED
  BY <1>1, InitType, TypeStep, CommitInvInit, CommitInvStep, DupInvInit, DupInvStep, PTL
  DEF Spec

-----------------------------------------------------------------------------
(* Cancellations and completions on record. *)

(* A cancellation is asked for only while the job has a worker, which is     *)
(* told; and what the record says of a running job that is to be cancelled,  *)
(* memory says too, unless the job has already come to its end there.        *)
StopInv ==
    \A k \in Ids :
        /\ mem.jobs[k].cancelRequested =>
             \/ mem.jobs[k].state \in Over
             \/ mem.jobs[k].state \in Running /\ (k \in active => k \in cancelled)
        /\ disk.jobs[k].cancelRequested => disk.jobs[k].state \in Over \cup Running
        /\ k \in CancelRecorded =>
             \/ mem.jobs[k].state \in Over
             \/ mem.jobs[k].cancelRequested /\ mem.jobs[k].state \in Running

(* A completion that is not on disk yet has a revision that is not either. *)
CompletionInv ==
    \A k \in Ids :
        mem.jobs[k].state = "completed" /\ disk.jobs[k].state # "completed"
          => mem.revision > disk.revision

(* Nobody takes back that a worker was told to stop. *)
LEMMA ToldStays ==
  ASSUME [Next]_vars, ~Crash, NEW k \in cancelled, k \in active', TypeOK
  PROVE  k \in cancelled'
<1>1. k \in active
  BY DEF TypeOK
<1>2. ASSUME NEW options \in OptionSets, Configure(options) PROVE k \in cancelled'
  BY <1>1, <1>2 DEF Configure
<1>3. ASSUME NEW network \in Networks, Conditions(network) PROVE k \in cancelled'
  BY <1>1, <1>3 DEF Conditions
<1>4. ASSUME NEW j \in Ids, Cancel(j) PROVE k \in cancelled'
  BY <1>4 DEF Cancel, CancelRunning, CancelIdle
<1>5. ASSUME NEW j \in Ids, NEW phase \in Running, Progress(j, phase) PROVE k \in cancelled'
  BY <1>5 DEF Progress, SavePhase
<1>6. ASSUME NEW j \in Ids, NEW outcome \in Outcomes, Finish(j, outcome)
      PROVE  k \in cancelled'
  BY <1>6 DEF Finish
<1>7. ASSUME Close PROVE k \in cancelled'
  BY <1>1, <1>7 DEF Close
<1>8. ASSUME cancelled' = cancelled PROVE k \in cancelled'
  BY <1>8
<1> QED
  BY <1>2, <1>3, <1>4, <1>5, <1>6, <1>7, <1>8
  DEF Next, Begin, Append, Seal, Retry, RetryFailed, RetryJobs, ClearCompleted, Summary,
      Tick, SendCommit, BackoffExpires, AuthorizationChanges, Open, vars

(* What a move leaves of a job that is to be cancelled in memory. *)
LEMMA StopMove ==
  ASSUME TypeOK, CommitInv, StopInv, [Next]_vars, ~Crash, NEW k \in Ids, Move(k),
         mem'.jobs[k].cancelRequested
  PROVE  \/ mem'.jobs[k].state \in Over
         \/ mem'.jobs[k].state \in Running /\ (k \in active' => k \in cancelled')
<1>1. /\ mem.jobs[k].cancelRequested =>
           \/ mem.jobs[k].state \in Over
           \/ mem.jobs[k].state \in Running /\ (k \in active => k \in cancelled)
      /\ k \in active => mem.jobs[k].state \in Running
  BY DEF StopInv, CommitInv, WorkersRun
<1>2. k \in cancelled /\ k \in active' => k \in cancelled'
  BY ToldStays
<1>3. CASE Stays(k)
  BY <1>1, <1>2, <1>3 DEF Stays, Alike, Asked
<1>4. CASE Created(k) \/ Renewed(k) \/ Cleared(k)
  BY <1>4 DEF Created, Renewed, Cleared
<1>5. CASE Queued(k) \/ Begun(k)
  BY <1>1, <1>5 DEF Queued, Begun, Over, Running
<1>6. CASE Dropped(k)
  BY <1>6 DEF Dropped, Over
<1>7. CASE Phased(k)
  BY <1>1, <1>2, <1>7 DEF Phased, Over, Running
<1>8. CASE Ended(k)
  BY <1>8 DEF Ended
<1> QED
  BY <1>3, <1>4, <1>5, <1>6, <1>7, <1>8 DEF Move

(* A recorded cancellation is not lost sight of in memory. *)
LEMMA WithdrawnMove ==
  ASSUME TypeOK, CommitInv, InSync, RunningHasWorker, StopInv, NEW k \in CancelRecorded,
         Move(k)
  PROVE  \/ mem'.jobs[k].state \in Over
         \/ mem'.jobs[k].cancelRequested /\ mem'.jobs[k].state \in Running
<1>1. k \in Ids /\ disk.jobs[k].state \in Running
  BY DEF CancelRecorded
<1>2. \/ mem.jobs[k].state \in Over
      \/ mem.jobs[k].cancelRequested /\ mem.jobs[k].state \in Running
  BY <1>1 DEF StopInv
<1>3. Serving => mem.jobs[k].state \in Running /\ k \in active
  <2>1. Serving => mem = disk
    BY Zenon DEF Serving, InSync
  <2> QED
    BY <1>1, <2>1 DEF RunningHasWorker, Serving
<1>4. k \in active => mem.jobs[k].state \in Running
  BY DEF CommitInv, WorkersRun
<1>5. CASE Stays(k)
  BY <1>2, <1>5 DEF Stays, Alike, Asked
<1>6. CASE Dropped(k) \/ Queued(k) \/ Renewed(k) \/ Cleared(k) \/ Begun(k)
  BY <1>3, <1>6 DEF Dropped, Queued, Renewed, Cleared, Begun, Running, Finished
<1>7. CASE Created(k)
  <2>1. mem.jobs[k].state = "none"
    BY <1>1, <1>7 DEF Created, CommitInv, FreshIds, TypeOK
  <2> QED
    BY <1>3, <1>7, <2>1 DEF Created, Running
<1>8. CASE Phased(k)
  BY <1>2, <1>8 DEF Phased, Over, Running
<1>9. CASE Ended(k)
  BY <1>2, <1>4, <1>9 DEF Ended, Over, Running
<1> QED
  BY <1>5, <1>6, <1>7, <1>8, <1>9 DEF Move

(* Recovery ends what was to be cancelled. *)
LEMMA RecoveredOver ==
  ASSUME NEW job \in Job, job.cancelRequested, job.state \in Over \cup Running
  PROVE  Recovered(job).state \in Over
<1>1. /\ Recovered(job).state \in {"none", "pending", "failed"} \cup Finished
      /\ Recovered(job).state # "pending"
  BY RecoveredFields
<1>2. Recovered(job).state # "none"
  <2>1. job.state = "failed" => Recovered(job).state = "failed"
    BY RecoveredFields
  <2>2. job.state \in {"completed", "cancelled"} => Recovered(job).state = job.state
    BY RecoveredFields
  <2>3. job.state \in Running => Recovered(job).state # "none"
    BY DEF Recovered, Interrupted, Job, Running
  <2> QED
    BY <2>1, <2>2, <2>3 DEF Over
<1> QED
  BY <1>1, <1>2 DEF Over, Finished

LEMMA StopInvStep ==
  TypeOK /\ CommitInv /\ InSync /\ RunningHasWorker /\ StopInv /\ [Next]_vars => StopInv'
<1> SUFFICES ASSUME TypeOK, CommitInv, InSync, RunningHasWorker, StopInv, [Next]_vars,
                    NEW k \in Ids
             PROVE  /\ mem'.jobs[k].cancelRequested =>
                         \/ mem'.jobs[k].state \in Over
                         \/ /\ mem'.jobs[k].state \in Running
                            /\ k \in active' => k \in cancelled'
                    /\ disk'.jobs[k].cancelRequested =>
                         disk'.jobs[k].state \in Over \cup Running
                    /\ disk'.jobs[k].cancelRequested /\ disk'.jobs[k].state \in Running =>
                         \/ mem'.jobs[k].state \in Over
                         \/ mem'.jobs[k].cancelRequested /\ mem'.jobs[k].state \in Running
  BY DEF StopInv, CancelRecorded
<1>1. disk.jobs[k].cancelRequested => disk.jobs[k].state \in Over \cup Running
  BY DEF StopInv
<1>2. CASE Crash
  BY <1>1, <1>2 DEF Crash, ForgetWork
<1>3. CASE Open
  <2>1. /\ mem' = disk' /\ disk.jobs[k] \in Job
        /\ disk'.jobs[k] = disk.jobs[k] \/ disk'.jobs[k] = Recovered(disk.jobs[k])
        /\ active' = {}
    BY <1>3, OpenJobs DEF Open, CommitInv, DownIsIdle
  <2>2. Recovered(disk.jobs[k]).cancelRequested = disk.jobs[k].cancelRequested
    BY <2>1, RecoveredFields
  <2> QED
    BY <1>1, <2>1, <2>2, RecoveredOver
<1>4. CASE ~Crash /\ ~Open
  <2>1. Move(k) /\ (DiskStays \/ DiskFollows)
    BY <1>4, MovesStep DEF Moves
  <2>2. mem'.jobs[k].cancelRequested =>
          \/ mem'.jobs[k].state \in Over
          \/ mem'.jobs[k].state \in Running /\ (k \in active' => k \in cancelled')
    BY <1>4, <2>1, StopMove
  <2>3. CASE DiskStays
    <3>1. /\ disk'.jobs[k].state = disk.jobs[k].state
          /\ disk'.jobs[k].cancelRequested = disk.jobs[k].cancelRequested
      BY <2>3 DEF DiskStays, SameButDelay, Alike
    <3>2. k \in CancelRecorded =>
            \/ mem'.jobs[k].state \in Over
            \/ mem'.jobs[k].cancelRequested /\ mem'.jobs[k].state \in Running
      BY <2>1, WithdrawnMove
    <3> QED
      BY <1>1, <2>2, <3>1, <3>2 DEF CancelRecorded
  <2>4. CASE disk'.jobs[k] = mem'.jobs[k]
    BY <2>2, <2>4
  <2>5. CASE disk'.jobs[k] = mem.jobs[k] /\ Begun(k)
    <3>1. mem.jobs[k].state = "pending" /\ ~mem.jobs[k].cancelRequested
      BY <2>5 DEF Begun, StopInv, Over, Running
    <3> QED
      BY <2>2, <2>5, <3>1 DEF Running
  <2> QED
    BY <2>1, <2>3, <2>4, <2>5 DEF DiskFollows
<1> QED
  BY <1>2, <1>3, <1>4

LEMMA StopInvInit == Init => StopInv
<1> SUFFICES ASSUME Init, NEW k \in Ids PROVE ~disk.jobs[k].cancelRequested
  BY EmptyStores DEF StopInv, CancelRecorded
<1>1. NoJob.cancelRequested = FALSE
  BY DEF NoJob, NewJob
<1>2. \A c : [NewJob(c) EXCEPT !.state = "completed", !.sealed = TRUE].cancelRequested = FALSE
  BY DEF NewJob
<1> QED
  BY <1>1, <1>2, EmptyStores

(* The revision in memory never falls while the process lives. *)
LEMMA RevisionGrows ==
  ASSUME TypeOK, [Next]_vars, ~Crash, ~Open
  PROVE  mem'.revision >= mem.revision
<1>1. mem.revision \in Nat
  BY DEF TypeOK, Store
<1>2. ASSUME Quiet PROVE mem'.revision >= mem.revision
  BY <1>1, <1>2 DEF Quiet
<1>3. ASSUME mem' = mem PROVE mem'.revision >= mem.revision
  BY <1>1, <1>3
<1>4. ASSUME NEW options \in OptionSets, Configure(options)
      PROVE  mem'.revision >= mem.revision
  <2> DEFINE new == [mem EXCEPT !.options = options]
  <2>1. new.revision = mem.revision
    BY DEF TypeOK, Store
  <2>2. mem' = mem \/ Save(new)
    BY <1>4 DEF Configure
  <2> HIDE DEF new
  <2>3. mem' = mem \/ mem' = new
    BY <2>2, SaveStep
  <2> QED
    BY <1>1, <2>1, <2>3
<1>5. ASSUME NEW j \in Ids, NEW outcome \in Outcomes, Finish(j, outcome)
      PROVE  mem'.revision >= mem.revision
  <2>1. mem'.revision \in Nat
    BY TypeStep DEF TypeOK, Store
  <2> QED
    BY <1>1, <1>5, <2>1, FinishFields
<1> QED
  BY <1>2, <1>3, <1>4, <1>5, BeginQuiet, SealQuiet, CancelQuiet, RetryQuiet, ClearQuiet,
     TickQuiet, ProgressQuiet, BackoffQuiet
  DEF Next, Append, Retry, RetryFailed, Summary, Conditions, SendCommit,
      AuthorizationChanges, Close, vars

(* A completion that is not on disk is ahead of the disk in its revision. *)
LEMMA CompletedAhead ==
  ASSUME TypeOK, RevisionInv, CompletionInv, [Next]_vars, ~Crash, ~Open, NEW k \in Ids, Move(k),
         mem'.jobs[k].state = "completed", disk.jobs[k].state # "completed"
  PROVE  mem'.revision > disk.revision
<1>1. /\ mem.revision \in Nat /\ disk.revision \in Nat /\ mem'.revision \in Nat
      /\ disk.revision <= mem.revision /\ mem.revision <= mem'.revision
  BY TypeStep, RevisionGrows DEF TypeOK, Store, RevisionInv
<1>2. CASE mem.jobs[k].state = "completed"
  <2>1. mem.revision > disk.revision
    BY <1>2 DEF CompletionInv
  <2> QED
    BY <1>1, <2>1
<1>3. CASE mem.jobs[k].state # "completed"
  <2>1. Ended(k)
    BY <1>3 DEF Move, Stays, Alike, Created, Dropped, Queued, Renewed, Cleared, Begun,
                Phased, Running
  <2>2. mem'.revision > mem.revision
    BY <2>1 DEF Ended
  <2> QED
    BY <1>1, <2>2
<1> QED
  BY <1>2, <1>3

LEMMA CompletionInvStep ==
  TypeOK /\ CommitInv /\ RevisionInv /\ CompletionInv /\ [Next]_vars => CompletionInv'
<1> SUFFICES ASSUME TypeOK, CommitInv, RevisionInv, CompletionInv, [Next]_vars, NEW k \in Ids,
                    mem'.jobs[k].state = "completed", disk'.jobs[k].state # "completed"
             PROVE  mem'.revision > disk'.revision
  BY DEF CompletionInv
<1>1. ~Crash /\ ~Open
  BY OpenJobs DEF Crash
<1>2. /\ Move(k)
      /\ \/ DiskStays /\ disk'.revision = disk.revision
         \/ DiskFollows
  BY <1>1, MovesStep DEF Moves
<1>3. CASE DiskStays /\ disk'.revision = disk.revision
  <2>1. disk.jobs[k].state # "completed"
    BY <1>3 DEF DiskStays, SameButDelay, Alike
  <2> QED
    BY <1>1, <1>2, <1>3, <2>1, CompletedAhead
<1>4. CASE DiskFollows
  BY <1>4 DEF DiskFollows, Begun
<1> QED
  BY <1>2, <1>3, <1>4

LEMMA CompletionInvInit == Init => CompletionInv
BY DEF Init, CompletionInv

-----------------------------------------------------------------------------
(* The ledger. *)

InQueue == {"pending", "preparing", "uploading"}

(* How far memory, or a later save, may be ahead of a job's state on disk. *)
Ahead(a, b) ==
    \/ b = a
    \/ a \in InQueue /\ b \in InQueue \cup {"committing", "completed", "failed", "cancelled"}
    \/ a = "none" /\ b = "importing"
    \/ a = "importing" /\ b \in {"pending", "cancelled"}
    \/ a = "committing" /\ b \in {"completed", "failed"}
    \/ a \in Finished /\ b = "none"
    \/ a = "failed" /\ b \in {"pending", "cancelled"}

LedgerInv ==
    \A k \in Ids :
        /\ Ahead(disk.jobs[k].state, mem.jobs[k].state)
        /\ k \in active =>
             /\ disk.jobs[k].state \in Running
                  \/ disk.jobs[k].state = "pending"
             /\ disk.jobs[k].state = "committing" => mem.jobs[k].state = "committing"

LEMMA AheadPhase ==
  ASSUME NEW a \in States \ {"none"}, NEW b \in States \ {"none"}, Ahead(a, b)
  PROVE  /\ PhaseOf(b) \in Ledger!Phases
         /\ PhaseOf(b) \in Ledger!LifeCycle[PhaseOf(a)] \cup {PhaseOf(a)}
<1>1. PhaseOf(b) \in Ledger!Phases
  BY DEF States, Running, Finished, PhaseOf, Ledger!Phases
<1>2. CASE b = a \/ (a \in InQueue /\ b \in InQueue)
  BY <1>1, <1>2 DEF InQueue, PhaseOf
<1>3. CASE a \in InQueue /\ b \in {"committing", "completed", "failed", "cancelled"}
  BY <1>1, <1>3 DEF InQueue, PhaseOf, Ledger!LifeCycle
<1>4. CASE a = "importing" /\ b \in {"pending", "cancelled"}
  BY <1>1, <1>4 DEF PhaseOf, Ledger!LifeCycle
<1>5. CASE a = "committing" /\ b \in {"completed", "failed"}
  BY <1>1, <1>5 DEF PhaseOf, Ledger!LifeCycle
<1>6. CASE a = "failed" /\ b \in {"pending", "cancelled"}
  BY <1>1, <1>6 DEF PhaseOf, Ledger!LifeCycle
<1> QED
  BY <1>1, <1>2, <1>3, <1>4, <1>5, <1>6 DEF Ahead

LEMMA RecoveredAhead == \A job \in Job : Ahead(job.state, Recovered(job).state)
<1> SUFFICES ASSUME NEW job \in Job PROVE Ahead(job.state, Recovered(job).state)
  OBVIOUS
<1> DEFINE now == Interrupted(job)
<1>1. /\ now \in Job
      /\ \/ now.state = job.state
         \/ job.state \in {"uploading", "preparing"} /\ now.state = "pending"
         \/ job.state = "committing" /\ now.state = "failed"
         \/ job.state = "importing" /\ now.state = "cancelled"
  BY InterruptedType DEF Interrupted, Job
<1> HIDE DEF now
<1>2. Recovered(job).state = now.state
      \/ (now.state = "pending" /\ Recovered(job).state = "cancelled")
  BY <1>1 DEF Recovered, now, Job
<1> QED
  BY <1>1, <1>2 DEF Ahead, InQueue

(* Requests and ticks are served only in sync; afterwards, workers bring the *)
(* disk further along the same life cycle.                                   *)
LEMMA AheadMove ==
  ASSUME TypeOK, CommitInv, InSync, RunningHasWorker, LedgerInv, NEW k \in Ids, Move(k)
  PROVE  Ahead(disk.jobs[k].state, mem'.jobs[k].state)
<1> DEFINE a == disk.jobs[k].state
           b == mem'.jobs[k].state
<1>1. Ahead(a, mem.jobs[k].state)
  BY DEF LedgerInv
<1>2. Serving => a = mem.jobs[k].state
  BY Zenon DEF Serving, InSync
<1>3. k \in active =>
        /\ a \in InQueue \cup {"committing"}
        /\ a = "committing" => mem.jobs[k].state = "committing"
        /\ mem.jobs[k].state \in Running
  BY DEF LedgerInv, CommitInv, WorkersRun, Running, InQueue
<1> HIDE DEF a
<1>4. CASE Stays(k)
  BY <1>1, <1>4 DEF Stays, Alike, a
<1>5. CASE Created(k)
  <2>1. a = "none"
    BY <1>2, <1>5 DEF Created, CommitInv, FreshIds, TypeOK
  <2> QED
    BY <1>5, <2>1 DEF Created, Ahead, a
<1>6. CASE Dropped(k)
  <2>1. mem.jobs[k].state \notin Running
    BY <1>6 DEF Dropped, Serving, RunningHasWorker
  <2>2. a \in {"importing", "pending", "failed"}
    BY <1>2, <1>6, <2>1, JobType DEF Dropped, TypeOK, Job, States
  <2> QED
    BY <1>6, <2>2 DEF Dropped, Ahead, InQueue, a
<1>7. CASE Queued(k) \/ Renewed(k) \/ Cleared(k) \/ Begun(k)
  BY <1>2, <1>7 DEF Queued, Renewed, Cleared, Begun, Ahead, InQueue, a
<1>8. CASE Phased(k)
  BY <1>3, <1>8 DEF Phased, Ahead, InQueue, Running, a
<1>9. CASE Ended(k)
  BY <1>3, <1>9 DEF Ended, Ahead, InQueue, a
<1> QED
  BY <1>4, <1>5, <1>6, <1>7, <1>8, <1>9 DEF Move, a

LEMMA LedgerInvStep ==
  TypeOK /\ CommitInv /\ InSync /\ RunningHasWorker /\ LedgerInv /\ [Next]_vars
    => LedgerInv'
<1> SUFFICES ASSUME TypeOK, CommitInv, InSync, RunningHasWorker, LedgerInv, [Next]_vars,
                    NEW k \in Ids
             PROVE  /\ Ahead(disk'.jobs[k].state, mem'.jobs[k].state)
                    /\ k \in active' =>
                         /\ \/ disk'.jobs[k].state \in Running
                            \/ disk'.jobs[k].state = "pending"
                         /\ disk'.jobs[k].state = "committing" =>
                              mem'.jobs[k].state = "committing"
  BY DEF LedgerInv, Ahead
<1>1. CASE Crash
  BY <1>1 DEF Crash, ForgetWork, Ahead
<1>2. CASE Open
  <2>1. mem' = disk'
    BY <1>2, OpenJobs
  <2>2. active' = {}
    BY <1>2 DEF Open, CommitInv, DownIsIdle
  <2> QED
    BY <2>1, <2>2 DEF Ahead
<1>3. CASE ~Crash /\ ~Open
  <2>1. Move(k) /\ (DiskStays \/ DiskFollows)
    BY <1>3, MovesStep DEF Moves
  <2>2. Ahead(disk.jobs[k].state, mem'.jobs[k].state)
    BY <2>1, AheadMove
  <2>3. CommitInv'
    BY CommitInvStep
  <2>4. k \in active' => mem'.jobs[k].state \in Running
    BY <2>3 DEF CommitInv, WorkersRun
  <2>5. CASE disk'.jobs[k].state = mem'.jobs[k].state
    BY <2>4, <2>5 DEF Ahead
  <2>6. CASE disk'.jobs[k] = mem.jobs[k] /\ Begun(k)
    BY <2>6 DEF Begun, Ahead, InQueue
  <2>7. CASE DiskStays
    <3>1. disk'.jobs[k].state = disk.jobs[k].state
      BY <2>7 DEF DiskStays, SameButDelay, Alike
    <3>2. ASSUME k \in active'
          PROVE  /\ \/ disk.jobs[k].state \in Running
                    \/ disk.jobs[k].state = "pending"
                 /\ disk.jobs[k].state = "committing" => mem'.jobs[k].state = "committing"
      <4>1. k \in active =>
              /\ disk.jobs[k].state \in Running \/ disk.jobs[k].state = "pending"
              /\ disk.jobs[k].state = "committing" => mem.jobs[k].state = "committing"
        BY DEF LedgerInv
      <4>2. k \in active => mem.jobs[k].state \in Running
        BY DEF CommitInv, WorkersRun
      <4>3. CASE Stays(k)
        BY <3>2, <4>1, <4>3 DEF Stays, Alike
      <4>4. CASE Phased(k)
        BY <3>2, <4>1, <4>4 DEF Phased
      <4>5. CASE Begun(k)
        <5>1. mem = disk
          BY <4>5, Zenon DEF Begun, Serving, InSync
        <5> QED
          BY <4>5, <5>1 DEF Begun
      <4>6. CASE Created(k) \/ Dropped(k) \/ Queued(k) \/ Renewed(k) \/ Cleared(k)
                   \/ Ended(k)
        BY <2>4, <3>2, <4>6
        DEF Created, Dropped, Queued, Renewed, Cleared, Ended, Running
      <4> QED
        BY <2>1, <4>3, <4>4, <4>5, <4>6 DEF Move
    <3> QED
      BY <2>2, <3>1, <3>2
  <2> QED
    BY <2>1, <2>5, <2>6, <2>7 DEF DiskFollows
<1> QED
  BY <1>1, <1>2, <1>3

LEMMA LedgerInvInit == Init => LedgerInv
BY DEF Init, LedgerInv, Ahead

(* The record of every job stays or moves along its life cycle. *)
LEMMA RecordStep ==
  ASSUME TypeOK, CommitInv, InSync, RunningHasWorker, LedgerInv, [Next]_vars,
         NEW k \in Ids
  PROVE  Ahead(disk.jobs[k].state, disk'.jobs[k].state)
<1>1. CASE Crash
  BY <1>1 DEF Crash, Ahead
<1>2. CASE Open
  <2>1. /\ disk.jobs[k] \in Job
        /\ disk'.jobs[k] = disk.jobs[k] \/ disk'.jobs[k] = Recovered(disk.jobs[k])
    BY <1>2, OpenJobs
  <2> QED
    BY <2>1, RecoveredAhead DEF Ahead
<1>3. CASE ~Crash /\ ~Open
  <2>1. Move(k) /\ (DiskStays \/ DiskFollows)
    BY <1>3, MovesStep DEF Moves
  <2>2. Ahead(disk.jobs[k].state, mem'.jobs[k].state)
    BY <2>1, AheadMove
  <2>3. Ahead(disk.jobs[k].state, mem.jobs[k].state)
    BY DEF LedgerInv
  <2>4. CASE DiskStays
    BY <2>4 DEF DiskStays, SameButDelay, Alike, Ahead
  <2>5. CASE DiskFollows
    BY <2>2, <2>3, <2>5 DEF DiskFollows
  <2> QED
    BY <2>1, <2>4, <2>5
<1> QED
  BY <1>1, <1>2, <1>3

(* A job in no list, in memory or on disk, whose id was drawn never returns. *)
LEMMA ClearedStays ==
  ASSUME TypeOK, CommitInv, [Next]_vars, NEW k \in Ids, k <= issued,
         mem.jobs[k].state = "none", disk.jobs[k].state = "none"
  PROVE  mem'.jobs[k].state = "none" /\ disk'.jobs[k].state = "none"
<1>1. CASE Crash
  BY <1>1 DEF Crash
<1>2. CASE Open
  <2>1. /\ mem' = disk' /\ disk.jobs[k] \in Job
        /\ disk'.jobs[k] = disk.jobs[k] \/ disk'.jobs[k] = Recovered(disk.jobs[k])
    BY <1>2, OpenJobs
  <2> QED
    BY <2>1, RecoveredState
<1>3. CASE ~Crash /\ ~Open
  <2>1. Move(k) /\ (DiskStays \/ DiskFollows)
    BY <1>3, MovesStep DEF Moves
  <2>2. k \notin active
    BY DEF CommitInv, WorkersRun, Running
  <2>3. issued \in Nat
    BY DEF TypeOK
  <2>4. Stays(k)
    BY <2>1, <2>2, <2>3
    DEF Move, Created, Dropped, Queued, Renewed, Cleared, Begun, Phased, Ended, Finished
  <2>5. mem'.jobs[k].state = "none"
    BY <2>4 DEF Stays, Alike
  <2>6. CASE DiskStays
    BY <2>5, <2>6 DEF DiskStays, SameButDelay, Alike
  <2>7. CASE DiskFollows
    BY <2>5, <2>7 DEF DiskFollows
  <2> QED
    BY <2>1, <2>5, <2>6, <2>7
<1> QED
  BY <1>1, <1>2, <1>3

(* A job that leaves the disk has left memory too. *)
LEMMA ClearedBoth ==
  ASSUME TypeOK, CommitInv, [Next]_vars, NEW k \in Ids,
         disk.jobs[k].state # "none", disk'.jobs[k].state = "none"
  PROVE  mem'.jobs[k].state = "none"
<1>1. CASE Crash
  BY <1>1 DEF Crash
<1>2. CASE Open
  BY <1>2, OpenJobs
<1>3. CASE ~Crash /\ ~Open
  <2>1. DiskStays \/ DiskFollows
    BY <1>3, MovesStep DEF Moves
  <2>2. ~DiskStays
    BY DEF DiskStays, SameButDelay, Alike
  <2> QED
    BY <2>1, <2>2 DEF DiskFollows, Begun
<1> QED
  BY <1>1, <1>2, <1>3

(* The phase of every job, as the ledger sees it, moves along its life cycle. *)
LEMMA PhaseStep ==
  ASSUME TypeOK, CommitInv, InSync, RunningHasWorker, LedgerInv, [Next]_vars,
         NEW k \in Ids
  PROVE  /\ Phase(k)' \in Ledger!Phases
         /\ Phase(k)' \in Ledger!LifeCycle[Phase(k)] \cup {Phase(k)}
<1> DEFINE a == disk.jobs[k].state
           b == disk'.jobs[k].state
<1>1. a \in States /\ b \in States
  BY TypeStep, JobType DEF TypeOK, Job
<1>2. Ahead(a, b)
  BY RecordStep
<1>3. issued' \in Nat /\ issued \in Nat /\ issued <= issued'
  BY IssuedStep
<1>4. /\ Phase(k) = IF a # "none" THEN PhaseOf(a)
                    ELSE IF k <= issued /\ mem.jobs[k].state = "none" THEN "cleared"
                    ELSE "absent"
      /\ Phase(k)' = IF b # "none" THEN PhaseOf(b)
                     ELSE IF k <= issued' /\ mem'.jobs[k].state = "none" THEN "cleared"
                     ELSE "absent"
  BY DEF Phase, PhaseOf
<1>5. k \in Nat
  BY DEF Ids
<1>6. CASE a # "none" /\ b # "none"
  BY <1>1, <1>2, <1>4, <1>6, AheadPhase
<1>7. CASE a # "none" /\ b = "none"
  <2>1. mem'.jobs[k].state = "none"
    BY <1>7, ClearedBoth
  <2>2. k <= issued
    BY <1>3, <1>5, <1>7 DEF CommitInv, FreshIds
  <2>3. Phase(k)' = "cleared"
    BY <1>3, <1>4, <1>5, <1>7, <2>1, <2>2
  <2>4. a \in Finished
    BY <1>2, <1>7 DEF Ahead, InQueue
  <2>5. Phase(k) = a
    BY <1>4, <1>7, <2>4 DEF PhaseOf, Finished
  <2> QED
    BY <2>3, <2>4, <2>5 DEF Finished, Ledger!Phases, Ledger!LifeCycle
<1>8. CASE a = "none" /\ b # "none"
  <2>1. b = "importing"
    BY <1>2, <1>8 DEF Ahead, InQueue, Finished
  <2>2. ~(k <= issued /\ mem.jobs[k].state = "none")
    BY <1>8, ClearedStays
  <2>3. Phase(k) = "absent" /\ Phase(k)' = "importing"
    BY <1>4, <1>8, <2>1, <2>2 DEF PhaseOf
  <2> QED
    BY <2>3 DEF Ledger!Phases, Ledger!LifeCycle
<1>9. CASE a = "none" /\ b = "none"
  <2>1. Phase(k) = "cleared" => Phase(k)' = "cleared"
    BY <1>3, <1>4, <1>5, <1>9, ClearedStays
  <2>2. Phase(k) \in {"absent", "cleared"} /\ Phase(k)' \in {"absent", "cleared"}
    BY <1>4, <1>9
  <2> QED
    BY <2>1, <2>2 DEF Ledger!Phases, Ledger!LifeCycle
<1> QED
  BY <1>6, <1>7, <1>8, <1>9

(* A recorded cancellation stays on record until the job has come to an end. *)
LEMMA WithdrawnStep ==
  ASSUME TypeOK, CommitInv, InSync, RunningHasWorker, StopInv, [Next]_vars,
         NEW k \in CancelRecorded, k \notin CancelRecorded'
  PROVE  disk'.jobs[k].state \in Over
<1>1. k \in Ids /\ disk.jobs[k].cancelRequested /\ disk.jobs[k].state \in Running
  BY DEF CancelRecorded
<1>2. ~(disk'.jobs[k].cancelRequested /\ disk'.jobs[k].state \in Running)
  BY <1>1 DEF CancelRecorded
<1>3. CASE Crash
  BY <1>1, <1>2, <1>3 DEF Crash
<1>4. CASE Open
  <2>1. /\ disk.jobs[k] \in Job
        /\ disk'.jobs[k] = disk.jobs[k] \/ disk'.jobs[k] = Recovered(disk.jobs[k])
    BY <1>1, <1>4, OpenJobs
  <2> QED
    BY <1>1, <1>2, <2>1, RecoveredOver
<1>5. CASE ~Crash /\ ~Open
  <2>1. Move(k) /\ (DiskStays \/ DiskFollows)
    BY <1>1, <1>5, MovesStep DEF Moves
  <2>2. ~DiskStays
    BY <1>1, <1>2 DEF DiskStays, SameButDelay, Alike
  <2>3. \/ mem'.jobs[k].state \in Over
        \/ mem'.jobs[k].cancelRequested /\ mem'.jobs[k].state \in Running
    BY <2>1, WithdrawnMove
  <2>4. ~(disk'.jobs[k] = mem.jobs[k] /\ Begun(k))
    <3>1. Serving => mem = disk
      BY Zenon DEF Serving, InSync
    <3> QED
      BY <1>1, <3>1 DEF Begun, Running
  <2> QED
    BY <1>1, <1>2, <2>1, <2>2, <2>3, <2>4 DEF DiskFollows
<1> QED
  BY <1>3, <1>4, <1>5

(* The recorded revision never falls, and rises with every completion that   *)
(* is recorded.                                                              *)
LEMMA RevisionRecorded ==
  ASSUME TypeOK, CommitInv, RevisionInv, CompletionInv, [Next]_vars
  PROVE  /\ disk'.revision >= disk.revision
         /\ \A k \in Ids : disk'.jobs[k].state = "completed" /\ disk.jobs[k].state # "completed"
                             => disk'.revision > disk.revision
<1>1. /\ disk.revision \in Nat /\ mem.revision \in Nat /\ mem'.revision \in Nat
      /\ disk.revision <= mem.revision
  BY TypeStep DEF TypeOK, Store, RevisionInv
<1>2. CASE Crash
  BY <1>1, <1>2 DEF Crash
<1>3. CASE Open
  <2>1. disk'.revision = disk.revision
    BY <1>3, OpenFields
  <2>2. \A k \in Ids : disk'.jobs[k].state = "completed" => disk.jobs[k].state = "completed"
    BY <1>3, OpenJobs, RecoveredFields
  <2> QED
    BY <1>1, <2>1, <2>2
<1>4. CASE ~Crash /\ ~Open
  <2>1. /\ \A k \in Ids : Move(k)
        /\ \/ DiskStays /\ disk'.revision = disk.revision
           \/ DiskFollows /\ disk'.revision = mem'.revision
    BY <1>4, MovesStep DEF Moves
  <2>2. CASE DiskStays /\ disk'.revision = disk.revision
    BY <1>1, <2>2 DEF DiskStays, SameButDelay, Alike
  <2>3. CASE DiskFollows /\ disk'.revision = mem'.revision
    <3>1. disk'.revision >= disk.revision
      BY <1>1, <1>4, <2>3, RevisionGrows
    <3>2. ASSUME NEW k \in Ids, disk'.jobs[k].state = "completed",
                 disk.jobs[k].state # "completed"
          PROVE  disk'.revision > disk.revision
      <4>1. mem'.jobs[k].state = "completed"
        BY <2>3, <3>2 DEF DiskFollows, Begun
      <4> QED
        BY <1>4, <2>1, <2>3, <3>2, <4>1, CompletedAhead
    <3> QED
      BY <3>1, <3>2
  <2> QED
    BY <2>1, <2>2, <2>3
<1> QED
  BY <1>2, <1>3, <1>4

(* The user's consent, as the ledger sees it. *)
LEMMA ConsentStep ==
  ASSUME TypeOK, InSync, NEW jobs \in SUBSET Ids, RetryJobs(jobs),
         \A j \in jobs : mem.jobs[j].state = "failed"
  PROVE  Ledger!Consent(jobs)
<1> DEFINE list == [j \in Ids |-> IF j \in jobs THEN ResetRetry(mem.jobs[j])
                                                ELSE mem.jobs[j]]
           new == [mem EXCEPT !.jobs = list]
<1>1. list \in [Ids -> Job]
  BY JobType, ResetRetryType DEF TypeOK
<1>2. \A j \in Ids : new.jobs[j] = IF j \in jobs THEN ResetRetry(mem.jobs[j])
                                                ELSE mem.jobs[j]
  BY <1>1, SetJobsAt DEF TypeOK
<1>3. mem' = new /\ disk' \in {disk, new} /\ issued' = issued
  BY SaveStep DEF RetryJobs
<1>4. mem = disk
  BY Zenon DEF RetryJobs, Serving, InSync
<1>5. commits' = commits /\ retried \in [Ids -> Nat]
      /\ retried' = [j \in Ids |-> IF j \in jobs THEN retried[j] + 1 ELSE retried[j]]
  BY DEF RetryJobs, TypeOK
<1>6. new.revision = mem.revision
  BY SetJobsFields DEF TypeOK
<1> HIDE DEF list, new
<1>7. ASSUME NEW j \in jobs
      PROVE  /\ disk.jobs[j].state = "failed" /\ mem'.jobs[j].state = "pending"
             /\ disk'.jobs[j].state \in {"failed", "pending"}
             /\ disk' = new => disk'.jobs[j].state = "pending"
  <2>1. mem.jobs[j] \in Job
    BY JobType DEF TypeOK
  <2>2. new.jobs[j].state = "pending"
    BY <1>2, <2>1, ResetRetryFields
  <2> QED
    BY <1>3, <1>4, <2>2
<1>8. \A j \in Ids \ jobs : mem'.jobs[j] = mem.jobs[j] /\ disk'.jobs[j] = disk.jobs[j]
  BY <1>2, <1>3, <1>4
<1>9. \A j \in jobs : Phase(j) = "failed"
  BY <1>7 DEF Phase, PhaseOf
<1>10. \A j \in Ids \ jobs : Phase(j)' = Phase(j)
  BY <1>3, <1>8 DEF Phase
<1>11. \A j \in jobs : disk' = disk => Phase(j)' = "failed"
  BY <1>7 DEF Phase, PhaseOf
<1>12. \A j \in jobs : disk' = new => Phase(j)' = "queued"
  BY <1>7 DEF Phase, PhaseOf
<1>13. [j \in Ids |-> Phase(j)'] \in
        {[j \in Ids |-> Phase(j)],
         [j \in Ids |-> IF j \in jobs THEN "queued" ELSE [i \in Ids |-> Phase(i)][j]]}
  <2>1. CASE disk' = disk
    <3>1. \A j \in Ids : Phase(j)' = Phase(j)
      BY <1>9, <1>10, <1>11, <2>1
    <3> QED
      BY <3>1
  <2>2. CASE disk' = new
    <3>1. \A j \in Ids : Phase(j)' = IF j \in jobs THEN "queued" ELSE [i \in Ids |-> Phase(i)][j]
      BY <1>10, <1>12, <2>2
    <3> QED
      BY <3>1
  <2> QED
    BY <1>3, <2>1, <2>2
<1>14. CancelRecorded' = CancelRecorded
  <2>1. \A j \in jobs : disk.jobs[j].state \notin Running /\ disk'.jobs[j].state \notin Running
    BY <1>7 DEF Running
  <2> QED
    BY <1>8, <2>1 DEF CancelRecorded
<1>15. disk'.revision = disk.revision
  BY <1>3, <1>4, <1>6
<1>16. [j \in Ids |-> 1 + retried'[j]] =
         [j \in Ids |-> IF j \in jobs THEN [i \in Ids |-> 1 + retried[i]][j] + 1
                                      ELSE [i \in Ids |-> 1 + retried[i]][j]]
  BY <1>5
<1>17. \A j \in jobs : [i \in Ids |-> Phase(i)][j] = "failed"
  BY <1>9
<1> QED
  BY <1>5, <1>13, <1>14, <1>15, <1>16, <1>17, Zenon DEF Ledger!Consent

LEMMA LedgerCommitStep ==
  ASSUME TypeOK, CommitInv, StopInv, NEW j \in Ids, SendCommit(j)
  PROVE  Ledger!Commit(j)
<1>1. /\ j \in active \ cancelled /\ j \notin sent
      /\ mem.jobs[j].state = "committing" /\ disk.jobs[j].state = "committing"
      /\ commits' = [commits EXCEPT ![j] = @ + 1]
      /\ UNCHANGED <<mem, disk, issued, retried>>
  BY DEF SendCommit, CommitInv, CommittingSaved
<1>2. commits[j] < 1 + retried[j]
  <2>1. commits[j] \in Nat /\ retried[j] \in Nat
    BY DEF TypeOK
  <2>2. commits[j] <= retried[j]
    BY <1>1 DEF CommitInv, CommitBudget
  <2> QED
    BY <2>1, <2>2
<1>3. Phase(j) = "committing"
  BY <1>1 DEF Phase, PhaseOf
<1>4. j \notin CancelRecorded
  <2>1. ~mem.jobs[j].cancelRequested
    BY <1>1 DEF StopInv, Over
  <2> QED
    BY <1>1, <2>1 DEF StopInv, Over
<1>5. /\ [k \in Ids |-> Phase(k)][j] = "committing"
      /\ [k \in Ids |-> 1 + retried[k]][j] = 1 + retried[j]
  BY <1>3
<1>6. /\ \A k : Phase(k)' = Phase(k)
      /\ CancelRecorded' = CancelRecorded /\ disk'.revision = disk.revision
  BY <1>1 DEF Phase, CancelRecorded
<1>7. /\ [k \in Ids |-> Phase(k)'] = [k \in Ids |-> Phase(k)]
      /\ [k \in Ids |-> 1 + retried'[k]] = [k \in Ids |-> 1 + retried[k]]
  BY <1>1, <1>6
<1> QED
  BY <1>1, <1>2, <1>4, <1>5, <1>6, <1>7 DEF Ledger!Commit

LEMMA LedgerRecordStep ==
  ASSUME TypeOK, CommitInv, InSync, RunningHasWorker, LedgerInv, StopInv, RevisionInv,
         CompletionInv, [Next]_vars, commits' = commits, retried' = retried
  PROVE  Ledger!Record
<1>1. /\ \A k \in Ids : [i \in Ids |-> Phase(i)][k] = Phase(k)
      /\ \A k \in Ids : [i \in Ids |-> Phase(i)'][k] = Phase(k)'
  OBVIOUS
<1>2. [i \in Ids |-> Phase(i)'] \in [Ids -> Ledger!Phases]
  BY PhaseStep
<1>3. \A k \in Ids : [i \in Ids |-> Phase(i)'][k] \in
                       Ledger!LifeCycle[[i \in Ids |-> Phase(i)][k]]
                         \cup {[i \in Ids |-> Phase(i)][k]}
  BY <1>1, PhaseStep
<1>4. CancelRecorded' \subseteq
        {k \in Ids : [i \in Ids |-> Phase(i)'][k] \in {"queued", "committing"}}
  <2> SUFFICES ASSUME NEW k \in CancelRecorded'
               PROVE  k \in Ids /\ Phase(k)' \in {"queued", "committing"}
    BY <1>1
  <2> QED
    BY DEF CancelRecorded, Phase, PhaseOf, Running
<1>5. \A k \in CancelRecorded \ CancelRecorded' :
        [i \in Ids |-> Phase(i)'][k] \in {"completed", "failed", "cancelled"}
  <2> SUFFICES ASSUME NEW k \in CancelRecorded \ CancelRecorded'
               PROVE  Phase(k)' \in {"completed", "failed", "cancelled"}
    BY <1>1 DEF CancelRecorded
  <2>1. disk'.jobs[k].state \in Over
    BY WithdrawnStep
  <2> QED
    BY <2>1 DEF Phase, PhaseOf, Over
<1>6. disk'.revision >= disk.revision
  BY RevisionRecorded
<1>7. \A k \in Ids : /\ [i \in Ids |-> Phase(i)'][k] = "completed"
                     /\ [i \in Ids |-> Phase(i)][k] # "completed"
                     => disk'.revision > disk.revision
  <2> SUFFICES ASSUME NEW k \in Ids, Phase(k)' = "completed", Phase(k) # "completed"
               PROVE  disk'.revision > disk.revision
    BY <1>1
  <2>1. disk'.jobs[k].state = "completed" /\ disk.jobs[k].state # "completed"
    BY DEF Phase, PhaseOf
  <2> QED
    BY <2>1, RevisionRecorded
<1> QED
  BY <1>2, <1>3, <1>4, <1>5, <1>6, <1>7 DEF Ledger!Record

LEMMA LedgerStep ==
  TypeOK /\ CommitInv /\ InSync /\ RunningHasWorker /\ LedgerInv /\ StopInv /\ RevisionInv
    /\ CompletionInv /\ [Next]_vars
    => [Ledger!LedgerNext]_Ledger!ledgerVars
<1> SUFFICES ASSUME TypeOK, CommitInv, InSync, RunningHasWorker, LedgerInv, StopInv,
                    RevisionInv, CompletionInv, [Next]_vars
             PROVE  Ledger!LedgerNext \/ UNCHANGED Ledger!ledgerVars
  BY DEF Ledger!ledgerVars
<1>1. ASSUME commits' = commits, retried' = retried PROVE Ledger!Record
  BY <1>1, LedgerRecordStep
<1>2. ASSUME NEW j \in Ids, Retry(j) PROVE \E jobs \in SUBSET Ids : Ledger!Consent(jobs)
  BY <1>2, ConsentStep DEF Retry
<1>3. ASSUME RetryFailed PROVE \E jobs \in SUBSET Ids : Ledger!Consent(jobs)
  BY <1>3, ConsentStep DEF RetryFailed
<1>4. ASSUME NEW j \in Ids, SendCommit(j) PROVE \E i \in Ids : Ledger!Commit(i)
  BY <1>4, LedgerCommitStep
<1>5. \/ commits' = commits /\ retried' = retried
      \/ RetryFailed \/ \E j \in Ids : Retry(j) \/ SendCommit(j)
  BY DEF Next, Begin, Append, Seal, Cancel, ClearCompleted, Summary, Configure, Conditions,
         Tick, Progress, BackoffExpires, Finish, AuthorizationChanges, Close, Crash, Open,
         vars, history
<1> QED
  BY <1>1, <1>2, <1>3, <1>4, <1>5 DEF Ledger!LedgerNext

(* At first there are no jobs but one that an older build has completed. *)
LEMMA LedgerStart == Init => Ledger!LedgerInit
<1> SUFFICES ASSUME Init PROVE Ledger!LedgerInit
  OBVIOUS
<1>1. /\ commits = [j \in Ids |-> 0] /\ retried = [j \in Ids |-> 0]
      /\ issued \in {0, 1} /\ disk.revision = 0
  <2>1. \A options, c : /\ EmptyStore(options).revision = 0
                        /\ LegacyStore(options, c).revision = 0
    BY DEF LegacyStore, EmptyStore
  <2> QED
    BY <2>1 DEF Init
<1>2. ASSUME NEW k \in Ids
      PROVE  /\ disk.jobs[k].state \in {"none", "completed"}
             /\ disk.jobs[k].state = "none" => k > issued
             /\ ~disk.jobs[k].cancelRequested
  <2>1. CASE \E options : disk = EmptyStore(options) /\ issued = 0
    <3>1. \A options : EmptyStore(options).jobs[k] = NoJob
      BY DEF EmptyStore
    <3>2. NoJob.state = "none" /\ ~NoJob.cancelRequested
      BY DEF NoJob, NewJob
    <3> QED
      BY <2>1, <3>1, <3>2 DEF Ids
  <2>2. ASSUME NEW options, NEW c \in LegacyContents, disk = LegacyStore(options, c),
               issued = 1
        PROVE  /\ disk.jobs[k].state \in {"none", "completed"}
               /\ disk.jobs[k].state = "none" => k > issued
               /\ ~disk.jobs[k].cancelRequested
    <3>1. disk.jobs[k] =
            IF k = 1 THEN [NewJob(c) EXCEPT !.state = "completed", !.sealed = TRUE]
                     ELSE NoJob
      BY <2>2, ConstantsAssumption DEF LegacyStore, EmptyStore, Ids, ConstantsAssumption
    <3>2. LET old == [NewJob(c) EXCEPT !.state = "completed", !.sealed = TRUE]
          IN  old.state = "completed" /\ ~old.cancelRequested
      BY DEF NewJob
    <3>3. NoJob.state = "none" /\ ~NoJob.cancelRequested
      BY DEF NoJob, NewJob
    <3> QED
      BY <2>2, <3>1, <3>2, <3>3 DEF Ids
  <2> QED
    BY <2>1, <2>2 DEF Init
<1>3. \A k \in Ids : Phase(k) \in {"absent", "completed"}
  <2> SUFFICES ASSUME NEW k \in Ids PROVE Phase(k) \in {"absent", "completed"}
    OBVIOUS
  <2>1. disk.jobs[k].state = "none" => ~(k <= issued)
    BY <1>1, <1>2 DEF Ids
  <2> QED
    BY <1>2, <2>1 DEF Phase, PhaseOf
<1>4. CancelRecorded = {}
  BY <1>2 DEF CancelRecorded
<1>5. [j \in Ids |-> 1 + retried[j]] = [j \in Ids |-> 1]
  BY <1>1
<1> QED
  BY <1>1, <1>3, <1>4, <1>5 DEF Ledger!LedgerInit

(* The durable record of the queue, with its crashes, recoveries and failed  *)
(* saves, is a ledger: jobs move along their life cycle and ids never        *)
(* return; media is committed once for every job and once for every retry    *)
(* agreed to, and never with a cancellation on record; a cancellation is     *)
(* not forgotten, and no completion goes without a new revision.             *)
THEOREM QueueKeepsLedger == Spec => KeepsLedger
<1>1. Init => RunningHasWorker
  BY DEF Init, RunningHasWorker
<1> QED
  BY <1>1, InitType, TypeStep, CommitInvInit, CommitInvStep, InSyncInit, InSyncStep,
     WorkerStep, LedgerInvInit, LedgerInvStep, StopInvInit, StopInvStep, RevisionInit,
     RevisionStep, CompletionInvInit, CompletionInvStep, LedgerStart, LedgerStep, PTL
  DEF Spec, KeepsLedger, Ledger!LedgerSpec

-----------------------------------------------------------------------------
(* What clients are told. *)

(* Every step of the ledger takes the answer for a job where its clients     *)
(* expect it to go.                                                          *)
LEMMA LedgerAnswers ==
  ASSUME Ledger!Record \/ (\E jobs \in SUBSET Ids : Ledger!Consent(jobs)),
         NEW j \in Ids, Phase(j) \in Ledger!Phases, AnswerRecorded(j) # "none",
         AnswerRecorded(j)' # AnswerRecorded(j)
  PROVE  AnswerRecorded(j)' \in Client!Onward[AnswerRecorded(j)]
<1>1. Phase(j)' \in Ledger!LifeCycle[Phase(j)] \cup {Phase(j)}
  <2>1. CASE Ledger!Record
    BY <2>1 DEF Ledger!Record
  <2>2. ASSUME NEW jobs \in SUBSET Ids, Ledger!Consent(jobs)
        PROVE  Phase(j)' = Phase(j) \/ (Phase(j) = "failed" /\ Phase(j)' = "queued")
    <3>1. j \in jobs => Phase(j) = "failed"
      BY <2>2 DEF Ledger!Consent
    <3>2. Phase(j)' \in {Phase(j), IF j \in jobs THEN "queued" ELSE Phase(j)}
      BY <2>2, Zenon DEF Ledger!Consent
    <3> QED
      BY <3>1, <3>2
  <2> QED
    BY <2>1, <2>2 DEF Ledger!LifeCycle
<1> QED
  BY <1>1 DEF AnswerRecorded, AnswerFor, Ledger!LifeCycle, Ledger!Phases, Client!Onward,
              Client!Ended

LEMMA AnswerStep ==
  TypeOK /\ CommitInv /\ InSync /\ RunningHasWorker /\ LedgerInv /\ StopInv /\ RevisionInv
    /\ CompletionInv /\ [Next]_vars
    => \A j \in Ids :
         /\ AnswerRecorded(j) # "none"
         /\ AnswerRecorded(j)' # AnswerRecorded(j)
         => AnswerRecorded(j)' \in Client!Onward[AnswerRecorded(j)]
<1> SUFFICES ASSUME TypeOK, CommitInv, InSync, RunningHasWorker, LedgerInv, StopInv,
                    RevisionInv, CompletionInv, [Next]_vars,
                    NEW j \in Ids, AnswerRecorded(j) # "none",
                    AnswerRecorded(j)' # AnswerRecorded(j)
             PROVE  AnswerRecorded(j)' \in Client!Onward[AnswerRecorded(j)]
  OBVIOUS
<1>1. Phase(j) \in Ledger!Phases
  BY DEF TypeOK, Store, Job, States, Running, Finished, Phase, PhaseOf, Ledger!Phases
<1>2. Phase(j)' # Phase(j)
  BY DEF AnswerRecorded
<1>3. Ledger!Record \/ \E jobs \in SUBSET Ids : Ledger!Consent(jobs)
  BY <1>2, LedgerStep DEF Ledger!LedgerNext, Ledger!ledgerVars, Ledger!Commit
<1> QED
  BY <1>1, <1>3, LedgerAnswers

(* The queue keeps what BackupRequest assumes of its engine.                 *)
THEOREM QueueMovesJobsOnward == Spec => AnswersMoveOnward
<1>1. Init => RunningHasWorker
  BY DEF Init, RunningHasWorker
<1> QED
  BY <1>1, InitType, TypeStep, CommitInvInit, CommitInvStep, InSyncInit, InSyncStep,
     WorkerStep, LedgerInvInit, LedgerInvStep, StopInvInit, StopInvStep, RevisionInit,
     RevisionStep, CompletionInvInit, CompletionInvStep, AnswerStep, PTL
  DEF Spec, AnswersMoveOnward

(* What clients are told is on disk, so no crash takes it back.              *)
THEOREM AnswersKept == Spec => []AnswersAreRecorded
<1>1. InSync => AnswersAreRecorded
  BY DEF InSync, AnswersAreRecorded, AnswerHeld, AnswerRecorded, Phase
<1> QED
  BY <1>1, InSyncInit, InSyncStep, PTL DEF Spec

-----------------------------------------------------------------------------
(* Workers at once. *)

(* A set of job numbers has a last one. *)
LEMMA LastOf ==
  ASSUME NEW S \in SUBSET Ids, S # {}
  PROVE  \E m \in S : \A j \in S : j <= m
<1> DEFINE Distances == {MaxIds - j : j \in S}
<1>1. MaxIds \in Nat /\ Ids = 1..MaxIds
  BY ConstantsAssumption DEF ConstantsAssumption, Ids
<1>2. Distances \subseteq Nat /\ Distances # {}
  <2>1. \A j \in S : MaxIds - j \in Nat
    BY <1>1
  <2>2. Distances \subseteq Nat
    BY <2>1, Zenon
  <2>3. Distances # {}
    BY Zenon
  <2> QED
    BY <2>2, <2>3
<1>3. PICK x \in Distances : \A y \in Distances : ~ (<<y, x>> \in OpToRel(<, Nat))
  BY <1>2, NatLessThanWellFounded, WFMin
<1>4. \A y \in Distances : ~ (y < x)
  BY <1>2, <1>3 DEF OpToRel
<1>5. PICK m \in S : x = MaxIds - m
  BY <1>3
<1>6. ASSUME NEW j \in S PROVE j <= m
  <2>1. MaxIds - j \in Distances
    OBVIOUS
  <2>2. ~ (MaxIds - j < MaxIds - m)
    BY <1>4, <1>5, <2>1
  <2> QED
    BY <1>1, <2>2
<1> QED
  BY <1>6

(* A tick fills the free places and no more: those before the last job it    *)
(* chooses are eligible, and were counted when that one was.                 *)
LEMMA ChosenFits ==
  ASSUME TypeOK, Chosen # {}
  PROVE  /\ IsFiniteSet(active) /\ IsFiniteSet(Chosen)
         /\ Cardinality(active) + Cardinality(Chosen) <= mem.options.concurrent
<1>1. /\ IsFiniteSet(Ids) /\ active \in SUBSET Ids /\ Chosen \in SUBSET Ids
      /\ MaxIds \in Nat /\ Ids = 1..MaxIds /\ mem.options.concurrent \in Int
  <2>1. MaxIds \in Nat /\ Ids = 1..MaxIds
    BY ConstantsAssumption DEF ConstantsAssumption, Ids
  <2>2. IsFiniteSet(Ids)
    BY <2>1, FS_Interval
  <2>3. active \in SUBSET Ids /\ mem.options.concurrent \in Int
    BY DEF TypeOK, Store, Options
  <2>4. Chosen \in SUBSET Ids
    BY DEF Chosen
  <2> QED
    BY <2>1, <2>2, <2>3, <2>4
<1>2. /\ IsFiniteSet(active) /\ Cardinality(active) \in Nat
      /\ IsFiniteSet(Chosen) /\ Cardinality(Chosen) \in Nat
  BY <1>1, FS_Subset, FS_CardinalityType
<1>3. PICK m \in Chosen : \A j \in Chosen : j <= m
  BY <1>1, LastOf
<1> DEFINE Before == {k \in 1..(m - 1) : Eligible(k)}
<1>4. Cardinality(active) + Cardinality(Before) < mem.options.concurrent
  BY DEF Chosen
<1>5. IsFiniteSet(1..(m - 1)) /\ Before \in SUBSET (1..(m - 1))
  BY <1>1, FS_Interval
<1>6. IsFiniteSet(Before) /\ Cardinality(Before) \in Nat
  BY <1>5, FS_Subset, FS_CardinalityType
<1>7. Chosen \ {m} \in SUBSET Before
  <2> SUFFICES ASSUME NEW j \in Chosen, j # m PROVE j \in Before
    OBVIOUS
  <2>1. Eligible(j)
    BY DEF Chosen
  <2>2. j \in 1..(m - 1)
    BY <1>1, <1>3
  <2> QED
    BY <2>1, <2>2
<1> HIDE DEF Before
<1>8. Cardinality(Chosen \ {m}) <= Cardinality(Before)
  BY <1>6, <1>7, FS_Subset
<1>9. Cardinality(Chosen \ {m}) = Cardinality(Chosen) - 1
  BY <1>2, FS_RemoveElement
<1> QED
  BY <1>1, <1>2, <1>4, <1>6, <1>8, <1>9

LEMMA TickConcurrency ==
  ASSUME TypeOK, Tick
  PROVE  Cardinality(active') <= mem.options.concurrent
<1>1. PICK saved \in SUBSET Chosen : active' = active \cup saved
  BY TickEffect
<1>2. /\ IsFiniteSet(active) /\ IsFiniteSet(Chosen)
      /\ Cardinality(active) + Cardinality(Chosen) <= mem.options.concurrent
  BY ChosenFits DEF Tick
<1>3. /\ Cardinality(active) \in Nat /\ Cardinality(Chosen) \in Nat
      /\ IsFiniteSet(saved) /\ Cardinality(saved) \in Nat
      /\ Cardinality(saved) <= Cardinality(Chosen)
  BY <1>2, FS_Subset, FS_CardinalityType
<1>4. IsFiniteSet(active \cap saved) /\ Cardinality(active \cap saved) \in Nat
  BY <1>2, FS_Subset, FS_CardinalityType
<1>5. Cardinality(active \cup saved)
        = Cardinality(active) + Cardinality(saved) - Cardinality(active \cap saved)
  BY <1>2, <1>3, FS_Union
<1>6. mem.options.concurrent \in Int
  BY DEF TypeOK, Store, Options
<1> QED
  BY <1>1, <1>2, <1>3, <1>4, <1>5, <1>6

LEMMA OnlyTickStarts ==
  ASSUME [Next]_vars
  PROVE  Tick \/ active' \subseteq active
<1> USE DEF environment
<1>1. ASSUME NEW c \in Contents, Begin(c) PROVE active' = active
  BY <1>1 DEF Begin
<1>2. ASSUME NEW j \in Ids, Append(j) \/ Seal(j) \/ Cancel(j) \/ Retry(j) PROVE active' = active
  BY <1>2 DEF Append, Seal, Cancel, CancelRunning, CancelIdle, Retry, RetryJobs
<1>3. ASSUME RetryFailed \/ ClearCompleted \/ Summary \/ AuthorizationChanges \/ Close
      PROVE  active' = active
  BY <1>3 DEF RetryFailed, RetryJobs, ClearCompleted, Summary, AuthorizationChanges, Close
<1>4. ASSUME NEW options \in OptionSets, Configure(options) PROVE active' = active
  BY <1>4 DEF Configure
<1>5. ASSUME NEW new \in Networks, Conditions(new) PROVE active' = active
  BY <1>5 DEF Conditions
<1>6. ASSUME NEW j \in Ids, NEW phase \in Running, Progress(j, phase) PROVE active' = active
  BY <1>6 DEF Progress
<1>7. ASSUME NEW j \in Ids, SendCommit(j) \/ BackoffExpires(j) PROVE active' = active
  BY <1>7 DEF SendCommit, BackoffExpires
<1>8. ASSUME NEW j \in Ids, NEW outcome \in Outcomes, Finish(j, outcome)
      PROVE  active' \subseteq active
  BY <1>8 DEF Finish
<1>9. ASSUME Crash \/ Open PROVE active' \subseteq active
  <2>1. active' = {} \/ active' = active
    BY <1>9, Zenon DEF Crash, Open, ForgetWork
  <2> QED
    BY <2>1
<1>10. ASSUME UNCHANGED vars PROVE active' = active
  BY <1>10 DEF vars
<1> QED
  BY <1>1, <1>2, <1>3, <1>4, <1>5, <1>6, <1>7, <1>8, <1>9, <1>10 DEF Next

(* No step that starts a worker leaves more of them than the options allow,  *)
(* whichever of the tick's saves fails and however many workers are left     *)
(* from before the limit was lowered.                                        *)
THEOREM ConcurrencyIsRespected == Spec => ConcurrencyRespected
<1>1. TypeOK /\ [Next]_vars
        => [active' \ active # {} => Cardinality(active') <= mem.options.concurrent]_vars
  BY TickConcurrency, OnlyTickStarts
<1> QED
  BY <1>1, InitType, TypeStep, PTL DEF Spec, ConcurrencyRespected

-----------------------------------------------------------------------------
(* Places in the queue. *)

(* The list never outgrows its capacity, in memory or on disk, and no more   *)
(* workers run than the highest limit that can be configured, however often  *)
(* the limit is lowered while they run (begin, Tick, Options.valid).       *)
WithinLimits ==
    /\ Cardinality(Listed(mem)) <= MaxJobs /\ Cardinality(Listed(disk)) <= MaxJobs
    /\ Cardinality(active) <= 4

LEMMA JobSets ==
  ASSUME NEW S \in SUBSET Ids, NEW T \in SUBSET Ids
  PROVE  /\ IsFiniteSet(S) /\ Cardinality(S) \in Nat
         /\ S \subseteq T => Cardinality(S) <= Cardinality(T)
         /\ \A j \in Ids : S \subseteq T \cup {j} => Cardinality(S) <= Cardinality(T) + 1
<1>1. IsFiniteSet(Ids)
  BY ConstantsAssumption, FS_Interval DEF ConstantsAssumption, Ids
<1>2. /\ IsFiniteSet(S) /\ Cardinality(S) \in Nat
      /\ IsFiniteSet(T) /\ Cardinality(T) \in Nat
  BY <1>1, FS_Subset, FS_CardinalityType
<1>3. S \subseteq T => Cardinality(S) <= Cardinality(T)
  BY <1>2, FS_Subset
<1>4. ASSUME NEW j \in Ids, S \subseteq T \cup {j} PROVE Cardinality(S) <= Cardinality(T) + 1
  <2>1. /\ IsFiniteSet(T \cup {j})
        /\ Cardinality(T \cup {j}) = Cardinality(T) \/ Cardinality(T \cup {j}) = Cardinality(T) + 1
    BY <1>2, FS_AddElement
  <2>2. Cardinality(S) <= Cardinality(T \cup {j})
    BY <1>4, <2>1, FS_Subset
  <2> QED
    BY <1>2, <2>1, <2>2
<1> QED
  BY <1>2, <1>3, <1>4

(* Only an import that is begun makes the list longer. *)
LEMMA ListStep ==
  ASSUME TypeOK, CommitInv, CommitInv', [Next]_vars
  PROVE  /\ \/ Listed(mem') \subseteq Listed(mem)
            \/ Listed(mem') \subseteq Listed(disk)
            \/ HasRoom /\ \E i \in Ids : Listed(mem') \subseteq Listed(mem) \cup {i}
         /\ \/ Listed(disk') \subseteq Listed(disk)
            \/ Listed(disk') \subseteq Listed(mem')
<1>1. CASE Crash
  BY <1>1 DEF Crash
<1>2. CASE Open
  <2>1. mem' = disk'
    BY <1>2, OpenJobs
  <2>2. \/ disk' = disk
        \/ \A k \in Ids : disk'.jobs[k] = Recovered(disk.jobs[k])
    BY <1>2, OpenJobs
  <2>3. \A k \in Ids : disk.jobs[k].state = "none" => Recovered(disk.jobs[k]).state = "none"
    BY <1>2, OpenJobs, RecoveredFields
  <2>4. Listed(disk') \subseteq Listed(disk)
    BY <2>2, <2>3 DEF Listed
  <2> QED
    BY <2>1, <2>4
<1>3. ASSUME NEW c \in Contents, Begin(c) PROVE
        /\ HasRoom /\ \E i \in Ids : Listed(mem') \subseteq Listed(mem) \cup {i}
        /\ Listed(disk') \subseteq Listed(disk) \/ Listed(disk') \subseteq Listed(mem')
  <2> DEFINE i == issued + 1
  <2>1. i \in Ids
    BY <1>3, ConstantsAssumption DEF Begin, Ids, TypeOK, ConstantsAssumption
  <2>2. mem' = SetJob(i, NewJob(c)) /\ disk' \in {disk, mem'} /\ HasRoom
    BY <1>3, SaveStep DEF Begin
  <2>3. \A k \in Ids : mem'.jobs[k] = IF k = i THEN NewJob(c) ELSE mem.jobs[k]
    BY <2>1, <2>2, NewJobType, SetJobAt DEF TypeOK
  <2> HIDE DEF i
  <2>4. Listed(mem') \subseteq Listed(mem) \cup {i}
    BY <2>3 DEF Listed
  <2> QED
    BY <2>1, <2>2, <2>4
<1>4. CASE ~Crash /\ ~Open /\ ~\E c \in Contents : Begin(c)
  <2>1. Moves
    BY <1>4, MovesStep
  <2>2. issued' = issued /\ issued \in Nat
    <3>1. issued \in Nat
      BY DEF TypeOK
    <3>2. issued' = issued
      BY <1>4, Zenon DEF Next, Append, Seal, Cancel, Retry, RetryFailed, RetryJobs,
           ClearCompleted, Summary, Configure, Conditions, Tick, Progress, SendCommit,
           BackoffExpires, Finish, AuthorizationChanges, Close, vars
    <3> QED
      BY <3>1, <3>2
  <2>3. ASSUME NEW k \in Ids, mem.jobs[k].state = "none" PROVE mem'.jobs[k].state = "none"
    <3>1. Move(k)
      BY <2>1 DEF Moves
    <3>2. ~Created(k)
      <4>1. k = issued + 1 => k > issued'
        BY <2>2
      <4> QED
        BY <4>1 DEF Created, CommitInv, FreshIds
    <3>3. ~Ended(k) /\ ~Phased(k)
      BY <2>3 DEF Ended, Phased, CommitInv, WorkersRun, Running
    <3> QED
      BY <2>3, <3>1, <3>2, <3>3 DEF Move, Stays, Alike, Dropped, Queued, Renewed, Cleared, Begun
  <2>4. Listed(mem') \subseteq Listed(mem)
    BY <2>3 DEF Listed
  <2>5. CASE DiskStays
    BY <2>4, <2>5 DEF DiskStays, SameButDelay, Alike, Listed
  <2>6. CASE DiskFollows
    <3>1. \A k \in Ids : disk'.jobs[k].state # "none" => mem'.jobs[k].state # "none"
      BY <2>6 DEF DiskFollows, Begun
    <3> QED
      BY <2>4, <3>1 DEF Listed
  <2> QED
    BY <2>1, <2>5, <2>6 DEF Moves
<1> QED
  BY <1>1, <1>2, <1>3, <1>4

LEMMA LimitsStep ==
  ASSUME TypeOK, TypeOK', CommitInv, CommitInv', WithinLimits, [Next]_vars
  PROVE  WithinLimits'
<1>1. /\ Listed(mem) \in SUBSET Ids /\ Listed(mem') \in SUBSET Ids
      /\ Listed(disk) \in SUBSET Ids /\ Listed(disk') \in SUBSET Ids
      /\ active \in SUBSET Ids /\ active' \in SUBSET Ids /\ MaxJobs \in Nat
  BY ConstantsAssumption DEF Listed, TypeOK, ConstantsAssumption
<1>2. Cardinality(Listed(mem')) <= MaxJobs
  <2>1. CASE Listed(mem') \subseteq Listed(mem) \/ Listed(mem') \subseteq Listed(disk)
    BY <1>1, <2>1, JobSets DEF WithinLimits
  <2>2. ASSUME HasRoom, NEW i \in Ids, Listed(mem') \subseteq Listed(mem) \cup {i}
        PROVE  Cardinality(Listed(mem')) <= MaxJobs
    <3>1. Cardinality(Listed(mem')) <= Cardinality(Listed(mem)) + 1
      BY <1>1, <2>2, JobSets
    <3>2. Cardinality(Listed(mem)) < MaxJobs
      BY <2>2 DEF HasRoom
    <3> QED
      BY <1>1, <3>1, <3>2, JobSets
  <2> QED
    BY <2>1, <2>2, ListStep
<1>3. Cardinality(Listed(disk')) <= MaxJobs
  BY <1>1, <1>2, ListStep, JobSets DEF WithinLimits
<1>4. Cardinality(active') <= 4
  <2>1. CASE Tick
    <3>1. Cardinality(active') <= mem.options.concurrent
      BY <2>1, TickConcurrency
    <3>2. mem.options.concurrent \in 1..4
      BY DEF TypeOK, Store, Options
    <3> QED
      BY <1>1, <3>1, <3>2, JobSets
  <2>2. CASE active' \subseteq active
    BY <1>1, <2>2, JobSets DEF WithinLimits
  <2> QED
    BY <2>1, <2>2, OnlyTickStarts
<1> QED
  BY <1>2, <1>3, <1>4 DEF WithinLimits, Listed

LEMMA LimitsInit == Init => WithinLimits
<1> SUFFICES ASSUME Init PROVE WithinLimits
  OBVIOUS
<1>1. MaxJobs \in Nat \ {0} /\ MaxIds \in Nat \ {0}
  BY ConstantsAssumption DEF ConstantsAssumption
<1>2. \A k \in Ids : k # 1 => disk.jobs[k].state = "none"
  <2>1. NoJob.state = "none"
    BY DEF NoJob
  <2> QED
    BY <2>1, EmptyStores, Zenon
<1>3. Listed(disk) \subseteq {1} /\ mem = disk /\ active = {}
  BY <1>2 DEF Listed, Init
<1>4. IsFiniteSet({1}) /\ Cardinality({1}) = 1 /\ Cardinality({}) = 0
  BY FS_Singleton, FS_EmptySet
<1>5. Cardinality(Listed(disk)) <= 1 /\ Cardinality(Listed(disk)) \in Nat
  BY <1>3, <1>4, FS_Subset, FS_CardinalityType
<1> QED
  BY <1>1, <1>3, <1>4, <1>5 DEF WithinLimits

(* No import, failed save or restart makes the list longer than begin and    *)
(* Open allow, and no change of the options lets a fifth worker start.       *)
THEOREM QueueIsBounded == Spec => []WithinLimits
<1> QED
  BY InitType, TypeStep, CommitInvInit, CommitInvStep, LimitsInit, LimitsStep, PTL DEF Spec

-----------------------------------------------------------------------------
(* Nothing is stuck. *)

(* A job the tick passes over has to wait for a place: all are taken, by     *)
(* workers or by jobs before it in the queue.                                *)
LEMMA ChosenAreFirst ==
  ASSUME TypeOK, NEW j \in Ids, Eligible(j), j \notin Chosen
  PROVE  /\ Cardinality(active) + Cardinality(Chosen) >= mem.options.concurrent
         /\ \A k \in Chosen : k < j
<1> DEFINE Before(i) == {k \in 1..(i - 1) : Eligible(k)}
           Passed == {i \in Ids : Eligible(i) /\ i \notin Chosen}
           full(i) == Cardinality(active) + Cardinality(Before(i)) >= mem.options.concurrent
<1>1. /\ MaxIds \in Nat /\ Ids = 1..MaxIds /\ mem.options.concurrent \in Int
      /\ active \in SUBSET Ids /\ Chosen \in SUBSET Ids
  <2>1. MaxIds \in Nat /\ Ids = 1..MaxIds
    BY ConstantsAssumption DEF ConstantsAssumption, Ids
  <2>2. mem.options.concurrent \in 1..4
    BY DEF TypeOK, Store, Options
  <2>3. active \in SUBSET Ids
    BY DEF TypeOK
  <2>4. Chosen \in SUBSET Ids
    BY DEF Chosen
  <2> QED
    BY <2>1, <2>2, <2>3, <2>4
<1>2. \A i \in Ids : Before(i) \in SUBSET Ids
  BY <1>1
<1>3. Cardinality(active) \in Nat /\ Cardinality(Chosen) \in Nat
      /\ \A i \in Ids : Cardinality(Before(i)) \in Nat
  BY <1>1, <1>2, JobSets
<1>4. \A i \in Ids : Eligible(i) => (i \notin Chosen <=> full(i))
  <2>1. \A i \in Ids : i \in Chosen <=>
            Eligible(i) /\ Cardinality(active) + Cardinality(Before(i)) < mem.options.concurrent
    BY DEF Chosen
  <2>2. ASSUME NEW i \in Ids, Eligible(i) PROVE i \notin Chosen <=> full(i)
    <3>1. /\ Cardinality(active) \in Nat /\ Cardinality(Before(i)) \in Nat
          /\ i \in Chosen <=>
               Cardinality(active) + Cardinality(Before(i)) < mem.options.concurrent
      BY <1>3, <2>1, <2>2
    <3> HIDE DEF Before
    <3> QED
      BY <1>1, <3>1
  <2> QED
    BY <2>2
<1>5. ASSUME NEW k \in Chosen PROVE k < j
  <2>1. SUFFICES ASSUME j <= k PROVE FALSE
    BY <1>1
  <2>2. k \in Ids /\ Eligible(k)
    BY DEF Chosen
  <2>3. Before(j) \subseteq Before(k)
    BY <1>1, <2>1, <2>2
  <2>4. Cardinality(Before(j)) <= Cardinality(Before(k))
    BY <1>2, <2>2, <2>3, JobSets
  <2>5. full(j) /\ ~full(k)
    BY <1>4, <2>2
  <2>6. /\ Cardinality(Before(j)) \in Nat /\ Cardinality(Before(k)) \in Nat
        /\ Cardinality(active) \in Nat /\ mem.options.concurrent \in Int
    BY <1>1, <1>3, <2>2
  <2> HIDE DEF Before
  <2> QED
    BY <2>4, <2>5, <2>6
<1>6. PICK i \in Passed : \A k \in Passed : ~(k < i)
  <2>1. Passed \subseteq Nat /\ Passed # {}
    BY <1>1
  <2> HIDE DEF Passed
  <2>2. \E x \in Passed : \A y \in Passed : ~ (<<y, x>> \in OpToRel(<, Nat))
    BY <2>1, NatLessThanWellFounded, WFMin
  <2> QED
    BY <2>1, <2>2 DEF OpToRel
<1>7. Before(i) \subseteq Chosen
  BY <1>1, <1>6
<1>8. Cardinality(Before(i)) <= Cardinality(Chosen)
  BY <1>1, <1>2, <1>7, JobSets
<1>9. full(i) /\ Cardinality(Before(i)) \in Nat
  BY <1>3, <1>4
<1> HIDE DEF Before
<1> QED
  BY <1>1, <1>3, <1>5, <1>8, <1>9

(* While uploads are allowed, every job that is still to be uploaded is      *)
(* attended to: it has a worker, waits for its backoff to end or its account *)
(* to be authorized, is started by the next tick, or has to let jobs before  *)
(* it in the queue, and those that run, have all the places (Tick).          *)
NothingStuck ==
    Serving /\ ~stopped /\ Permitted(mem.options, net) =>
        \A j \in Ids : mem.jobs[j].state \in {"pending"} \cup Running =>
            \/ j \in active
            \/ mem.jobs[j].delayed \/ mem.jobs[j].content.account \in waiting
            \/ j \in Chosen
            \/ /\ Cardinality(active) + Cardinality(Chosen) >= mem.options.concurrent
               /\ \A k \in Chosen : k < j

(* Nobody has to be waited for but time, the relay and jobs that go first.   *)
THEOREM QueueIsAttended == Spec => []NothingStuck
<1>1. TypeOK /\ RunningHasWorker => NothingStuck
  <2> SUFFICES ASSUME TypeOK, RunningHasWorker, Serving, NEW j \in Ids,
                      mem.jobs[j].state \in {"pending"} \cup Running,
                      j \notin active, ~mem.jobs[j].delayed,
                      mem.jobs[j].content.account \notin waiting, j \notin Chosen
               PROVE  /\ Cardinality(active) + Cardinality(Chosen) >= mem.options.concurrent
                      /\ \A k \in Chosen : k < j
    BY Zenon DEF NothingStuck
  <2>1. mem.jobs[j].state \notin Running
    BY DEF RunningHasWorker, Serving
  <2>2. Eligible(j)
    BY <2>1 DEF Eligible
  <2> QED
    BY <2>2, ChosenAreFirst
<1>2. Init => RunningHasWorker
  BY DEF Init, RunningHasWorker
<1> QED
  BY <1>1, <1>2, InitType, TypeStep, CommitInvInit, CommitInvStep, WorkerStep, PTL DEF Spec

(* A cancellation on record is never pending with nobody to carry it out:    *)
(* unless a save has failed the job has a worker, and the worker has been    *)
(* told, even after restarts, retries and changes of the network (cancel,    *)
(* cancel, Tick, Open).                                                      *)
CancelIsHeeded ==
    /\ Serving => CancelRecorded \subseteq active
    /\ CancelRecorded \cap active \subseteq cancelled

(* Whoever has been told that a job is being cancelled has not been told so  *)
(* in vain: its worker is on its way to the end.                             *)
THEOREM CancellationIsHeeded == Spec => []CancelIsHeeded
<1>1. TypeOK /\ CommitInv /\ InSync /\ RunningHasWorker /\ StopInv => CancelIsHeeded
  <2> SUFFICES ASSUME CommitInv, InSync, RunningHasWorker, StopInv
               PROVE  CancelIsHeeded
    OBVIOUS
  <2>1. ASSUME Serving, NEW j \in CancelRecorded PROVE j \in active
    BY <2>1 DEF Serving, InSync, RunningHasWorker, CancelRecorded
  <2>2. ASSUME NEW j \in CancelRecorded, j \in active PROVE j \in cancelled
    <3>1. j \in Ids /\ mem.jobs[j].state \in Running
      BY <2>2 DEF CancelRecorded, CommitInv, WorkersRun
    <3> QED
      BY <2>2, <3>1 DEF StopInv, Over, Running
  <2> QED
    BY <2>1, <2>2 DEF CancelIsHeeded
<1>2. Init => RunningHasWorker
  BY DEF Init, RunningHasWorker
<1> QED
  BY <1>1, <1>2, InitType, TypeStep, CommitInvInit, CommitInvStep, InSyncInit, InSyncStep,
     WorkerStep, StopInvInit, StopInvStep, PTL DEF Spec
=============================================================================
