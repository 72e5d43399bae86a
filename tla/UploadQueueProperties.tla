----------------------- MODULE UploadQueueProperties -----------------------
(***************************************************************************)
(* What the upload queue must never do, and what it must eventually do.    *)
(***************************************************************************)
EXTENDS UploadQueue

(* Every variable has its type. *)
TypeOK ==
    /\ up \in BOOLEAN /\ fault \in BOOLEAN /\ stopped \in BOOLEAN
    /\ mem \in Store /\ disk \in Store
    /\ staging \in [Ids -> {"none", "partial", "complete"}]
    /\ hashes \subseteq Ids
    /\ active \subseteq Ids /\ cancelled \subseteq active
    /\ net \in [online : BOOLEAN, wifi : BOOLEAN]
    /\ waiting \subseteq NativeAccounts
    /\ issued \in 0..MaxIds
    /\ sent \subseteq active /\ inDoubt \subseteq Ids
    /\ commits \in [Ids -> Nat] /\ retried \in [Ids -> Nat]
    /\ charged \in [Ids -> Nat]
    /\ seen \in Nat /\ crashes \in Nat

(* While no save has failed, memory holds nothing that a restart would lose: *)
(* every change a handler, tick or worker makes is on disk before the mutex  *)
(* is released (the saves of queue.go and protocol.go).                      *)
DurableUnlessFault == up /\ ~fault => disk = mem

(* Once the commit request of an attempt is out, state.json says so: the     *)
(* phase is saved before the request, and nothing running on after a failed  *)
(* save takes it back (execute's progress callback, contextTransport).       *)
CommitIsDurable == \A j \in sent : disk.jobs[j].state = "committing"

(* No job is committed to Google twice unless the user asked for the retry   *)
(* in between: neither restarts, nor failed saves, nor the scheduler's own   *)
(* retries repeat a commit (Open's recovery and execute's switch).           *)
NoSilentDuplicate == \A j \in Ids : commits[j] <= 1 + retried[j]

(* A commit whose outcome was never learnt stays visible: its job is still   *)
(* committing, is failed as "commit_outcome_unknown", or was cancelled or    *)
(* cleared by the user; it is never queued again by itself.                  *)
InDoubtIsReported ==
    \A j \in inDoubt :
        \/ disk.jobs[j].state \in {"committing", "cancelled", "none"}
        \/ disk.jobs[j].state = "failed" /\ disk.jobs[j].error = Unknown

(* A worker exists exactly for the jobs in a running state; only a tick whose *)
(* save failed leaves a running job without one (active, guarded by mu).      *)
WorkersMatchStates ==
    /\ \A j \in active : mem.jobs[j].state \in Running
    /\ up /\ ~fault => \A j \in Ids : mem.jobs[j].state \in Running => j \in active

(* An upload that has not been told to stop runs only while the options and  *)
(* the conditions last reported allow uploads (conditions and configure).    *)
RunsOnlyWhilePermitted ==
    active # cancelled => stopped \/ Permitted(mem.options, net)

(* The files of a job outlive every state from which it may still upload, in *)
(* memory and in whatever a restart would recover from disk: files go only   *)
(* after the save that finishes their job (execute, cancel, seal, Open).  An *)
(* open import has its running hashes, which no restart brings back and      *)
(* without which the next chunk would dereference nil (importHashes).        *)
FilesKept ==
    \A j \in Ids :
        /\ up /\ ~fault /\ mem.jobs[j].state = "importing" => j \in hashes
        /\ up /\ mem.jobs[j].state \in {"pending", "failed"} \cup Running
             => staging[j] = "complete"
        /\ Recovered(disk.jobs[j]).state \in {"pending", "failed"}
             => staging[j] = "complete"

(* No two jobs that are not cancelled upload the same content for the same   *)
(* account at the same quality, except over an older build's unverified      *)
(* original (seal's fingerprint comparison).                                 *)
NoDuplicateContent ==
    \A j, k \in Listed(mem) :
        /\ j < k
        /\ mem.jobs[j].sealed /\ mem.jobs[k].sealed
        /\ mem.jobs[j].content = mem.jobs[k].content
        /\ mem.jobs[j].state # "cancelled" /\ mem.jobs[k].state # "cancelled"
        => /\ mem.jobs[j].content.quality = "original"
           /\ mem.jobs[j].state = "completed" /\ mem.jobs[j].originalPolicy = 0

(* Only failures and restarts use up the retry budget: pausing, losing the   *)
(* network or waiting for authorization gives the attempt back (execute).    *)
BudgetChargesFailures ==
    up /\ ~fault => \A j \in Ids :
        /\ mem.jobs[j].state = "pending" => mem.jobs[j].attempts = charged[j]
        /\ mem.jobs[j].state \in Running => mem.jobs[j].attempts = charged[j] + 1

(* A completion revision told to a client is never taken back, so a client   *)
(* that compares revisions cannot miss a completion: what is told is durable *)
(* although it is read from memory (uploadSummary behind HandleJSON's fault  *)
(* check).                                                                   *)
SeenIsDurable == seen <= disk.revision

(* A tick never has more workers running than the options allow; lowering    *)
(* the limit does not stop workers, so this is about the step (Tick).        *)
ConcurrencyRespected ==
    [][active' \ active # {} => Cardinality(active') <= mem.options.concurrent]_vars

(* What the tests and the device checklist say of a duplicate: seal drops it *)
(* in favour of a job that is queued (or on its way) or completed.           *)
DroppedForLiveJob ==
    [][\A j \in Ids :
        /\ up /\ mem.jobs[j].state = "importing"
        /\ mem'.jobs[j].state = "cancelled" /\ ~mem'.jobs[j].cancelRequested
        => /\ mem.jobs[DuplicateOf(j)].state \in {"pending", "completed"} \cup Running
           /\ ~mem.jobs[DuplicateOf(j)].cancelRequested]_vars

(* The durable record keeps the promises of JobLedger.  An id that is in no  *)
(* list is absent until it is drawn, and cleared for ever after that unless  *)
(* memory still holds the job for a later save to record.                    *)
PhaseOf(state) ==
    IF state \in {"pending", "preparing", "uploading"} THEN "queued" ELSE state

Phase(j) ==
    IF disk.jobs[j].state # "none" THEN PhaseOf(disk.jobs[j].state)
    ELSE IF j <= issued /\ mem.jobs[j].state = "none" THEN "cleared"
    ELSE "absent"

(* Jobs that state.json shows running and asked to stop. *)
CancelRecorded ==
    {j \in Ids : disk.jobs[j].cancelRequested /\ disk.jobs[j].state \in Running}

Ledger == INSTANCE JobLedger WITH
    Jobs <- Ids,
    phase <- [j \in Ids |-> Phase(j)],
    withdrawn <- CancelRecorded,
    revision <- disk.revision,
    allowance <- [j \in Ids |-> 1 + retried[j]]

(* Every behaviour of the queue, with its crashes and failed saves, is one   *)
(* the ledger allows.                                                        *)
KeepsLedger == Ledger!LedgerSpec

(* What a client that knows its id is told of a job, by its phase on disk or *)
(* in memory.  An id is made known once its import is sealed.                *)
AnswerFor(phase) ==
    CASE phase \in {"absent", "importing"} -> "none"
      [] phase \in {"queued", "committing"} -> "live"
      [] OTHER -> phase

AnswerRecorded(j) == AnswerFor(Phase(j))

AnswerHeld(j) ==
    AnswerFor(IF mem.jobs[j].state # "none" THEN PhaseOf(mem.jobs[j].state)
              ELSE IF j <= issued THEN "cleared" ELSE "absent")

Client == INSTANCE JobStates

(* Whatever the queue does, crashes and failed saves included, a job moves   *)
(* only as the clients that poll it count on (JobStates, which BackupRequest *)
(* takes for its engine).                                                    *)
AnswersMoveOnward ==
    [][\A j \in Ids :
        /\ AnswerRecorded(j) # "none"
        /\ AnswerRecorded(j)' # AnswerRecorded(j)
        => AnswerRecorded(j)' \in Client!Onward[AnswerRecorded(j)]]_vars

(* The op job is answered from memory, and only while no save has failed:    *)
(* its answer is what is on disk (HandleJSON's fault check).                 *)
AnswersAreRecorded == up /\ ~fault => \A j \in Ids : AnswerHeld(j) = AnswerRecorded(j)

Settled == {"completed", "failed", "cancelled", "none"}

Healthy(j) ==
    /\ up /\ ~fault /\ ~stopped
    /\ Permitted(mem.options, net)
    /\ mem.jobs[j].content.account \notin waiting

(* Once storage, network, options and authorization stay good, every queued  *)
(* job is settled: backoffs end, retries run out, no job starves another.    *)
QueueDrains ==
    \A j \in Ids :
        <>[]Healthy(j) => (mem.jobs[j].state = "pending" ~> mem.jobs[j].state \in Settled)

(* A cancellation that was recorded while the job was running settles the    *)
(* job, whatever the network does and whether or not the process dies first. *)
CancelSettles ==
    \A j \in Ids :
        disk.jobs[j].cancelRequested /\ disk.jobs[j].state \in Running
          ~> mem.jobs[j].state \in Settled

-----------------------------------------------------------------------------
(* What makes CommitIsDurable and NoSilentDuplicate inductive. *)

(* States from which a job may still come to send a commit request. *)
Unsent == {"importing", "pending", "preparing", "uploading"}

DownIsIdle == ~up => active = {}

WorkersRun == \A j \in active : mem.jobs[j].state \in Running

(* A worker that may still send its commit request has its phase on disk:    *)
(* if saving "committing" failed, its context is cancelled.                  *)
CommittingSaved ==
    \A j \in active \ cancelled :
        mem.jobs[j].state = "committing" => disk.jobs[j].state = "committing"

SentCommitting ==
    \A j \in sent : /\ mem.jobs[j].state = "committing"
                    /\ disk.jobs[j].state = "committing"

(* Ids not drawn yet have left no trace. *)
FreshIds ==
    \A j \in Ids : j > issued => /\ mem.jobs[j].state = "none"
                                 /\ disk.jobs[j].state = "none"
                                 /\ commits[j] = 0

(* A job that may still commit, now or after a restart, has a commit left.   *)
CommitBudget ==
    \A j \in Ids :
        /\ commits[j] <= 1 + retried[j]
        /\ \/ mem.jobs[j].state \in Unsent
           \/ disk.jobs[j].state \in Unsent
           \/ j \in active \ sent /\ mem.jobs[j].state = "committing"
           => commits[j] <= retried[j]

CommitInv ==
    /\ DownIsIdle
    /\ WorkersRun
    /\ CommittingSaved
    /\ SentCommitting
    /\ FreshIds
    /\ CommitBudget
=============================================================================
