------------------------------ MODULE JobLedger ------------------------------
(***************************************************************************)
(* What the upload queue promises about the durable record of its jobs and *)
(* about what it commits to Google, whatever crashes and storage errors    *)
(* come between: a recorded job only moves along its life cycle and its id *)
(* is never used again; media is committed only while the record says so   *)
(* and no cancellation is on record, once for the job itself and once for  *)
(* every retry the user asked for after a failure; a recorded cancellation *)
(* is forgotten only once the job has come to an end; and no completion is *)
(* recorded without a new completion revision.                             *)
(***************************************************************************)
EXTENDS Naturals

CONSTANT Jobs

VARIABLES
    phase,      \* what the durable record says of each job
    withdrawn,  \* jobs recorded as running and to be cancelled
    revision,   \* the recorded completion revision
    commits,    \* commit requests sent for each job
    allowance   \* commits the user has agreed to for each job

ledgerVars == <<phase, withdrawn, revision, commits, allowance>>

Phases == {"absent", "importing", "queued", "committing", "completed",
           "failed", "cancelled", "cleared"}

(* A job in doubt is never queued again by itself: from "committing" it can *)
(* only complete or fail, and a failed job is queued only with consent.  An *)
(* absent job may be lost before it is recorded: its id is used up then.    *)
LifeCycle ==
    [absent     |-> {"importing", "cleared"},
     importing  |-> {"queued", "cancelled"},
     queued     |-> {"committing", "completed", "failed", "cancelled"},
     committing |-> {"completed", "failed"},
     completed  |-> {"cleared"},
     failed     |-> {"queued", "cancelled"},
     cancelled  |-> {"cleared"},
     cleared    |-> {}]

LedgerInit ==
    /\ phase \in [Jobs -> {"absent", "completed"}]
    /\ withdrawn = {}
    /\ revision = 0
    /\ commits = [j \in Jobs |-> 0]
    /\ allowance = [j \in Jobs |-> 1]

(* One save may bring the record of several jobs up to date. *)
Record ==
    /\ phase' \in [Jobs -> Phases]
    /\ \A j \in Jobs : phase'[j] \in LifeCycle[phase[j]] \cup {phase[j]}
    /\ withdrawn' \subseteq {j \in Jobs : phase'[j] \in {"queued", "committing"}}
    /\ \A j \in withdrawn \ withdrawn' : phase'[j] \in {"completed", "failed", "cancelled"}
    /\ revision' >= revision
    /\ \A j \in Jobs : phase'[j] = "completed" /\ phase[j] # "completed" => revision' > revision
    /\ UNCHANGED <<commits, allowance>>

(* The user asks for failed jobs to be tried again. *)
Consent(jobs) ==
    /\ \A j \in jobs : phase[j] = "failed"
    /\ allowance' = [j \in Jobs |-> IF j \in jobs THEN allowance[j] + 1
                                                  ELSE allowance[j]]
    /\ phase' \in {phase, [j \in Jobs |-> IF j \in jobs THEN "queued" ELSE phase[j]]}
    /\ UNCHANGED <<withdrawn, revision, commits>>

Commit(j) ==
    /\ phase[j] = "committing"
    /\ j \notin withdrawn
    /\ commits[j] < allowance[j]
    /\ commits' = [commits EXCEPT ![j] = @ + 1]
    /\ UNCHANGED <<phase, withdrawn, revision, allowance>>

LedgerNext ==
    \/ Record
    \/ \E jobs \in SUBSET Jobs : Consent(jobs)
    \/ \E j \in Jobs : Commit(j)

LedgerSpec == LedgerInit /\ [][LedgerNext]_ledgerVars
=============================================================================
