---------------------- MODULE BackupRequestProperties ----------------------
(***************************************************************************)
(* What holds between a native backup request, its transfer and its job.   *)
(***************************************************************************)
EXTENDS BackupRequest

Steps == {"none", "binding", "asking", "waiting", "checking", "authorizing",
          "exporting", "reauthorizing", "importing", "publishing", "heeding",
          "polling", "settling", "registering", "resuming", "ended"}

(* Every variable has its type. *)
BackupTypeOK ==
    /\ host \in HostRecords
    /\ intercepted \subseteq {r \in Requests : Asset[r] # NoAsset}
    /\ cancelled \subseteq intercepted /\ cancelGo \subseteq intercepted
    /\ reconciling \subseteq intercepted /\ finished \subseteq intercepted
    /\ published \subseteq intercepted /\ completed \subseteq intercepted
    /\ account \in [Requests -> Accounts \cup {NoAccount}]
    /\ registered \in [Assets -> Nat]
    /\ worker \in [Requests -> Steps]
    /\ job \in [Requests -> Requests \cup {NoJob}]
    /\ canceller \in [Requests -> {"none", "locking", "telling"}]
    /\ native \in [Requests -> {"new", "held", "looking", "ended"}]
    /\ jobState \in [Requests -> AnswerStates]
    /\ jobAccount \in [Requests -> Accounts \cup {NoAccount}]
    /\ cancels \in [Requests -> Nat]
    /\ asked \subseteq intercepted /\ told \subseteq intercepted
    /\ succeeded \subseteq Requests /\ sent \subseteq Requests
    /\ delivered \subseteq Requests

(* The requests whose registration nobody has released yet. *)
Holding == reconciling \ (finished \cup cancelled)

(* Each overlapping request owns one registration of its asset, from the     *)
(* start of its reconciliation until it finishes or is cancelled, whichever  *)
(* comes first and however often (GSFinish, cancel, the block that settles). *)
RegistrationsMatch ==
    \A a \in Assets : registered[a] = Cardinality({r \in Holding : Asset[r] = a})

(* While any request is being reconciled no native payload goes out, even    *)
(* with routing switched off meanwhile: GSGuard, and the requests made for a *)
(* reconciling one, which have no transfer of their own, rely on the count.  *)
NoPayloadWhileReconciling == [][Holding # {} => sent' = sent]_vars

(* Native success is reported only for a request whose job had completed     *)
(* ("Go commits, then native lookup confirms the remote item").              *)
SuccessIsConfirmed ==
    \A r \in succeeded \cap intercepted : job[r] \in delivered

(* An original is queued only for the account in the credentials of its      *)
(* request, whatever account or destination is chosen while it is exported.  *)
ImportedForOwner ==
    \A r \in intercepted : job[r] # NoJob => jobAccount[job[r]] = Owner[r]

(* A cancel in the foreground and the publication of the job do not miss     *)
(* each other: when both are through, the engine has been told.              *)
CancelReachesEngine ==
    \A r \in cancelled \cap cancelGo :
        canceller[r] = "none" /\ worker[r] \in {"polling", "settling", "ended"}
            => r \in told \/ job[r] = NoJob

(* A request that was cancelled only in the background leaves its job to the *)
(* daemon (the comment in the cancel hook).                                  *)
BackgroundCancelKeepsJob == told \subseteq asked

(* A transfer at work is not ended natively: no time-out before the native   *)
(* lookup (the shouldTimeout hook), unless the scheduler cancels.            *)
NotEndedEarly ==
    \A r \in finished \ cancelled : worker[r] \in {"resuming", "ended"}

(* An intercepted request is settled: it fails, is cancelled, or goes on to  *)
(* the native lookup; the original start being held back, nobody else would. *)
TransferSettles ==
    \A r \in Requests :
        r \in intercepted ~> r \in cancelled \cup finished \cup reconciling

-----------------------------------------------------------------------------
(* The inductive invariant of the proofs. *)

Preparing == {"asking", "waiting", "checking", "authorizing", "exporting",
              "reauthorizing", "importing"}
Following == {"publishing", "heeding", "polling"}
Deciding  == {"settling", "registering", "resuming"}

(* The worker runs exactly once for an intercepted request and has the job   *)
(* from its import on; before that no job of this request exists.            *)
WorkerInv ==
    \A r \in Requests :
        /\ worker[r] = "none" <=> r \notin intercepted
        /\ worker[r] \in {"none", "binding"} \cup Preparing =>
               jobState[r] = "none" /\ job[r] = NoJob
        /\ worker[r] \in Following => job[r] # NoJob
        /\ r \in published <=> job[r] # NoJob /\ worker[r] # "publishing"

(* Jobs belong to the account the request was bound to. *)
OwnerInv ==
    \A r \in Requests :
        /\ worker[r] \in Preparing \cup Following \cup Deciding => account[r] = Owner[r]
        /\ job[r] # NoJob => jobState[job[r]] # "none" /\ jobAccount[job[r]] = Owner[r]

(* Registration and the native lookup come after the completion of the job. *)
LookupInv ==
    \A r \in Requests :
        /\ jobState[r] = "completed" => r \in delivered
        /\ r \in completed => worker[r] \in Deciding \cup {"ended"} /\ job[r] \in delivered
        /\ worker[r] = "registering" => r \in completed
        /\ worker[r] = "resuming" => r \in reconciling
        /\ r \in reconciling => worker[r] \in {"resuming", "ended"} /\ r \in completed
        /\ r \in intercepted /\ (native[r] = "looking" \/ r \in succeeded) => r \in reconciling

(* A finished cancel that was to reach the engine has, or the worker will.   *)
CancelInv ==
    \A r \in cancelled \cap cancelGo :
        canceller[r] = "none" /\ r \in published => r \in told \/ worker[r] = "heeding"

(* A native request that has ended was cancelled, or its transfer is through. *)
EndInv ==
    \A r \in Requests :
        /\ canceller[r] # "none" => r \in intercepted
        /\ canceller[r] = "telling" => r \in cancelled
        /\ r \in intercepted /\ (native[r] = "ended" \/ r \in finished) =>
               r \in cancelled \/ worker[r] \in {"resuming", "ended"}

BackupInv ==
    /\ BackupTypeOK /\ RegistrationsMatch
    /\ WorkerInv /\ OwnerInv /\ LookupInv /\ CancelInv /\ EndInv
=============================================================================
