----------------------- MODULE UploadMonitorProperties -----------------------
(* What the monitor of the host, the discovery of the daemon and the service *)
(* in the app guarantee (UploadMonitor).                                     *)
EXTENDS UploadMonitor

(* Every variable has its type; references and send rights are never released *)
(* more often than they are taken.                                           *)
MonitorTypeOK ==
    /\ attempt \in [Attempts -> Attempt] /\ rights \in Nat
    /\ active \in BOOLEAN /\ recorded \in [foreground : BOOLEAN, network : BOOLEAN]
    /\ accepted \in BOOLEAN /\ ready \in {"unstarted", "starting", "yes", "failed"}
    /\ core \in 0..CoreLimit /\ running \in [block : Blocks, online : BOOLEAN]
    /\ sampling \in BOOLEAN /\ online \in BOOLEAN /\ fault \in BOOLEAN
    /\ build \in Builds /\ viewing \in Identities \cup {NoIdentity}
    /\ foreground \in BOOLEAN
    /\ poll \in [step : Steps, id : Identities \cup {NoIdentity}, same : BOOLEAN, rev : 0..MaxRevision]
    /\ last \in [id : Identities \cup {NoIdentity}, rev : 0..MaxRevision]
    /\ pending \in BOOLEAN /\ scheduled \in BOOLEAN /\ refreshing \in BOOLEAN
    /\ flushing \in BOOLEAN /\ captured \subseteq Identities
    /\ revision \in 0..MaxRevision /\ events \in 0..MaxEvents
    /\ since \in 0..MaxRevision /\ owed \in BOOLEAN

(* Every send right for the daemon that the process holds belongs to the     *)
(* request in flight or is on its way to it: a reply that comes when its      *)
(* caller has given up copies none (GSResolveDiscovery's callback, GSRequest  *)
(* of the daemon's client).                                                  *)
RightsBalanced == rights = Cardinality(Held) + (IF build = "daemon" /\ poll.step = "sending" THEN 1 ELSE 0)

(* A completion that was acknowledged, and will not be reported again, has a  *)
(* refresh under way until its account has been fetched, as long as the user  *)
(* stays with that account and the session lasts (GSPoll, GSFlushRefresh).    *)
AcknowledgedIsPending == owed => refreshing \/ pending

(* What is acknowledged in a session is no answer from an earlier one, even   *)
(* if the app was left and reached again, and the account changed and changed *)
(* back, while the answer was under way (the epoch in GSPoll).                *)
NotBehindSession == last # Nothing => last.rev >= since

PollsOn == foreground /\ viewing # NoIdentity
ServiceWorks == build = "embedded" /\ ready = "yes" /\ ~fault

(* While the host polls, the engine in the app comes to go by the app's own   *)
(* state and the path, even when notifications of the life cycle are missed   *)
(* (GSRequest samples the app for every request).                            *)
ConditionsConverge ==
    <>[](ServiceWorks /\ PollsOn) => <>[](online = (active /\ recorded.network))

(* The completions of the account viewed are acknowledged, and its library    *)
(* fetched since.                                                            *)
Noticed == last = [id |-> viewing, rev |-> revision] /\ ~owed

(* While the host polls an account whose synchronizer was captured, and the   *)
(* service is online and answers, every completion is noticed in the end      *)
(* (GSPoll, GSRefreshNativeLibrary, GSCaptureSynchronizer).                   *)
CompletionIsNoticed ==
    /\ <>[](PollsOn /\ viewing \in captured /\ revision > 0)
    /\ \/ <>[](ServiceWorks /\ active /\ recorded.network)
       \/ []<>(build = "daemon" /\ poll.step = "answered" /\ poll.rev = revision)
    => <>[]Noticed
==============================================================================
