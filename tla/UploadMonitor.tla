--------------------------- MODULE UploadMonitor ---------------------------
(***************************************************************************)
(* The host's monitor of completed uploads (GSUploadMonitor.m) and the      *)
(* refresh of the native library that it asks for (GSPhotosIntegration.m).  *)
(* While the app is in the foreground it polls the engine's completion      *)
(* revision, through the daemon or the embedded service; an answer may come *)
(* after the app left the foreground or the user another account.  A        *)
(* revision it has not seen in this session is acknowledged and a refresh   *)
(* is due, of the account viewed when it is made.                           *)
(*                                                                         *)
(* The main queue runs one block at a time; a wait of a second gathers      *)
(* refreshes.  An account whose authorization expired counts as none.       *)
(***************************************************************************)
EXTENDS Discovery, EmbeddedService

CONSTANTS
    Builds,        \* of "daemon" and "embedded"
    Identities,
    NoIdentity,
    MaxRevision,   \* bound: completions
    MaxEvents      \* bound: moves of the app, of the user and of the network

ASSUME MonitorAssumption ==
    /\ Builds \subseteq {"daemon", "embedded"}
    /\ NoIdentity \notin Identities
    /\ MaxRevision \in Nat /\ MaxEvents \in Nat

VARIABLES
    build,
    viewing,       \* the account viewed
    foreground,    \* GSForeground
    poll,          \* GSInFlight and what the poll in flight holds
    last,          \* GSLastIdentifier, GSLastRevision
    pending,       \* GSPending
    scheduled,     \* GSScheduled: the delayed block
    refreshing,    \* the block of GSRefreshNativeLibrary is due
    flushing,      \* the block of GSCaptureSynchronizer is due
    captured,      \* accounts in GSSynchronizers
    revision,      \* the engine's CompletionRevision
    events,
    since,         \* history: the revision when this foreground session began
    owed           \* history: an acknowledgement whose account, viewed since,
                   \* has not been fetched

monitor == <<foreground, poll, last>>
library == <<pending, scheduled, refreshing, flushing, captured>>
vars == <<discoveryVars, serviceVars, build, viewing, monitor, library, revision, events, since, owed>>

(* same: the epoch is still that of the poll.  rev: the revision of a usable *)
(* answer, 0 for one that is missing, without completions or offline.        *)
Steps == {"none", "asking", "resolving", "sending", "answered"}
NoPoll == [step |-> "none", id |-> NoIdentity, same |-> TRUE, rev |-> 0]
Nothing == [id |-> NoIdentity, rev |-> 0]

Init ==
    /\ DiscoveryInit /\ ServiceInit
    /\ build \in Builds
    /\ viewing \in Identities \cup {NoIdentity}
    /\ foreground = FALSE /\ poll = NoPoll /\ last = Nothing
    /\ pending = FALSE /\ scheduled = FALSE /\ refreshing = FALSE /\ flushing = FALSE
    /\ captured = {}
    /\ revision \in {r \in 0..MaxRevision : r <= 1} /\ since = revision
    /\ events = 0 /\ owed = FALSE

Event == events < MaxEvents /\ events' = events + 1

-----------------------------------------------------------------------------
(* The poll, on the main queue. *)
PollsNow(fg) ==
    IF fg /\ poll.step = "none" /\ viewing # NoIdentity
    THEN poll' = [step |-> "asking", id |-> viewing, same |-> TRUE, rev |-> 0]
    ELSE poll' = [poll EXCEPT !.same = @ /\ (fg = foreground \/ poll.step = "none")]

(* The timer, every three seconds. *)
TimerPolls ==
    /\ foreground /\ poll.step = "none" /\ viewing # NoIdentity
    /\ PollsNow(TRUE)
    /\ UNCHANGED <<discoveryVars, serviceVars, build, viewing, foreground, last, library,
                   revision, events, since, owed>>

NewSession == last' = Nothing /\ since' = revision

(* GSSetUploadHostForeground *)
HostNotified ==
    /\ foreground' = active
    /\ IF active # foreground THEN NewSession ELSE UNCHANGED <<last, since>>
    /\ PollsNow(active)
    /\ owed' = (owed /\ active = foreground)
    /\ UNCHANGED <<discoveryVars, serviceVars, build, viewing, library, revision, events>>

Answered(rev) == poll' = [poll EXCEPT !.step = "answered", !.rev = rev]

(* Mutant: the session an answer belongs to is not looked at. *)
Belongs_Anyway == foreground /\ viewing = poll.id

Belongs == foreground /\ poll.same /\ viewing = poll.id

(* The answer, on the main queue. *)
Acknowledges == Belongs /\ poll.rev # 0 /\ last # [id |-> poll.id, rev |-> poll.rev]

Completed ==
    /\ poll.step = "answered" /\ poll' = NoPoll
    /\ IF Acknowledges
       THEN /\ last' = [id |-> poll.id, rev |-> poll.rev]
            /\ refreshing' = TRUE /\ owed' = TRUE
       ELSE UNCHANGED <<last, refreshing, owed>>
    /\ UNCHANGED <<discoveryVars, serviceVars, build, viewing, foreground, pending, scheduled,
                   flushing, captured, revision, events, since>>

-----------------------------------------------------------------------------
(* The request, in the daemon's build. *)
requestVars == <<build, viewing, foreground, last, library, revision, events, since, owed>>

LookedUp ==
    /\ build = "daemon" /\ poll.step = "asking"
    /\ \/ rights' = rights + 1 /\ poll' = [poll EXCEPT !.step = "sending"] /\ UNCHANGED attempt
       \/ Answered(0) /\ UNCHANGED discoveryVars
       \/ (\E a \in Attempts : Resolve(a)) /\ poll' = [poll EXCEPT !.step = "resolving"]
    /\ UNCHANGED <<serviceVars, requestVars>>

TakesReply ==
    /\ \E a \in Attempts : Take(a)
    /\ UNCHANGED <<poll, serviceVars, requestVars>>

LeavesAttempt ==
    /\ \E a \in Attempts :
        /\ CallerReleases(a)
        /\ IF attempt[a].caller = "took" THEN poll' = [poll EXCEPT !.step = "sending"]
           ELSE Answered(0)
    /\ UNCHANGED <<serviceVars, requestVars>>

(* The daemon answers, while it is online or not; or does not in time. *)
Served(rev) ==
    /\ build = "daemon" /\ poll.step = "sending"
    /\ Answered(rev)
    /\ rights' = rights - 1
    /\ UNCHANGED <<attempt, serviceVars, requestVars>>

(* The request, in the embedded build. *)
AsksService ==
    /\ build = "embedded" /\ poll.step = "asking"
    /\ RequestEnters
    /\ poll' = [poll EXCEPT !.step = "sending"]
    /\ UNCHANGED <<discoveryVars, requestVars, active, recorded, accepted, core, running, online, fault>>

RequestRuns ==
    /\ build = "embedded" /\ poll.step = "sending"
    /\ \/ RequestBlock /\ UNCHANGED poll
       \/ ready = "failed" /\ Answered(0) /\ UNCHANGED serviceVars
    /\ UNCHANGED <<discoveryVars, requestVars>>

RequestAnswered ==
    /\ running.block = "request" /\ Tells
    /\ Answered(IF online' /\ ~fault THEN revision ELSE 0)
    /\ UNCHANGED <<discoveryVars, requestVars>>

-----------------------------------------------------------------------------
(* The library, on the main queue. *)
FlushRefresh == scheduled' = (scheduled \/ pending')

RefreshRequested ==
    /\ refreshing /\ refreshing' = FALSE
    /\ pending' = TRUE /\ FlushRefresh
    /\ UNCHANGED <<discoveryVars, serviceVars, build, viewing, monitor, flushing, captured,
                   revision, events, since, owed>>

FlushRequested ==
    /\ flushing /\ flushing' = FALSE
    /\ UNCHANGED pending /\ FlushRefresh
    /\ UNCHANGED <<discoveryVars, serviceVars, build, viewing, monitor, refreshing, captured,
                   revision, events, since, owed>>

(* The synchronizers of the account viewed; one whose authorization expired  *)
(* is still viewed, but none is known of it.                                 *)
Target == IF viewing = NoIdentity THEN captured ELSE captured \cap {viewing}

(* Mutant: a synchronizer that comes does not resume a refresh. *)
CaptureFlushes_Not == UNCHANGED flushing

(* GSCaptureSynchronizer *)
CaptureFlushes == flushing' = TRUE

(* Mutant: a refresh without a synchronizer is given up. *)
Waits_Forgotten == pending' = FALSE /\ UNCHANGED flushing

Waits == UNCHANGED <<pending, flushing>>

(* The delayed block of GSFlushRefresh; fetchData is captured in turn. *)
Flushes ==
    /\ scheduled /\ scheduled' = FALSE
    /\ \/ ~pending /\ UNCHANGED <<pending, flushing, owed>>
       \/ pending /\ (Target = {} \/ viewing = NoIdentity) /\ Waits /\ UNCHANGED owed
       \/ /\ pending /\ Target # {}
          /\ pending' = FALSE /\ CaptureFlushes
          /\ owed' = (owed /\ viewing # last.id)
    /\ UNCHANGED <<discoveryVars, serviceVars, build, viewing, monitor, refreshing, captured,
                   revision, events, since>>

(* The app syncs an account by itself. *)
Captures ==
    /\ Event
    /\ \E id \in Identities : captured' = captured \cup {id}
    /\ CaptureFlushes
    /\ UNCHANGED <<discoveryVars, serviceVars, build, viewing, monitor, pending, scheduled, refreshing,
                   revision, since, owed>>

-----------------------------------------------------------------------------
(* The user views another account, signs in or out. *)
AccountViewed ==
    /\ Event
    /\ viewing' \in (Identities \cup {NoIdentity}) \ {viewing}
    /\ owed' = FALSE
    /\ UNCHANGED <<discoveryVars, serviceVars, build, monitor, library, revision, since>>

(* A commit is confirmed. *)
UploadCompletes ==
    /\ revision < MaxRevision /\ revision' = revision + 1
    /\ UNCHANGED <<discoveryVars, serviceVars, build, viewing, monitor, library, events, since, owed>>

others == <<discoveryVars, build, viewing, monitor, library, revision, since, owed>>

AppEvent == Event /\ AppMoves /\ UNCHANGED others

ServiceEvent ==
    /\ build = "embedded" /\ Event
    /\ PathChanges \/ EngineFails \/ PanelRequests
    /\ UNCHANGED others

ServiceNotified == build = "embedded" /\ Notified /\ UNCHANGED <<events, others>>
ServiceSampled == SampledForRequest /\ UNCHANGED <<events, others>>
ServiceStep == (Starts \/ ConditionsBlock \/ ConditionsTold) /\ UNCHANGED <<events, others>>
CallbackStep == DiscoveryStep /\ UNCHANGED <<serviceVars, poll, requestVars>>

AnsweredOnline == Served(revision)

Next ==
    \/ TimerPolls \/ HostNotified \/ Completed
    \/ LookedUp \/ TakesReply \/ LeavesAttempt \/ AnsweredOnline \/ Served(0) \/ CallbackStep
    \/ AsksService \/ RequestRuns \/ RequestAnswered
    \/ ServiceNotified \/ ServiceSampled \/ ServiceStep
    \/ RefreshRequested \/ FlushRequested \/ Flushes
    \/ Captures \/ AccountViewed \/ UploadCompletes \/ AppEvent \/ ServiceEvent

Spec == Init /\ [][Next]_vars

(* The timer fires, blocks run, waits end.  Notifications may be missed, and *)
(* nobody has to move the app, capture a synchronizer or finish an upload.   *)
Fairness ==
    /\ WF_vars(TimerPolls) /\ WF_vars(Completed)
    /\ WF_vars(LookedUp) /\ WF_vars(TakesReply) /\ WF_vars(LeavesAttempt) /\ WF_vars(CallbackStep)
    /\ WF_vars(AnsweredOnline \/ Served(0))
    /\ WF_vars(AsksService) /\ SF_vars(RequestRuns) /\ WF_vars(RequestAnswered)
    /\ WF_vars(ServiceSampled) /\ SF_vars(ServiceStep)
    /\ WF_vars(RefreshRequested) /\ WF_vars(FlushRequested) /\ WF_vars(Flushes)

FairSpec == Spec /\ Fairness
=============================================================================
