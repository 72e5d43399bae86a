------------------------- MODULE UploadMonitorProofs -------------------------
(***************************************************************************)
(* Machine-checked proofs about the host's monitor, the discovery of the   *)
(* daemon and the service in the app, for every value of the constants     *)
(* that the assumptions allow: any number of events, completions, attempts *)
(* and blocks.                                                             *)
(***************************************************************************)
EXTENDS UploadMonitorProperties, FiniteSetTheorems, TLAPS

-----------------------------------------------------------------------------
(* Types, where rights may still be negative. *)

Accounts == Identities \cup {NoIdentity}

AttemptTypes == attempt \in [Attempts -> Attempt] /\ rights \in Int

ServiceTypes ==
    /\ active \in BOOLEAN /\ recorded \in [foreground : BOOLEAN, network : BOOLEAN]
    /\ accepted \in BOOLEAN /\ ready \in {"unstarted", "starting", "yes", "failed"}
    /\ core \in 0..CoreLimit /\ running \in [block : Blocks, online : BOOLEAN]
    /\ sampling \in BOOLEAN /\ online \in BOOLEAN /\ fault \in BOOLEAN

HostTypes ==
    /\ build \in Builds /\ viewing \in Accounts /\ foreground \in BOOLEAN
    /\ poll \in [step : Steps, id : Accounts, same : BOOLEAN, rev : 0..MaxRevision]
    /\ last \in [id : Accounts, rev : 0..MaxRevision]
    /\ pending \in BOOLEAN /\ scheduled \in BOOLEAN /\ refreshing \in BOOLEAN
    /\ flushing \in BOOLEAN /\ captured \subseteq Identities
    /\ revision \in 0..MaxRevision /\ events \in 0..MaxEvents
    /\ since \in 0..MaxRevision /\ owed \in BOOLEAN

(* An attempt is held by those who will still touch it, and is closed before  *)
(* its caller leaves.                                                        *)
Counted(r) ==
    /\ r.refs = (IF r.caller = "gone" THEN 0 ELSE 1) + (IF r.callback = "gone" THEN 0 ELSE 1)
    /\ r.freed <=> r.refs = 0
    /\ r.caller # "due" => ~r.port
    /\ ~r.finished /\ ~r.freed => r.caller = "due" /\ r.callback = "due" /\ ~r.port

AttemptsCounted == \A a \in Attempts : Counted(attempt[a])

LEMMA UnusedIsCounted == Unused \in Attempt /\ Counted(Unused)
BY DEF Attempt, Counted, Unused

LEMMA CreatedIsCounted == Created \in Attempt /\ Counted(Created)
<1>1. Unused \in Attempt /\ ~Unused.finished /\ ~Unused.port
  BY DEF Unused, Attempt
<1>2. Created \in Attempt
  BY <1>1 DEF Created, Attempt
<1>3. /\ Created.caller = "due" /\ Created.callback = "due" /\ Created.refs = 2
      /\ ~Created.freed /\ ~Created.port
  BY <1>1 DEF Created, Attempt
<1> QED BY <1>2, <1>3 DEF Counted

LEMMA FreedIsAttempt ==
  ASSUME NEW s \in Attempt
  PROVE  [s EXCEPT !.refs = 0, !.freed = TRUE] \in Attempt
<1> DEFINE t == [s EXCEPT !.refs = 0]
<1>1. t \in Attempt
  BY DEF Attempt
<1>2. [t EXCEPT !.freed = TRUE] \in Attempt
  BY <1>1 DEF Attempt
<1> QED BY <1>1, <1>2 DEF Attempt

(* r: before someone leaves; s: after, with the references of before. *)
LEMMA ReleasedIsCounted ==
  ASSUME NEW r \in Attempt, NEW s \in Attempt, Counted(r), r.finished,
         s.refs = r.refs, s.freed = r.freed, s.finished = r.finished, s.port = r.port,
         \/ s.caller = "gone" /\ r.caller # "gone" /\ s.callback = r.callback /\ r.caller # "due"
         \/ s.callback = "gone" /\ r.callback # "gone" /\ s.caller = r.caller
  PROVE  Settled(Released(s)) \in Attempt /\ Counted(Settled(Released(s)))
<1>1. r.refs \in {1, 2} /\ ~r.freed
  BY DEF Counted, Attempt
<1>2. CASE r.refs = 1
  <2>1. Released(s) = [s EXCEPT !.refs = 0, !.freed = TRUE]
    BY <1>2, s.refs = 1 DEF Released
  <2>2. Released(s) \in Attempt
    BY <2>1, FreedIsAttempt
  <2>3. s.caller = "gone" /\ s.callback = "gone" /\ ~s.port
    BY <1>2 DEF Counted, Attempt
  <2>4. Counted(Released(s))
    BY <2>1, <2>3 DEF Counted, Attempt
  <2> QED BY <2>2, <2>4, UnusedIsCounted DEF Settled
<1>3. CASE r.refs = 2
  <2>1. Released(s) = [s EXCEPT !.refs = 1]
    BY <1>3, s.refs = 2 DEF Released
  <2>2. Released(s) \in Attempt
    BY <2>1, s \in Attempt DEF Attempt
  <2>3. Counted(Released(s))
    <3>1. Released(s).caller = s.caller /\ Released(s).callback = s.callback /\ Released(s).refs = 1
           /\ Released(s).freed = s.freed /\ Released(s).finished = s.finished
           /\ Released(s).port = s.port
      BY <2>1 DEF Attempt
    <3> QED BY <1>1, <1>3, <3>1 DEF Counted
  <2> QED BY <2>2, <2>3, UnusedIsCounted DEF Settled
<1> QED BY <1>1, <1>2, <1>3

(* Who may still do something has not been freed, and is counted. *)
LEMMA AttemptStep ==
  ASSUME AttemptTypes, AttemptsCounted, NEW a \in Attempts,
         Resolve(a) \/ Reply(a) \/ Take(a) \/ CallbackReleases(a) \/ CallerReleases(a)
  PROVE  AttemptsCounted' /\ attempt' \in [Attempts -> Attempt]
<1> DEFINE r == attempt[a]
<1>0. r \in Attempt /\ Counted(r)
  BY DEF AttemptTypes, AttemptsCounted
<1>1. SUFFICES attempt' = [attempt EXCEPT ![a] = attempt'[a]]
                 /\ attempt'[a] \in Attempt /\ Counted(attempt'[a])
  BY DEF AttemptTypes, AttemptsCounted
<1>2. CASE Resolve(a)
  BY <1>2, CreatedIsCounted DEF Resolve, AttemptTypes
<1>3. CASE Reply(a)
  <2>1. r.callback = "due" /\ ~r.freed
    BY <1>0, <1>3 DEF Reply, Counted, Attempt
  <2>2. CASE Awaited(a)
    <3>1. PICK ok \in BOOLEAN :
            attempt' = [attempt EXCEPT ![a].callback = "releasing", ![a].finished = TRUE, ![a].port = ok]
      BY <1>3, <2>2 DEF Reply
    <3>2. attempt'[a] = [r EXCEPT !.callback = "releasing", !.finished = TRUE, !.port = ok]
      BY <3>1 DEF AttemptTypes
    <3>3. attempt' = [attempt EXCEPT ![a] = attempt'[a]]
      BY <3>1, <3>2 DEF AttemptTypes
    <3>4. r.caller = "due" /\ r.refs = 2
      BY <1>0, <2>1, <2>2 DEF Awaited, Counted
    <3> QED BY <1>0, <2>1, <3>2, <3>3, <3>4 DEF Counted, Attempt
  <2>3. CASE ~Awaited(a)
    <3>1. attempt' = [attempt EXCEPT ![a].callback = "releasing"]
      BY <1>3, <2>3 DEF Reply
    <3>2. attempt'[a] = [r EXCEPT !.callback = "releasing"]
      BY <3>1 DEF AttemptTypes
    <3>3. attempt' = [attempt EXCEPT ![a] = attempt'[a]]
      BY <3>1, <3>2 DEF AttemptTypes
    <3> QED BY <1>0, <2>1, <2>3, <3>2, <3>3 DEF Counted, Attempt, Awaited
  <2> QED BY <2>2, <2>3
<1>4. CASE Take(a)
  <2>1. r.caller = "due" /\ ~r.freed
    BY <1>0, <1>4 DEF Take, Counted, Attempt
  <2>2. attempt'[a] = [r EXCEPT !.caller = IF r.port THEN "took" ELSE "failed",
                                !.finished = TRUE, !.port = FALSE]
    BY <1>4 DEF Take, AttemptTypes
  <2>3. attempt' = [attempt EXCEPT ![a] = attempt'[a]]
    BY <1>4, <2>2 DEF Take, AttemptTypes
  <2> QED BY <1>0, <2>1, <2>2, <2>3 DEF Counted, Attempt
<1>5. CASE CallbackReleases(a)
  <2> DEFINE s == [r EXCEPT !.callback = "gone"]
  <2>1. r.callback = "releasing" /\ r.finished
    BY <1>0, <1>5 DEF CallbackReleases, Counted, Attempt
  <2>2. s \in Attempt /\ s.refs = r.refs /\ s.freed = r.freed /\ s.finished = r.finished
          /\ s.port = r.port /\ s.caller = r.caller /\ s.callback = "gone"
    BY <1>0 DEF Attempt
  <2>3. attempt' = [attempt EXCEPT ![a] = Settled(Released(s))]
    BY <1>5 DEF CallbackReleases
  <2>4. Settled(Released(s)) \in Attempt /\ Counted(Settled(Released(s)))
    BY <1>0, <2>1, <2>2, ReleasedIsCounted
  <2> QED BY <2>3, <2>4 DEF AttemptTypes
<1>6. CASE CallerReleases(a)
  <2> DEFINE s == [r EXCEPT !.caller = "gone"]
  <2>1. r.caller # "gone" /\ r.caller # "due" /\ r.finished
    BY <1>0, <1>6 DEF CallerReleases, Counted, Attempt
  <2>2. s \in Attempt /\ s.refs = r.refs /\ s.freed = r.freed /\ s.finished = r.finished
          /\ s.port = r.port /\ s.callback = r.callback /\ s.caller = "gone"
    BY <1>0 DEF Attempt
  <2>3. attempt' = [attempt EXCEPT ![a] = Settled(Released(s))]
    BY <1>6 DEF CallerReleases
  <2>4. Settled(Released(s)) \in Attempt /\ Counted(Settled(Released(s)))
    BY <1>0, <2>1, <2>2, ReleasedIsCounted
  <2> QED BY <2>3, <2>4 DEF AttemptTypes
<1> QED BY <1>2, <1>3, <1>4, <1>5, <1>6

LEMMA LeavingKeeps ==
  ASSUME NEW s \in Attempt
  PROVE  /\ Settled(Released(s)).caller = s.caller
         /\ Settled(Released(s)).callback = s.callback
         /\ Settled(Released(s)).port = s.port
<1>1. /\ Released(s).caller = s.caller /\ Released(s).callback = s.callback
      /\ Released(s).port = s.port
  BY DEF Released, Attempt
<1>2. CASE Released(s) = [Unused EXCEPT !.finished = Released(s).finished]
  <2>1. /\ Released(s).caller = Unused.caller /\ Released(s).callback = Unused.callback
        /\ Released(s).port = Unused.port
    BY <1>2 DEF Unused
  <2>2. Settled(Released(s)) = Unused
    BY <1>2 DEF Settled
  <2> QED BY <1>1, <2>1, <2>2
<1>3. CASE Released(s) # [Unused EXCEPT !.finished = Released(s).finished]
  BY <1>1, <1>3 DEF Settled
<1> QED BY <1>2, <1>3

(* What each step does to the callers and to the copies they may have. *)
LEMMA ResolveEffect ==
  ASSUME AttemptTypes, NEW a \in Attempts, Resolve(a)
  PROVE  /\ Held' = Held /\ rights' = rights
         /\ attempt'[a].caller # "gone"
         /\ \A b \in Attempts \ {a} : attempt'[b] = attempt[b]
<1>1. attempt[a].caller = "gone" /\ ~attempt[a].port
  BY DEF Resolve, Unused
<1>2. Created.caller = "due" /\ Created.port = FALSE
  BY UnusedIsCounted DEF Created, Unused, Attempt
<1>3. attempt' = [attempt EXCEPT ![a] = Created] /\ rights' = rights
  BY DEF Resolve
<1> QED BY <1>1, <1>2, <1>3 DEF Held, AttemptTypes

LEMMA ReplyEffect ==
  ASSUME AttemptTypes, AttemptsCounted, NEW a \in Attempts, Reply(a)
  PROVE  /\ \/ Held' = Held /\ rights' = rights
            \/ a \notin Held /\ Held' = Held \cup {a} /\ rights' = rights + 1
         /\ \A b \in Attempts : attempt'[b].caller = attempt[b].caller
<1> DEFINE r == attempt[a]
<1>0. r \in Attempt /\ Counted(r) /\ r.callback = "due"
  BY DEF AttemptTypes, AttemptsCounted, Reply
<1>1. CASE Awaited(a)
  <2>1. PICK ok \in BOOLEAN :
          /\ attempt' = [attempt EXCEPT ![a].callback = "releasing", ![a].finished = TRUE, ![a].port = ok]
          /\ rights' = rights + (IF ok THEN 1 ELSE 0)
    BY <1>1 DEF Reply
  <2>2. r.caller = "due" /\ ~r.port
    BY <1>0, <1>1 DEF Awaited, Counted, Attempt
  <2>3. \A b \in Attempts :
          /\ attempt'[b].caller = attempt[b].caller
          /\ attempt'[b].port = IF b = a THEN ok ELSE attempt[b].port
    BY <2>1 DEF AttemptTypes, Attempt
  <2>4. CASE ok
    BY <2>1, <2>2, <2>3, <2>4 DEF Held, AttemptTypes
  <2>5. CASE ~ok
    BY <2>1, <2>2, <2>3, <2>5 DEF Held, AttemptTypes
  <2> QED BY <2>4, <2>5
<1>2. CASE ~Awaited(a)
  <2>1. attempt' = [attempt EXCEPT ![a].callback = "releasing"] /\ rights' = rights
    BY <1>2 DEF Reply
  <2>2. \A b \in Attempts : attempt'[b].caller = attempt[b].caller /\ attempt'[b].port = attempt[b].port
    BY <2>1 DEF AttemptTypes, Attempt
  <2> QED BY <2>1, <2>2 DEF Held
<1> QED BY <1>1, <1>2

LEMMA TakeEffect ==
  ASSUME AttemptTypes, NEW a \in Attempts, Take(a)
  PROVE  /\ Held' = Held /\ rights' = rights
         /\ attempt[a].caller # "gone" /\ attempt'[a].caller # "gone"
         /\ \A b \in Attempts \ {a} : attempt'[b] = attempt[b]
<1>1. attempt'[a] = [attempt[a] EXCEPT !.caller = IF attempt[a].port THEN "took" ELSE "failed",
                                       !.finished = TRUE, !.port = FALSE]
  BY DEF Take, AttemptTypes
<1>2. /\ attempt'[a].caller = IF attempt[a].port THEN "took" ELSE "failed"
      /\ attempt'[a].port = FALSE
  BY <1>1 DEF AttemptTypes, Attempt
<1>3. /\ attempt[a].caller = "due" /\ rights' = rights
      /\ \A b \in Attempts \ {a} : attempt'[b] = attempt[b]
  BY DEF Take, AttemptTypes
<1> QED BY <1>2, <1>3 DEF Held

LEMMA CallbackReleasesEffect ==
  ASSUME AttemptTypes, NEW a \in Attempts, CallbackReleases(a)
  PROVE  /\ Held' = Held /\ rights' = rights
         /\ \A b \in Attempts : attempt'[b].caller = attempt[b].caller
<1> DEFINE s == [attempt[a] EXCEPT !.callback = "gone"]
<1>1. s \in Attempt /\ s.caller = attempt[a].caller /\ s.port = attempt[a].port
  BY DEF AttemptTypes, Attempt
<1>2. attempt' = [attempt EXCEPT ![a] = Settled(Released(s))] /\ rights' = rights
  BY DEF CallbackReleases
<1>3. \A b \in Attempts : attempt'[b].caller = attempt[b].caller /\ attempt'[b].port = attempt[b].port
  BY <1>1, <1>2, LeavingKeeps DEF AttemptTypes
<1> QED BY <1>2, <1>3 DEF Held

LEMMA CallerReleasesEffect ==
  ASSUME AttemptTypes, AttemptsCounted, NEW a \in Attempts, CallerReleases(a)
  PROVE  /\ Held' = Held \ {a} /\ rights' = rights
         /\ a \in Held <=> attempt[a].caller = "took"
         /\ attempt[a].caller # "gone" /\ attempt'[a].caller = "gone"
         /\ \A b \in Attempts \ {a} : attempt'[b] = attempt[b]
<1> DEFINE s == [attempt[a] EXCEPT !.caller = "gone"]
<1>1. s \in Attempt /\ s.caller = "gone"
  BY DEF AttemptTypes, Attempt
<1>2. /\ attempt' = [attempt EXCEPT ![a] = Settled(Released(s))] /\ rights' = rights
      /\ attempt[a].caller \in {"took", "failed"}
  BY DEF CallerReleases
<1>3. attempt'[a].caller = "gone" /\ \A b \in Attempts \ {a} : attempt'[b] = attempt[b]
  BY <1>1, <1>2, LeavingKeeps DEF AttemptTypes
<1> QED BY <1>2, <1>3 DEF Held

-----------------------------------------------------------------------------
(* The types of the host and of the service. *)

LEMMA ZeroIsRevision == 0 \in 0..MaxRevision
BY MonitorAssumption DEF MonitorAssumption

LEMMA PollTypes ==
  ASSUME HostTypes, NEW step \in Steps, NEW rev \in 0..MaxRevision
  PROVE  /\ [poll EXCEPT !.step = step] \in [step : Steps, id : Accounts, same : BOOLEAN, rev : 0..MaxRevision]
         /\ [poll EXCEPT !.step = step, !.rev = rev]
               \in [step : Steps, id : Accounts, same : BOOLEAN, rev : 0..MaxRevision]
BY DEF HostTypes

LEMMA AnsweredTypes ==
  ASSUME HostTypes, NEW rev \in 0..MaxRevision, Answered(rev)
  PROVE  poll' \in [step : Steps, id : Accounts, same : BOOLEAN, rev : 0..MaxRevision]
<1>1. "answered" \in Steps
  BY DEF Steps
<1> QED BY <1>1, PollTypes DEF Answered

LEMMA PollsNowTypes ==
  ASSUME HostTypes, NEW fg \in BOOLEAN, PollsNow(fg)
  PROVE  poll' \in [step : Steps, id : Accounts, same : BOOLEAN, rev : 0..MaxRevision]
<1>1. CASE fg /\ poll.step = "none" /\ viewing # NoIdentity
  <2>1. viewing \in Accounts /\ "asking" \in Steps /\ TRUE \in BOOLEAN
    BY DEF HostTypes, Steps
  <2>2. poll' = [step |-> "asking", id |-> viewing, same |-> TRUE, rev |-> 0]
    BY <1>1, Zenon DEF PollsNow
  <2> QED BY <2>1, <2>2, ZeroIsRevision
<1>2. CASE ~(fg /\ poll.step = "none" /\ viewing # NoIdentity)
  <2> DEFINE same == poll.same /\ (fg = foreground \/ poll.step = "none")
  <2>1. poll' = [poll EXCEPT !.same = same]
    BY <1>2 DEF PollsNow
  <2>2. same \in BOOLEAN
    OBVIOUS
  <2> HIDE DEF same
  <2> QED BY <2>1, <2>2 DEF HostTypes
<1> QED BY <1>1, <1>2

LEMMA ServiceStepTypes ==
  ASSUME ServiceTypes,
         \/ AppMoves \/ PathChanges \/ EngineFails \/ PanelRequests
         \/ Notified \/ SampledForRequest
         \/ Starts \/ ConditionsBlock \/ ConditionsTold \/ RequestBlock
         \/ Tells
  PROVE  ServiceTypes'
<1> USE CoreAssumption DEF CoreAssumption, ServiceTypes, Blocks, Idle
<1>1. CASE AppMoves BY <1>1 DEF AppMoves
<1>2. CASE PathChanges BY <1>2 DEF PathChanges, Dispatched
<1>3. CASE EngineFails BY <1>3 DEF EngineFails
<1>4. CASE PanelRequests BY <1>4 DEF PanelRequests, RequestEnters
<1>5. CASE Notified BY <1>5 DEF Notified, SampleApplication, Dispatched
<1>6. CASE SampledForRequest
  <2>1. sampling' \in BOOLEAN /\ UNCHANGED <<active, accepted, ready, running, online, fault>>
    BY <1>6, Zenon DEF SampledForRequest
  <2>2. SampleApplication
    BY <1>6, Zenon DEF SampledForRequest
  <2>3. core' \in 0..CoreLimit /\ recorded' \in [foreground : BOOLEAN, network : BOOLEAN]
    BY <2>2 DEF SampleApplication, Dispatched
  <2> QED BY <2>1, <2>3
<1>7. CASE Starts BY <1>7 DEF Starts, Reads, Permitted
<1>8. CASE ConditionsBlock
  <2>1. core' \in 0..CoreLimit
    BY <1>8 DEF ConditionsBlock
  <2>2. running' \in [block : Blocks, online : BOOLEAN]
    <3> DEFINE value == Permitted
    <3>1. value \in BOOLEAN
      BY DEF Permitted
    <3>2. running' = [block |-> "conditions", online |-> value] \/ running' = running
      BY <1>8 DEF ConditionsBlock, Reads
    <3> HIDE DEF value
    <3> QED BY <3>1, <3>2
  <2> QED BY <1>8, <2>1, <2>2 DEF ConditionsBlock
<1>9. CASE RequestBlock BY <1>9 DEF RequestBlock, Reads, Permitted
<1>10. CASE Tells BY <1>10 DEF Tells
<1> QED BY <1>1, <1>2, <1>3, <1>4, <1>5, <1>6, <1>7, <1>8, <1>9, <1>10 DEF ConditionsTold

LEMMA NextTypes ==
  ASSUME HostTypes, ServiceTypes, [Next]_vars
  PROVE  HostTypes' /\ ServiceTypes'
<1> USE MonitorAssumption DEF MonitorAssumption, Accounts, Steps
<1>1. CASE TimerPolls
  <2>1. poll' \in [step : Steps, id : Accounts, same : BOOLEAN, rev : 0..MaxRevision]
    BY <1>1, PollsNowTypes DEF TimerPolls
  <2> QED BY <1>1, <2>1 DEF TimerPolls, HostTypes, ServiceTypes, serviceVars, library
<1>2. CASE HostNotified
  <2>1. poll' \in [step : Steps, id : Accounts, same : BOOLEAN, rev : 0..MaxRevision]
    BY <1>2, PollsNowTypes DEF HostNotified, ServiceTypes
  <2>2. last' \in [id : Accounts, rev : 0..MaxRevision] /\ since' \in 0..MaxRevision
    BY <1>2, ZeroIsRevision DEF HostNotified, NewSession, Nothing, HostTypes
  <2>3. foreground' \in BOOLEAN /\ owed' \in BOOLEAN
    BY <1>2 DEF HostNotified, HostTypes, ServiceTypes
  <2> QED BY <1>2, <2>1, <2>2, <2>3 DEF HostNotified, HostTypes, ServiceTypes, serviceVars, library
<1>3. CASE Completed
  <2>1. poll' \in [step : Steps, id : Accounts, same : BOOLEAN, rev : 0..MaxRevision]
    BY <1>3, ZeroIsRevision DEF Completed, NoPoll
  <2>2. last' \in [id : Accounts, rev : 0..MaxRevision]
    BY <1>3 DEF Completed, HostTypes
  <2>3. refreshing' \in BOOLEAN /\ owed' \in BOOLEAN
    BY <1>3 DEF Completed, HostTypes
  <2> QED BY <1>3, <2>1, <2>2, <2>3 DEF Completed, HostTypes, ServiceTypes, serviceVars
<1>4. CASE LookedUp
  <2>1. poll' \in [step : Steps, id : Accounts, same : BOOLEAN, rev : 0..MaxRevision]
    <3>1. "sending" \in Steps /\ "resolving" \in Steps
      BY DEF Steps
    <3>2. \/ poll' = [poll EXCEPT !.step = "sending"] \/ poll' = [poll EXCEPT !.step = "resolving"]
          \/ Answered(0)
      BY <1>4 DEF LookedUp
    <3> HIDE DEF Steps
    <3> QED BY <3>1, <3>2, PollTypes, AnsweredTypes, ZeroIsRevision
  <2> QED BY <1>4, <2>1 DEF LookedUp, HostTypes, ServiceTypes, serviceVars, requestVars, library
<1>5. CASE TakesReply
  BY <1>5 DEF TakesReply, HostTypes, ServiceTypes, serviceVars, requestVars, library
<1>6. CASE LeavesAttempt
  <2>1. poll' \in [step : Steps, id : Accounts, same : BOOLEAN, rev : 0..MaxRevision]
    <3>1. poll' = [poll EXCEPT !.step = "sending"] \/ Answered(0)
      BY <1>6 DEF LeavesAttempt
    <3>2. "sending" \in Steps
      BY DEF Steps
    <3> HIDE DEF Steps
    <3> QED BY <3>1, <3>2, PollTypes, AnsweredTypes, ZeroIsRevision
  <2> QED BY <1>6, <2>1 DEF LeavesAttempt, HostTypes, ServiceTypes, serviceVars, requestVars, library
<1>7. CASE AnsweredOnline \/ Served(0)
  <2>1. poll' \in [step : Steps, id : Accounts, same : BOOLEAN, rev : 0..MaxRevision]
    <3>1. Answered(revision) \/ Answered(0)
      BY <1>7 DEF AnsweredOnline, Served
    <3>2. revision \in 0..MaxRevision
      BY DEF HostTypes
    <3> QED BY <3>1, <3>2, AnsweredTypes, ZeroIsRevision
  <2> QED BY <1>7, <2>1 DEF AnsweredOnline, Served, HostTypes, ServiceTypes, serviceVars, requestVars, library
<1>8. CASE CallbackStep
  BY <1>8 DEF CallbackStep, HostTypes, ServiceTypes, serviceVars, requestVars, library
<1>9. CASE AsksService
  <2>1. poll' \in [step : Steps, id : Accounts, same : BOOLEAN, rev : 0..MaxRevision]
    BY <1>9, PollTypes, ZeroIsRevision DEF AsksService
  <2> QED BY <1>9, <2>1 DEF AsksService, RequestEnters, HostTypes, ServiceTypes, requestVars, library
<1>10. CASE RequestRuns
  <2>1. poll' \in [step : Steps, id : Accounts, same : BOOLEAN, rev : 0..MaxRevision]
    <3>1. poll' = poll \/ Answered(0)
      BY <1>10 DEF RequestRuns
    <3> QED BY <3>1, AnsweredTypes, ZeroIsRevision DEF HostTypes
  <2>2. ServiceTypes'
    BY <1>10, ServiceStepTypes DEF RequestRuns, ServiceTypes, serviceVars
  <2> QED BY <1>10, <2>1, <2>2 DEF RequestRuns, HostTypes, requestVars, library
<1>11. CASE RequestAnswered
  <2>1. poll' \in [step : Steps, id : Accounts, same : BOOLEAN, rev : 0..MaxRevision]
    <3>1. Answered(revision) \/ Answered(0)
      BY <1>11 DEF RequestAnswered
    <3>2. revision \in 0..MaxRevision
      BY DEF HostTypes
    <3> QED BY <3>1, <3>2, AnsweredTypes, ZeroIsRevision
  <2>2. ServiceTypes'
    BY <1>11, ServiceStepTypes DEF RequestAnswered
  <2> QED BY <1>11, <2>1, <2>2 DEF RequestAnswered, HostTypes, requestVars, library
<1>12. CASE ServiceNotified \/ ServiceSampled \/ ServiceStep
  <2>1. ServiceTypes'
    BY <1>12, ServiceStepTypes DEF ServiceNotified, ServiceSampled, ServiceStep
  <2> QED BY <1>12, <2>1 DEF ServiceNotified, ServiceSampled, ServiceStep, others, monitor, library, HostTypes
<1>13. CASE RefreshRequested
  <2>1. refreshing' \in BOOLEAN /\ pending' \in BOOLEAN /\ scheduled' \in BOOLEAN
    BY <1>13, Zenon DEF RefreshRequested, FlushRefresh
  <2>2. UNCHANGED <<serviceVars, build, viewing, monitor, flushing, captured, revision, events, since, owed>>
    BY <1>13, Zenon DEF RefreshRequested
  <2> QED BY <2>1, <2>2 DEF HostTypes, ServiceTypes, serviceVars, monitor
<1>14. CASE FlushRequested
  <2>1. flushing' \in BOOLEAN /\ scheduled' \in BOOLEAN
    BY <1>14, Zenon DEF FlushRequested, FlushRefresh
  <2>2. UNCHANGED <<serviceVars, build, viewing, monitor, pending, refreshing, captured, revision, events, since, owed>>
    BY <1>14, Zenon DEF FlushRequested
  <2> QED BY <2>1, <2>2 DEF HostTypes, ServiceTypes, serviceVars, monitor
<1>15. CASE Flushes
  <2>1. /\ scheduled' \in BOOLEAN /\ pending' \in BOOLEAN /\ flushing' \in BOOLEAN
        /\ owed' \in BOOLEAN
    BY <1>15, Zenon DEF Flushes, Waits, CaptureFlushes, HostTypes
  <2>2. UNCHANGED <<serviceVars, build, viewing, monitor, refreshing, captured, revision, events, since>>
    BY <1>15, Zenon DEF Flushes
  <2> QED BY <2>1, <2>2 DEF HostTypes, ServiceTypes, serviceVars, monitor
<1>16. CASE Captures
  BY <1>16 DEF Captures, Event, CaptureFlushes, HostTypes, ServiceTypes, serviceVars, monitor
<1>17. CASE AccountViewed
  <2>1. viewing' \in Accounts /\ events' \in 0..MaxEvents /\ owed' \in BOOLEAN
    <3>1. events' \in 0..MaxEvents
      BY <1>17 DEF AccountViewed, Event, HostTypes
    <3>2. viewing' \in Accounts /\ owed' = FALSE
      BY <1>17 DEF AccountViewed
    <3> QED BY <3>1, <3>2
  <2> QED BY <1>17, <2>1 DEF AccountViewed, HostTypes, ServiceTypes, serviceVars, monitor, library
<1>18. CASE UploadCompletes
  BY <1>18 DEF UploadCompletes, HostTypes, ServiceTypes, serviceVars, monitor, library
<1>19. CASE AppEvent \/ ServiceEvent
  <2>1. ServiceTypes'
    BY <1>19, ServiceStepTypes DEF AppEvent, ServiceEvent
  <2> QED BY <1>19, <2>1 DEF AppEvent, ServiceEvent, Event, others, monitor, library, HostTypes
<1>20. CASE UNCHANGED vars
  BY <1>20 DEF vars, serviceVars, monitor, library, HostTypes, ServiceTypes
<1> QED BY <1>1, <1>2, <1>3, <1>4, <1>5, <1>6, <1>7, <1>8, <1>9, <1>10, <1>11, <1>12, <1>13, <1>14,
           <1>15, <1>16, <1>17, <1>18, <1>19, <1>20 DEF Next

LEMMA InitTypes == Init => HostTypes /\ ServiceTypes
<1> SUFFICES ASSUME Init PROVE HostTypes /\ ServiceTypes
  OBVIOUS
<1>1. ServiceTypes
  <2>1. 0 \in 0..CoreLimit
    BY CoreAssumption DEF CoreAssumption
  <2>2. Idle \in [block : Blocks, online : BOOLEAN]
    BY DEF Idle, Blocks
  <2> QED BY <2>1, <2>2 DEF Init, ServiceInit, ServiceTypes
<1>2. revision \in 0..MaxRevision /\ since \in 0..MaxRevision /\ events \in 0..MaxEvents
  BY MonitorAssumption DEF MonitorAssumption, Init
<1>3. /\ poll \in [step : Steps, id : Accounts, same : BOOLEAN, rev : 0..MaxRevision]
      /\ last \in [id : Accounts, rev : 0..MaxRevision]
  BY ZeroIsRevision DEF Init, NoPoll, Nothing, Steps, Accounts
<1> QED BY <1>1, <1>2, <1>3 DEF Init, HostTypes, Accounts

THEOREM TypesHold == Spec => [](HostTypes /\ ServiceTypes)
<1>1. HostTypes /\ ServiceTypes /\ [Next]_vars => (HostTypes /\ ServiceTypes)'
  BY NextTypes
<1> QED BY <1>1, InitTypes, PTL DEF Spec

-----------------------------------------------------------------------------
(* Discovery.  Only the poll in flight calls, from one attempt at a time.    *)

OneCaller ==
    /\ \A a \in Attempts : attempt[a].caller # "gone" => build = "daemon" /\ poll.step = "resolving"
    /\ \A a, b \in Attempts : attempt[a].caller # "gone" /\ attempt[b].caller # "gone" => a = b

Sending == IF build = "daemon" /\ poll.step = "sending" THEN 1 ELSE 0

DiscoveryInv == AttemptTypes /\ AttemptsCounted /\ OneCaller /\ RightsBalanced

LEMMA HeldCounts ==
  /\ IsFiniteSet(Held) /\ Cardinality(Held) \in Nat
  /\ \A a : a \notin Held => Cardinality(Held \cup {a}) = Cardinality(Held) + 1
  /\ \A a : a \in Held => Cardinality(Held \ {a}) = Cardinality(Held) - 1
<1>1. IsFiniteSet(Held)
  BY AttemptsAssumption, FS_Subset DEF AttemptsAssumption, Held
<1> QED BY <1>1, FS_CardinalityType, FS_AddElement, FS_RemoveElement

(* The core queue runs a request for the poll in flight only. *)
RequestForPoll ==
    running.block = "request" => build = "embedded" /\ poll.step = "sending" /\ ready = "yes"

LEMMA RequestForPollPreserved ==
  ASSUME RequestForPoll, OneCaller, HostTypes, ServiceTypes, [Next]_vars
  PROVE  RequestForPoll'
<1> USE DEF RequestForPoll
<1>1. CASE UNCHANGED <<running, build, poll, ready>>
  BY <1>1
<1>2. CASE UNCHANGED <<running, build, ready>> /\ (\E fg \in BOOLEAN : PollsNow(fg))
  <2>1. PICK fg \in BOOLEAN : PollsNow(fg)
    BY <1>2
  <2>2. poll.step = "sending" => poll'.step = "sending"
    BY <2>1 DEF PollsNow, HostTypes
  <2> QED BY <1>2, <2>2
<1>3. CASE Completed \/ LookedUp \/ LeavesAttempt \/ AnsweredOnline \/ Served(0)
  <2>1. poll.step # "sending" \/ build = "daemon"
    BY <1>3 DEF Completed, LookedUp, LeavesAttempt, CallerReleases, AnsweredOnline, Served, OneCaller
  <2>2. running' = running
    BY <1>3 DEF Completed, LookedUp, LeavesAttempt, AnsweredOnline, Served, serviceVars
  <2> QED BY <2>1, <2>2
<1>4. CASE AsksService
  BY <1>4 DEF AsksService
<1>5. CASE RequestRuns
  <2>1. CASE RequestBlock /\ UNCHANGED poll
    BY <1>5, <2>1 DEF RequestRuns, requestVars, RequestBlock
  <2>2. CASE ready = "failed" /\ UNCHANGED serviceVars
    BY <2>2 DEF serviceVars
  <2> QED BY <1>5, <2>1, <2>2 DEF RequestRuns
<1>6. CASE RequestAnswered \/ (ServiceStep /\ UNCHANGED <<build, poll>>)
  <2>1. CASE running' = Idle
    BY <2>1 DEF Idle
  <2>2. CASE Starts /\ UNCHANGED <<build, poll>>
    BY <2>2 DEF Starts, Reads
  <2>3. CASE ConditionsBlock
    <3>1. CASE Reads("conditions")
      BY <3>1 DEF Reads
    <3>2. CASE UNCHANGED running
      BY <2>3, <3>2 DEF ConditionsBlock, Idle
    <3> QED BY <2>3, <3>1, <3>2 DEF ConditionsBlock
  <2> QED BY <1>6, <2>1, <2>2, <2>3 DEF RequestAnswered, ServiceStep, ConditionsTold, Tells
<1>7. CASE UNCHANGED <<running, build, poll>> /\ ready' = IF ready = "unstarted" THEN "starting" ELSE ready
  BY <1>7
<1>8. CASE TimerPolls \/ HostNotified
  <2>1. UNCHANGED <<running, build, ready>>
    BY <1>8 DEF TimerPolls, HostNotified, serviceVars
  <2>2. \E fg \in BOOLEAN : PollsNow(fg)
    BY <1>8 DEF TimerPolls, HostNotified, ServiceTypes
  <2> QED BY <1>2, <2>1, <2>2
<1>9. CASE TakesReply \/ CallbackStep
  BY <1>1, <1>9 DEF TakesReply, CallbackStep, serviceVars, requestVars
<1>10. CASE RefreshRequested \/ FlushRequested \/ Flushes \/ Captures
  <2>1. UNCHANGED <<serviceVars, build, monitor>>
    BY <1>10, Zenon DEF RefreshRequested, FlushRequested, Flushes, Captures
  <2> QED BY <1>1, <2>1 DEF serviceVars, monitor
<1>11. CASE AccountViewed \/ UploadCompletes \/ UNCHANGED vars
  BY <1>1, <1>11 DEF AccountViewed, UploadCompletes, vars, serviceVars, monitor
<1>12. CASE AppEvent \/ ServiceEvent
  <2>1. UNCHANGED <<build, poll>>
    BY <1>12 DEF AppEvent, ServiceEvent, others, monitor
  <2>2. CASE PanelRequests
    BY <1>7, <2>1, <2>2 DEF PanelRequests, RequestEnters
  <2> QED BY <1>1, <1>12, <2>1, <2>2 DEF AppEvent, ServiceEvent, AppMoves, PathChanges, EngineFails
<1>13. CASE ServiceNotified \/ ServiceSampled
  <2>1. UNCHANGED <<build, poll>>
    BY <1>13 DEF ServiceNotified, ServiceSampled, others, monitor
  <2>2. UNCHANGED <<running, ready>>
    BY <1>13, Zenon DEF ServiceNotified, ServiceSampled, Notified, SampledForRequest
  <2> QED BY <1>1, <2>1, <2>2
<1>14. CASE ServiceStep /\ UNCHANGED <<events, others>>
  BY <1>6, <1>14 DEF others, monitor
<1> QED BY <1>3, <1>4, <1>5, <1>6, <1>8, <1>9, <1>10, <1>11, <1>12, <1>13, <1>14
        DEF Next, ServiceStep

(* The poll moves without an attempt, from a step that waits for none. *)
LEMMA PollMoves ==
  ASSUME DiscoveryInv, UNCHANGED <<discoveryVars, build>>, poll.step # "resolving",
         build = "daemon" => (poll.step = "sending" <=> poll'.step = "sending")
  PROVE  DiscoveryInv'
BY DEF DiscoveryInv, AttemptTypes, AttemptsCounted, OneCaller, RightsBalanced, discoveryVars, Held

LEMMA DiscoveryPreserved ==
  ASSUME DiscoveryInv, RequestForPoll, HostTypes, ServiceTypes, [Next]_vars
  PROVE  DiscoveryInv'
<1> USE DEF AttemptTypes
<1>0. /\ AttemptTypes /\ AttemptsCounted /\ OneCaller /\ RightsBalanced
      /\ rights \in Int /\ attempt \in [Attempts -> Attempt]
  BY DEF DiscoveryInv
<1>1. CASE UNCHANGED <<discoveryVars, build, poll>>
  BY <1>1 DEF DiscoveryInv, AttemptsCounted, OneCaller, RightsBalanced, discoveryVars, Held
<1>2. CASE UNCHANGED <<discoveryVars, build>> /\ (\E fg \in BOOLEAN : PollsNow(fg))
  <2>1. PICK fg \in BOOLEAN : PollsNow(fg)
    BY <1>2
  <2>2. \/ poll.step = "none" /\ poll'.step = "asking"
        \/ poll'.step = poll.step
    BY <2>1 DEF PollsNow, HostTypes
  <2> QED BY <1>0, <1>2, <2>2 DEF DiscoveryInv, AttemptsCounted, OneCaller, RightsBalanced, discoveryVars, Held
<1>3. CASE Completed
  BY <1>3, PollMoves DEF Completed, NoPoll
<1>4. CASE LookedUp
  <2>0. build = "daemon" /\ poll.step = "asking" /\ build' = build
    BY <1>4 DEF LookedUp, requestVars
  <2>1. \A a \in Attempts : attempt[a].caller = "gone"
    BY <1>0, <2>0 DEF OneCaller
  <2>2. CASE rights' = rights + 1 /\ poll' = [poll EXCEPT !.step = "sending"] /\ UNCHANGED attempt
    <3>1. poll'.step = "sending"
      BY <2>2 DEF HostTypes
    <3> QED BY <1>0, <2>0, <2>1, <2>2, <3>1, HeldCounts
            DEF DiscoveryInv, AttemptsCounted, OneCaller, RightsBalanced, Held
  <2>3. CASE Answered(0) /\ UNCHANGED discoveryVars
    <3>1. poll'.step = "answered"
      BY <2>3 DEF HostTypes, Answered
    <3> QED BY <2>0, <2>3, <3>1, PollMoves
  <2>4. CASE (\E a \in Attempts : Resolve(a)) /\ poll' = [poll EXCEPT !.step = "resolving"]
    <3>1. PICK a \in Attempts : Resolve(a)
      BY <2>4
    <3>2. poll'.step = "resolving"
      BY <2>4 DEF HostTypes
    <3>3. AttemptsCounted' /\ attempt' \in [Attempts -> Attempt]
      BY <1>0, <3>1, AttemptStep
    <3>4. /\ Held' = Held /\ rights' = rights
          /\ \A b \in Attempts \ {a} : attempt'[b] = attempt[b]
      BY <1>0, <3>1, ResolveEffect
    <3>5. OneCaller'
      BY <2>0, <2>1, <3>2, <3>4 DEF OneCaller
    <3>6. RightsBalanced'
      BY <1>0, <2>0, <3>2, <3>4 DEF RightsBalanced
    <3> QED BY <1>0, <3>3, <3>4, <3>5, <3>6 DEF DiscoveryInv
  <2> QED BY <1>4, <2>2, <2>3, <2>4 DEF LookedUp
<1>5. CASE TakesReply
  <2>1. PICK a \in Attempts : Take(a)
    BY <1>5 DEF TakesReply
  <2>2. AttemptsCounted' /\ attempt' \in [Attempts -> Attempt]
    BY <1>0, <2>1, AttemptStep
  <2>3. /\ Held' = Held /\ rights' = rights
        /\ attempt[a].caller # "gone" /\ attempt'[a].caller # "gone"
        /\ \A b \in Attempts \ {a} : attempt'[b] = attempt[b]
    BY <1>0, <2>1, TakeEffect
  <2>4. UNCHANGED <<poll, build>>
    BY <1>5 DEF TakesReply, requestVars
  <2>5. OneCaller'
    BY <1>0, <2>3, <2>4 DEF OneCaller
  <2>6. RightsBalanced'
    BY <1>0, <2>3, <2>4 DEF RightsBalanced
  <2> QED BY <1>0, <2>2, <2>3, <2>5, <2>6 DEF DiscoveryInv
<1>6. CASE LeavesAttempt
  <2>1. PICK a \in Attempts :
          /\ CallerReleases(a)
          /\ IF attempt[a].caller = "took" THEN poll' = [poll EXCEPT !.step = "sending"] ELSE Answered(0)
    BY <1>6 DEF LeavesAttempt
  <2>2. AttemptsCounted' /\ attempt' \in [Attempts -> Attempt]
    BY <1>0, <2>1, AttemptStep
  <2>3. /\ Held' = Held \ {a} /\ rights' = rights
        /\ a \in Held <=> attempt[a].caller = "took"
        /\ attempt[a].caller # "gone" /\ attempt'[a].caller = "gone"
        /\ \A b \in Attempts \ {a} : attempt'[b] = attempt[b]
    BY <1>0, <2>1, CallerReleasesEffect
  <2>4. build' = build /\ build = "daemon" /\ poll.step = "resolving"
    BY <1>0, <1>6, <2>3 DEF LeavesAttempt, requestVars, OneCaller
  <2>5. OneCaller'
    BY <1>0, <2>3 DEF OneCaller
  <2>6. RightsBalanced'
    <3>1. CASE attempt[a].caller = "took"
      <4>1. poll'.step = "sending"
        BY <2>1, <3>1 DEF HostTypes
      <4> QED BY <1>0, <2>3, <2>4, <3>1, <4>1, HeldCounts DEF RightsBalanced
    <3>2. CASE attempt[a].caller # "took"
      <4>1. poll'.step = "answered"
        BY <2>1, <3>2 DEF HostTypes, Answered
      <4>2. Held' = Held
        BY <2>3, <3>2
      <4> QED BY <1>0, <2>3, <2>4, <4>1, <4>2 DEF RightsBalanced
    <3> QED BY <3>1, <3>2
  <2> QED BY <1>0, <2>2, <2>3, <2>5, <2>6 DEF DiscoveryInv
<1>7. CASE \E rev : Served(rev)
  <2>1. /\ build = "daemon" /\ poll.step = "sending" /\ build' = build
        /\ poll'.step = "answered" /\ rights' = rights - 1 /\ UNCHANGED attempt
    BY <1>7 DEF Served, requestVars, Answered, HostTypes
  <2> QED BY <1>0, <2>1, HeldCounts DEF DiscoveryInv, AttemptsCounted, OneCaller, RightsBalanced, Held
<1>8. CASE CallbackStep
  <2>1. UNCHANGED <<poll, build>>
    BY <1>8 DEF CallbackStep, requestVars
  <2>2. PICK a \in Attempts : Reply(a) \/ CallbackReleases(a)
    BY <1>8 DEF CallbackStep, DiscoveryStep
  <2>3. AttemptsCounted' /\ attempt' \in [Attempts -> Attempt]
    BY <1>0, <2>2, AttemptStep
  <2>4. /\ \/ Held' = Held /\ rights' = rights
           \/ a \notin Held /\ Held' = Held \cup {a} /\ rights' = rights + 1
        /\ \A b \in Attempts : attempt'[b].caller = attempt[b].caller
    BY <1>0, <2>2, ReplyEffect, CallbackReleasesEffect
  <2>5. OneCaller'
    BY <1>0, <2>1, <2>4 DEF OneCaller
  <2>6. RightsBalanced'
    BY <1>0, <2>1, <2>4, HeldCounts DEF RightsBalanced
  <2> QED BY <1>0, <2>3, <2>4, <2>5, <2>6 DEF DiscoveryInv
<1>9. CASE AsksService
  <2>1. UNCHANGED <<discoveryVars, build>> /\ build = "embedded" /\ poll.step = "asking"
    BY <1>9 DEF AsksService, requestVars
  <2> QED BY <2>1, PollMoves
<1>10. CASE RequestRuns \/ RequestAnswered
  <2>1. UNCHANGED <<discoveryVars, build>>
    BY <1>10 DEF RequestRuns, RequestAnswered, requestVars
  <2>2. build = "embedded" /\ poll.step = "sending"
    BY <1>10 DEF RequestRuns, RequestAnswered, RequestForPoll
  <2> QED BY <2>1, <2>2, PollMoves
<1>11. CASE TimerPolls \/ HostNotified
  <2>1. UNCHANGED <<discoveryVars, build>>
    BY <1>11 DEF TimerPolls, HostNotified
  <2>2. \E fg \in BOOLEAN : PollsNow(fg)
    BY <1>11 DEF TimerPolls, HostNotified, ServiceTypes
  <2> QED BY <1>2, <2>1, <2>2
<1>12. CASE RefreshRequested \/ FlushRequested \/ Flushes \/ Captures
  <2>1. UNCHANGED <<discoveryVars, build, monitor>>
    BY <1>12, Zenon DEF RefreshRequested, FlushRequested, Flushes, Captures
  <2> QED BY <1>1, <2>1 DEF monitor
<1>13. CASE AccountViewed \/ UploadCompletes \/ AppEvent \/ ServiceEvent \/ ServiceNotified
            \/ ServiceSampled \/ ServiceStep \/ UNCHANGED vars
  BY <1>1, <1>13 DEF AccountViewed, UploadCompletes, AppEvent, ServiceEvent, ServiceNotified,
                     ServiceSampled, ServiceStep, others, vars, monitor
<1> QED BY <1>3, <1>4, <1>5, <1>6, <1>7, <1>8, <1>9, <1>10, <1>11, <1>12, <1>13 DEF Next, AnsweredOnline

LEMMA InitDiscovery == Init => DiscoveryInv /\ RequestForPoll
<1> SUFFICES ASSUME Init PROVE DiscoveryInv /\ RequestForPoll
  OBVIOUS
<1>1. AttemptTypes /\ AttemptsCounted
  BY UnusedIsCounted DEF Init, DiscoveryInit, AttemptTypes, AttemptsCounted
<1>2. OneCaller
  BY DEF Init, DiscoveryInit, OneCaller, Unused
<1>3. RightsBalanced
  <2>1. Held = {}
    BY DEF Init, DiscoveryInit, Held, Unused
  <2> QED BY <2>1, FS_EmptySet DEF Init, DiscoveryInit, RightsBalanced, NoPoll
<1>4. RequestForPoll
  BY DEF Init, ServiceInit, Idle, RequestForPoll
<1> QED BY <1>1, <1>2, <1>3, <1>4 DEF DiscoveryInv

LEMMA DiscoveryHolds == Spec => [](DiscoveryInv /\ RequestForPoll)
<1>1. DiscoveryInv /\ RequestForPoll /\ HostTypes /\ ServiceTypes /\ [Next]_vars
        => (DiscoveryInv /\ RequestForPoll)'
  BY DiscoveryPreserved, RequestForPollPreserved DEF DiscoveryInv
<1> QED BY <1>1, InitDiscovery, TypesHold, PTL DEF Spec

(* An attempt is freed when its caller and its callback are both through      *)
(* with it, and not before: the last of the two frees it, however the reply,  *)
(* the time-out and the two releases interleave.                              *)
THEOREM AttemptsAreFreedOnce == Spec => []NoUseAfterFree
<1>1. DiscoveryInv => NoUseAfterFree
  BY DEF DiscoveryInv, AttemptTypes, AttemptsCounted, Counted, NoUseAfterFree, Attempt
<1> QED BY <1>1, DiscoveryHolds, PTL

(* Every send right that the process holds is on its way to the request in    *)
(* flight or belongs to it.                                                   *)
THEOREM RightsAreBalanced == Spec => []RightsBalanced
<1>1. DiscoveryInv => RightsBalanced
  BY DEF DiscoveryInv
<1> QED BY <1>1, DiscoveryHolds, PTL

(* Every variable has its type, and no right is given back that is not held.  *)
THEOREM MonitorIsTyped == Spec => []MonitorTypeOK
<1>1. DiscoveryInv => rights \in Nat
  BY HeldCounts DEF DiscoveryInv, RightsBalanced
<1>2. DiscoveryInv /\ HostTypes /\ ServiceTypes => MonitorTypeOK
  BY <1>1 DEF DiscoveryInv, AttemptTypes, HostTypes, ServiceTypes, MonitorTypeOK, Accounts
<1> QED BY <1>2, DiscoveryHolds, TypesHold, PTL

-----------------------------------------------------------------------------
(* The service.  A record that changes while the engine is told leaves a     *)
(* block behind it, so the last one to run reads the last record.            *)

CoreInv ==
    ready = "yes" =>
        \/ core > 0
        \/ running # Idle /\ running.online = Permitted
        \/ running = Idle /\ (accepted => online = Permitted)

LEMMA ConditionsRead ==
  ASSUME NEW b, b # "none", Reads(b), UNCHANGED recorded
  PROVE  running' # Idle /\ running'.online = Permitted'
<1>1. running'.block = b /\ running'.online = Permitted /\ Idle.block = "none"
  BY DEF Reads, Idle
<1>2. Permitted' = Permitted
  BY DEF Permitted
<1> QED BY <1>1, <1>2

LEMMA CorePreserved ==
  ASSUME CoreInv, ServiceTypes, [Next]_vars
  PROVE  CoreInv'
<1>1. CASE UNCHANGED <<recorded, accepted, running, online>> /\ core' = core /\ (ready' = "yes" => ready = "yes")
  BY <1>1 DEF CoreInv, Permitted
<1>2. CASE core' = core + 1
  BY <1>2, CoreAssumption DEF CoreInv, ServiceTypes, CoreAssumption
<1>3. CASE Starts
  <2>1. CASE ready' = "yes" /\ Reads("conditions")
    BY <1>3, <2>1, ConditionsRead DEF Starts, CoreInv
  <2>2. CASE ready' = "failed"
    BY <2>2 DEF CoreInv
  <2> QED BY <1>3, <2>1, <2>2 DEF Starts
<1>4. CASE ConditionsBlock
  <2>1. CASE ready = "yes"
    BY <1>4, <2>1, ConditionsRead DEF ConditionsBlock, CoreInv
  <2>2. CASE ready # "yes"
    BY <1>4, <2>2 DEF ConditionsBlock, CoreInv
  <2> QED BY <2>1, <2>2
<1>5. CASE RequestBlock
  BY <1>5, ConditionsRead DEF RequestBlock, CoreInv
<1>6. CASE Tells /\ running # Idle
  <2>1. /\ UNCHANGED <<recorded, ready, core>> /\ running' = Idle /\ accepted' = ~fault
        /\ online' = IF fault THEN online ELSE running.online
    BY <1>6 DEF Tells
  <2>2. Permitted' = Permitted
    BY <2>1 DEF Permitted
  <2>3. ready' = "yes" => core' > 0 \/ running.online = Permitted
    BY <1>6, <2>1 DEF CoreInv
  <2>4. CASE fault
    BY <2>1, <2>4 DEF CoreInv
  <2>5. CASE ~fault
    BY <2>1, <2>2, <2>3, <2>5 DEF CoreInv
  <2> QED BY <2>4, <2>5
<1>7. CASE AsksService \/ ServiceEvent
  <2>1. CASE RequestEnters /\ UNCHANGED <<recorded, accepted, running, online, core>>
    BY <1>1, <2>1 DEF RequestEnters
  <2>2. CASE EngineFails
    BY <1>1, <2>2 DEF EngineFails
  <2> QED BY <1>2, <1>7, <2>1, <2>2 DEF AsksService, ServiceEvent, PathChanges, PanelRequests, Dispatched
<1>8. CASE RequestRuns
  BY <1>1, <1>5, <1>8 DEF RequestRuns, serviceVars
<1>9. CASE RequestAnswered \/ ServiceStep
  <2>1. running.block \in {"request", "conditions"} => running # Idle
    BY DEF Idle
  <2> QED BY <1>3, <1>4, <1>6, <1>9, <2>1 DEF RequestAnswered, ServiceStep, ConditionsTold
<1>10. CASE ServiceNotified \/ ServiceSampled
  <2>1. core' = core + 1
    BY <1>10, Zenon DEF ServiceNotified, ServiceSampled, Notified, SampledForRequest,
                        SampleApplication, Dispatched
  <2> QED BY <1>2, <2>1
<1>11. CASE AppEvent
  BY <1>1, <1>11 DEF AppEvent, AppMoves
<1>12. CASE UNCHANGED serviceVars
  BY <1>1, <1>12 DEF serviceVars
<1>13. CASE RefreshRequested \/ FlushRequested \/ Flushes \/ Captures
  BY <1>12, <1>13, Zenon DEF RefreshRequested, FlushRequested, Flushes, Captures
<1>14. CASE \/ TimerPolls \/ HostNotified \/ Completed \/ LookedUp \/ TakesReply \/ LeavesAttempt
            \/ AnsweredOnline \/ Served(0) \/ CallbackStep \/ AccountViewed \/ UploadCompletes
            \/ UNCHANGED vars
  BY <1>12, <1>14 DEF TimerPolls, HostNotified, Completed, LookedUp, TakesReply, LeavesAttempt,
                      AnsweredOnline, Served, CallbackStep, AccountViewed, UploadCompletes, vars
<1> QED BY <1>7, <1>8, <1>9, <1>10, <1>11, <1>13, <1>14 DEF Next

(* An engine that accepted the conditions goes by what is recorded when the   *)
(* core queue is quiet.                                                       *)
THEOREM QuietServiceIsCurrent == Spec => []QuietMeansCurrent
<1>1. Init => CoreInv
  BY DEF Init, ServiceInit, CoreInv
<1>2. CoreInv /\ ServiceTypes /\ [Next]_vars => CoreInv'
  BY CorePreserved
<1>3. CoreInv => QuietMeansCurrent
  BY DEF CoreInv, QuietMeansCurrent
<1> QED BY <1>1, <1>2, <1>3, TypesHold, PTL DEF Spec

-----------------------------------------------------------------------------
(* The monitor. *)

RefreshInv == owed => viewing = last.id /\ (refreshing \/ pending)

LEMMA RefreshPreserved ==
  ASSUME RefreshInv, HostTypes, [Next]_vars
  PROVE  RefreshInv'
<1>1. CASE UNCHANGED <<viewing, last, refreshing, pending, owed>>
  BY <1>1, Zenon DEF RefreshInv
<1>2. CASE HostNotified
  <2>1. UNCHANGED <<viewing, library>> /\ owed' = (owed /\ active = foreground)
    BY <1>2 DEF HostNotified
  <2>2. active = foreground => last' = last
    BY <1>2 DEF HostNotified
  <2> QED BY <2>1, <2>2, Zenon DEF RefreshInv, library
<1>3. CASE Completed
  <2>1. UNCHANGED <<viewing, pending>>
    BY <1>3 DEF Completed
  <2>2. CASE Acknowledges
    <3>1. last'.id = poll.id /\ refreshing' = TRUE
      BY <1>3, <2>2 DEF Completed
    <3>2. viewing = poll.id
      BY <2>2 DEF Acknowledges, Belongs
    <3> QED BY <2>1, <3>1, <3>2, Zenon DEF RefreshInv
  <2>3. CASE ~Acknowledges
    BY <1>1, <1>3, <2>1, <2>3, Zenon DEF Completed
  <2> QED BY <2>2, <2>3
<1>4. CASE RefreshRequested \/ Flushes
  <2>1. UNCHANGED <<viewing, last>>
    BY <1>4, Zenon DEF RefreshRequested, Flushes, monitor
  <2>2. CASE RefreshRequested
    BY <2>1, <2>2, Zenon DEF RefreshRequested, RefreshInv
  <2>3. CASE Flushes /\ UNCHANGED <<pending, owed>>
    BY <1>1, <2>1, <2>3, Zenon DEF Flushes
  <2>4. CASE owed' = (owed /\ viewing # last.id)
    BY <2>1, <2>4, Zenon DEF RefreshInv
  <2> QED BY <1>4, <2>2, <2>3, <2>4, Zenon DEF Flushes, Waits
<1>5. CASE AccountViewed
  BY <1>5 DEF AccountViewed, RefreshInv
<1>6. CASE \/ TimerPolls \/ LookedUp \/ TakesReply \/ LeavesAttempt
           \/ AnsweredOnline \/ Served(0) \/ CallbackStep \/ AsksService \/ RequestRuns \/ RequestAnswered
           \/ UploadCompletes
  <2>1. UNCHANGED <<viewing, last, library, owed>>
    BY <1>6, Zenon DEF TimerPolls, LookedUp, TakesReply, LeavesAttempt, AnsweredOnline, Served, CallbackStep,
       AsksService, RequestRuns, RequestAnswered, UploadCompletes, requestVars, monitor
  <2> QED BY <1>1, <2>1 DEF library
<1>7. CASE AppEvent \/ ServiceEvent \/ ServiceNotified \/ ServiceSampled \/ ServiceStep \/ UNCHANGED vars
  BY <1>1, <1>7 DEF AppEvent, ServiceEvent, ServiceNotified, ServiceSampled, ServiceStep, others, vars,
                    monitor, library
<1>8. CASE FlushRequested \/ Captures
  <2>1. UNCHANGED <<viewing, monitor, pending, refreshing, owed>>
    BY <1>8, Zenon DEF FlushRequested, Captures
  <2> QED BY <1>1, <2>1 DEF monitor
<1> QED BY <1>2, <1>3, <1>4, <1>5, <1>6, <1>7, <1>8 DEF Next

(* An acknowledged completion of the account viewed has a refresh under way   *)
(* until the account has been fetched, as long as the session lasts.          *)
THEOREM AcknowledgedStaysPending == Spec => []AcknowledgedIsPending
<1>1. Init => RefreshInv
  BY DEF Init, RefreshInv
<1>2. RefreshInv /\ HostTypes /\ [Next]_vars => RefreshInv'
  BY RefreshPreserved
<1>3. RefreshInv => AcknowledgedIsPending
  BY DEF RefreshInv, AcknowledgedIsPending
<1> QED BY <1>1, <1>2, <1>3, TypesHold, PTL DEF Spec

(* An answer of this session is not older than the session: the epoch that    *)
(* the poll holds is lost when the app leaves the foreground or reaches it.   *)
SessionInv ==
    /\ revision >= since
    /\ NotBehindSession
    /\ poll.step = "answered" /\ poll.same /\ poll.rev # 0 => poll.rev >= since

LEMMA AnswerIsOfSession ==
  ASSUME SessionInv, HostTypes, NEW rev, rev = revision \/ rev = 0, Answered(rev),
         UNCHANGED <<last, revision, since>>
  PROVE  SessionInv'
<1>1. poll'.rev = rev
  BY DEF Answered, HostTypes
<1> QED BY <1>1 DEF SessionInv, NotBehindSession

LEMMA SessionPreserved ==
  ASSUME SessionInv, HostTypes, ServiceTypes, [Next]_vars
  PROVE  SessionInv'
<1>1. CASE UNCHANGED <<last, revision, since>> /\ (poll' = poll \/ poll'.step # "answered")
  BY <1>1 DEF SessionInv, NotBehindSession
<1>2. CASE TimerPolls
  <2>1. UNCHANGED <<last, revision, since>> /\ poll'.step = "asking"
    BY <1>2 DEF TimerPolls, PollsNow
  <2> QED BY <1>1, <2>1
<1>3. CASE HostNotified
  <2>1. UNCHANGED revision /\ PollsNow(active)
    BY <1>3 DEF HostNotified
  <2>2. /\ poll'.rev = poll.rev \/ poll'.step = "asking"
        /\ poll'.step = "answered" => poll.step = "answered" /\ poll'.rev = poll.rev
             /\ (poll'.same => poll.same /\ active = foreground)
    <3>1. CASE active /\ poll.step = "none" /\ viewing # NoIdentity
      BY <2>1, <3>1 DEF PollsNow
    <3>2. CASE ~(active /\ poll.step = "none" /\ viewing # NoIdentity)
      <4> DEFINE b == poll.same /\ (active = foreground \/ poll.step = "none")
      <4>1. poll' = [poll EXCEPT !.same = b]
        BY <2>1, <3>2 DEF PollsNow
      <4>2. poll'.rev = poll.rev /\ poll'.step = poll.step /\ poll'.same = b
        <5> HIDE DEF b
        <5> QED BY <4>1 DEF HostTypes
      <4> QED BY <4>2
    <3> QED BY <3>1, <3>2
  <2>3. CASE active = foreground
    BY <1>3, <2>1, <2>2, <2>3 DEF HostNotified, SessionInv, NotBehindSession
  <2>4. CASE active # foreground
    <3>1. last' = Nothing /\ since' = revision
      BY <1>3, <2>4 DEF HostNotified, NewSession
    <3> QED BY <2>1, <2>2, <2>4, <3>1 DEF SessionInv, NotBehindSession, HostTypes
  <2> QED BY <2>3, <2>4
<1>4. CASE Completed
  <2>1. UNCHANGED <<revision, since>> /\ poll'.step = "none"
    BY <1>4 DEF Completed, NoPoll
  <2>2. CASE Acknowledges
    <3>1. last'.rev = poll.rev /\ poll.rev >= since
      BY <1>4, <2>2 DEF Completed, Acknowledges, Belongs, SessionInv
    <3> QED BY <2>1, <3>1 DEF SessionInv, NotBehindSession
  <2>3. CASE ~Acknowledges
    BY <1>1, <1>4, <2>1, <2>3 DEF Completed
  <2> QED BY <2>2, <2>3
<1>5. CASE LookedUp
  <2>1. UNCHANGED <<last, revision, since>>
    BY <1>5 DEF LookedUp, requestVars
  <2>2. CASE Answered(0)
    BY <2>1, <2>2, AnswerIsOfSession
  <2>3. CASE poll' = [poll EXCEPT !.step = "sending"] \/ poll' = [poll EXCEPT !.step = "resolving"]
    BY <1>1, <2>1, <2>3 DEF HostTypes
  <2> QED BY <1>5, <2>2, <2>3 DEF LookedUp
<1>6. CASE LeavesAttempt
  <2>1. UNCHANGED <<last, revision, since>>
    BY <1>6 DEF LeavesAttempt, requestVars
  <2>2. CASE Answered(0)
    BY <2>1, <2>2, AnswerIsOfSession
  <2>3. CASE poll' = [poll EXCEPT !.step = "sending"]
    BY <1>1, <2>1, <2>3 DEF HostTypes
  <2> QED BY <1>6, <2>2, <2>3 DEF LeavesAttempt
<1>7. CASE AnsweredOnline \/ Served(0) \/ RequestAnswered
  <2>1. UNCHANGED <<last, revision, since>>
    BY <1>7 DEF AnsweredOnline, Served, RequestAnswered, requestVars
  <2>2. Answered(revision) \/ Answered(0)
    BY <1>7 DEF AnsweredOnline, Served, RequestAnswered
  <2> QED BY <2>1, <2>2, AnswerIsOfSession
<1>8. CASE AsksService
  BY <1>1, <1>8 DEF AsksService, requestVars, HostTypes
<1>9. CASE RequestRuns
  <2>1. UNCHANGED <<last, revision, since>>
    BY <1>9 DEF RequestRuns, requestVars
  <2> QED BY <1>1, <1>9, <2>1, AnswerIsOfSession DEF RequestRuns
<1>10. CASE TakesReply \/ CallbackStep \/ AccountViewed \/ AppEvent \/ ServiceEvent
            \/ ServiceNotified \/ ServiceSampled \/ ServiceStep \/ UNCHANGED vars
  BY <1>1, <1>10 DEF TakesReply, CallbackStep, AccountViewed, AppEvent, ServiceEvent, ServiceNotified,
                     ServiceSampled, ServiceStep, others, vars, monitor, requestVars
<1>11. CASE RefreshRequested \/ FlushRequested \/ Flushes \/ Captures
  <2>1. UNCHANGED <<monitor, revision, since>>
    BY <1>11, Zenon DEF RefreshRequested, FlushRequested, Flushes, Captures
  <2> QED BY <1>1, <2>1 DEF monitor
<1>12. CASE UploadCompletes
  <2>1. UNCHANGED <<monitor, since>> /\ revision' = revision + 1
    BY <1>12 DEF UploadCompletes
  <2> QED BY <2>1 DEF monitor, SessionInv, NotBehindSession, HostTypes
<1> QED BY <1>2, <1>3, <1>4, <1>5, <1>6, <1>7, <1>8, <1>9, <1>10, <1>11, <1>12 DEF Next

(* What is acknowledged in a session is no answer from an earlier one.        *)
THEOREM SessionsAreKeptApart == Spec => []NotBehindSession
<1>1. Init => SessionInv
  BY MonitorAssumption DEF MonitorAssumption, Init, SessionInv, NotBehindSession, NoPoll
<1>2. SessionInv /\ HostTypes /\ ServiceTypes /\ [Next]_vars => SessionInv'
  BY SessionPreserved
<1>3. SessionInv => NotBehindSession
  BY DEF SessionInv
<1> QED BY <1>1, <1>2, <1>3, TypesHold, PTL DEF Spec
=============================================================================
