---------------------------- MODULE NativeRelay ----------------------------
(***************************************************************************)
(* Authorization of the daemon by Google Photos: the host asks its own     *)
(* sign-on (SSO) for a bearer and sends it to the daemon, to connect an    *)
(* account (GSAccountConnection.m, the settings panel) or to renew the     *)
(* bearer (GSNativeRelay.m), composed with the daemon's AccountStore.      *)
(*                                                                         *)
(* Blocks on the main queue are one action each.  One task at a time runs  *)
(* on the serial relay queue; each request and wait of it is an action.    *)
(* Requests reach the daemon through a Mach port, in order; a request may  *)
(* time out at the host and be executed all the same (IPCClient.m).        *)
(*                                                                         *)
(* External: SSO, which answers an authorizer with a bearer of the account *)
(* it was made for, with an error, late or never; and the signed-in        *)
(* identity, which changes at any time.                                    *)
(***************************************************************************)
EXTENDS AccountStore

CONSTANTS
    PortLimit,    \* messages the port holds
    MaxRestarts,  \* bound: restarts of host and daemon
    PanelUsed     \* bound: whether the user may ask for a connection

ASSUME RelayAssumption ==
    PortLimit \in Nat \ {0} /\ MaxRestarts \in Nat /\ PanelUsed \in BOOLEAN

VARIABLES
    viewing,      \* identity signed in, NoIdentity if none is valid
    calls,        \* connections that wait to enter the relay queue, on other threads
    lane,         \* tasks on the relay queue, the first of which runs
    step,         \* next step of the running task
    bearer,       \* owner of the bearer it has been given
    answer,       \* answer to its request: "none", "ok", "other" or "failed"
    port,         \* the daemon's messages
    connecting, connected, connectionID,  \* GSConnecting, GSConnected, GSConnectionID
    attempt,      \* a connection's success, on its way to the main queue
    refreshing,   \* refreshing: "no", "yes", or "over" on its way to the main queue
    validated,    \* history: identities account_native has bound
    restarts

task == <<lane, step, bearer, answer>>
connection == <<connecting, connected, connectionID, attempt>>
host == <<viewing, calls, task, connection, refreshing>>
vars == <<daemon, host, port, validated, restarts>>

Callers == {"connection", "panel", "timer"}
Operations == {"accounts", "account_native", "native_bearer", "native_bearer_clear"}
Waiting == {"asked", "sent", "cleared"}

Init ==
    /\ StoreInit
    /\ viewing \in Identities \cup {NoIdentity}
    /\ calls = {} /\ lane = <<>>
    /\ step = "idle" /\ bearer = NoIdentity /\ answer = "none"
    /\ port = <<>>
    /\ connecting = FALSE /\ connected = FALSE /\ connectionID = NoIdentity
    /\ attempt = "none" /\ refreshing = "no"
    /\ validated = {} /\ restarts = 0

Task(who, id) == [who |-> who, id |-> id]
Pending(who) ==
    \/ \E call \in calls : call.who = who
    \/ \E i \in DOMAIN lane : lane[i].who = who
Goto(next) == step' = next

-----------------------------------------------------------------------------
(* Main queue: timers, notifications and the panel.                        *)

AccountChanges ==
    /\ viewing' \in Identities \cup {NoIdentity}
    /\ UNCHANGED <<daemon, calls, task, connection, refreshing, port, validated, restarts>>

(* GSRefreshDaemonAccount: one refresh is in flight at most. *)
Refresh ==
    IF refreshing = "no"
    THEN refreshing' = "yes" /\ lane' = Append(lane, Task("timer", NoIdentity))
    ELSE UNCHANGED <<refreshing, lane>>

RefreshTick ==
    /\ refreshing = "no"
    /\ Refresh
    /\ UNCHANGED <<daemon, viewing, calls, step, bearer, answer, connection, port,
                   validated, restarts>>

MayConnect == ~connecting

(* GSConnectAvailableAccount without an identity. *)
LoseAccount ==
    /\ MayConnect /\ viewing = NoIdentity
    /\ IF connectionID # NoIdentity THEN Refresh ELSE UNCHANGED <<refreshing, lane>>
    /\ connectionID' = NoIdentity /\ connected' = FALSE
    /\ UNCHANGED <<daemon, viewing, calls, step, bearer, answer, connecting, attempt,
                   port, validated, restarts>>

(* With one: it has changed, or the last attempt, 5 or 60 seconds ago, has *)
(* failed, or the application has come to the foreground.                  *)
Connect(foreground) ==
    /\ MayConnect /\ viewing # NoIdentity
    /\ viewing # connectionID \/ foreground \/ ~connected
    /\ connectionID' = viewing /\ connecting' = TRUE /\ connected' = FALSE
    /\ calls' = calls \cup {Task("connection", viewing)}
    /\ UNCHANGED <<daemon, viewing, task, attempt, refreshing, port, validated, restarts>>

(* "Reconnect" of the panel, which is busy until it has been answered. *)
Reconnect ==
    /\ PanelUsed /\ viewing # NoIdentity /\ ~Pending("panel")
    /\ calls' = calls \cup {Task("panel", viewing)}
    /\ UNCHANGED <<daemon, viewing, task, connection, refreshing, port, validated, restarts>>

(* Mutant: success is reported though the account has changed meanwhile. *)
StillViewing_Unchecked == TRUE

StillViewing == viewing = connectionID

(* The block that ends a connection; its identity is still connectionID. *)
ConnectEnds ==
    /\ attempt # "none" /\ attempt' = "none"
    /\ connecting' = FALSE
    /\ connected' = (StillViewing /\ attempt = "ok")
    /\ connectionID' = IF StillViewing THEN connectionID ELSE NoIdentity
    /\ UNCHANGED <<daemon, viewing, calls, task, refreshing, port, validated, restarts>>

(* Mutant: refreshing is not reset. *)
RefreshEnds_Forgotten == FALSE

RefreshEnds ==
    /\ refreshing = "over" /\ refreshing' = "no"
    /\ UNCHANGED <<daemon, viewing, calls, task, connection, port, validated, restarts>>

-----------------------------------------------------------------------------
(* The running task.                                                       *)

elsewhere == <<daemon, viewing, calls, connection, refreshing, validated, restarts>>

(* GSConnectDaemonAccount, on a concurrent queue: dispatch_sync. *)
Call(who) ==
    /\ \E call \in calls : /\ call.who = who
                          /\ calls' = calls \ {call} /\ lane' = Append(lane, call)
    /\ UNCHANGED <<daemon, viewing, step, bearer, answer, connection, refreshing, port,
                   validated, restarts>>

Take ==
    /\ lane # <<>> /\ step = "idle"
    /\ Goto(IF Head(lane).who = "timer" THEN "reading" ELSE "fetching")
    /\ UNCHANGED <<elsewhere, lane, bearer, answer, port>>

ReadAccount ==
    /\ step = "reading" /\ Goto("asking")
    /\ lane' = [lane EXCEPT ![1].id = viewing]
    /\ UNCHANGED <<elsewhere, bearer, answer, port>>

(* The message that the daemon asks Google about has left the kernel's port. *)
HasRoom == Len(port) < PortLimit + (IF verifying THEN 1 ELSE 0)

(* GSRequest: the message is queued, or the daemon is not reached. *)
Request(op, next) ==
    /\ Goto(next)
    /\ \/ /\ HasRoom
          /\ port' = Append(port, [op |-> op, id |-> Head(lane).id, owner |-> bearer,
                                   awaited |-> TRUE])
          /\ UNCHANGED answer
       \/ answer' = "failed" /\ UNCHANGED port
    /\ UNCHANGED <<elsewhere, lane, bearer>>

(* Nobody waits for the answers any more. *)
Unawaited == [i \in DOMAIN port |-> [port[i] EXCEPT !.awaited = FALSE]]

(* No answer within 120 seconds: the request stays with the daemon. *)
Abandon ==
    /\ step \in Waiting /\ answer = "none"
    /\ answer' = "failed" /\ port' = Unawaited
    /\ UNCHANGED <<elsewhere, lane, step, bearer>>

Ask == step = "asking" /\ Request("accounts", "asked")

(* Mutant: a bearer of another account is left in the daemon. *)
Mismatch_Ignored == "returning"

(* Where a refresh goes on to if the accounts do not match. *)
Mismatch == "clearing"

(* "ok" says that the identity's account is selected and native. *)
Asked ==
    /\ step = "asked" /\ answer # "none" /\ answer' = "none"
    /\ Goto(CASE answer = "ok" -> "fetching"
              [] answer = "other" -> Mismatch
              [] answer = "failed" -> "returning")
    /\ UNCHANGED <<elsewhere, lane, bearer, port>>

(* Mutant: whoever is signed in is asked for a bearer. *)
FetchBegins_Unchecked ==
    /\ step = "fetching" /\ viewing # NoIdentity
    /\ bearer' = viewing /\ Goto("authorizing")
    /\ UNCHANGED <<elsewhere, lane, answer, port>>

(* GSNativeBearer, main queue: an authorizer of the account signed in. *)
FetchBegins ==
    /\ step = "fetching"
    /\ \/ /\ viewing = Head(lane).id /\ viewing # NoIdentity
          /\ bearer' = viewing /\ Goto("authorizing")
       \/ Goto("clearing") /\ UNCHANGED bearer
    /\ UNCHANGED <<elsewhere, lane, answer, port>>

(* Main queue, after the SSO callback. *)
FetchEnds ==
    /\ step = "authorizing"
    /\ \/ viewing = Head(lane).id /\ Goto("sending") /\ UNCHANGED bearer
       \/ Goto("clearing") /\ bearer' = NoIdentity
    /\ UNCHANGED <<elsewhere, lane, answer, port>>

(* Mutant: the semaphore is waited for without a deadline. *)
FetchTimesOut_Never == FALSE

(* 30 seconds. *)
FetchTimesOut ==
    /\ step \in {"fetching", "authorizing"} /\ Goto("clearing")
    /\ bearer' = NoIdentity
    /\ UNCHANGED <<elsewhere, lane, answer, port>>

SendBearer ==
    /\ step = "sending"
    /\ Request(IF Head(lane).who = "timer" THEN "native_bearer" ELSE "account_native",
               "sent")

SendClear == step = "clearing" /\ Request("native_bearer_clear", "cleared")

Answered ==
    /\ step \in {"sent", "cleared"} /\ answer # "none"
    /\ answer' = IF step = "sent" THEN answer ELSE "failed"
    /\ bearer' = NoIdentity
    /\ Goto("returning")
    /\ UNCHANGED <<elsewhere, lane, port>>

(* The task ends, and tells its caller on the main queue. *)
Return ==
    /\ step = "returning" /\ Goto("idle")
    /\ lane' = Tail(lane) /\ answer' = "none"
    /\ attempt' = IF Head(lane).who = "connection"
                  THEN (IF answer = "ok" THEN "ok" ELSE "failed") ELSE attempt
    /\ refreshing' = IF Head(lane).who = "timer" THEN "over" ELSE refreshing
    /\ UNCHANGED <<daemon, viewing, calls, bearer, connecting, connected, connectionID,
                   port, validated, restarts>>

-----------------------------------------------------------------------------
(* The daemon receives.                                                    *)

Reply(result) == answer' = IF Head(port).awaited THEN result ELSE answer

Receive ==
    /\ port # <<>> /\ ~verifying
    /\ LET m == Head(port) IN
       \/ /\ m.op = "accounts"
          /\ Reply(IF /\ m.id # NoIdentity /\ accounts.selected = Email[m.id]
                      /\ IsNative(accounts.selected)
                   THEN "ok" ELSE "other")
          /\ port' = Tail(port) /\ UNCHANGED daemon
       \/ /\ m.op = "native_bearer"
          /\ RenewBearer(m.id, m.owner)
          /\ Reply(IF Accepts(m.id) THEN "ok" ELSE "failed")
          /\ port' = Tail(port) /\ UNCHANGED <<store, verifying, jobs, used>>
       \/ /\ m.op = "native_bearer_clear"
          /\ Clear /\ Reply("ok")
          /\ port' = Tail(port) /\ UNCHANGED <<store, verifying, jobs, used>>
       \/ /\ m.op = "account_native"
          /\ TryBearer(m.id, m.owner)
          /\ UNCHANGED <<port, answer>>
    /\ UNCHANGED <<viewing, calls, lane, step, bearer, connection, refreshing,
                   validated, restarts>>

(* The message of account_native stays at the head until Google has answered. *)
VerifyEnds ==
    /\ verifying /\ port' = Tail(port)
    /\ \/ /\ BearerAccepted(Head(port).id)
          /\ validated' = validated \cup {Head(port).id} /\ Reply("ok")
       \/ BearerRefused(Head(port).id) /\ UNCHANGED validated /\ Reply("failed")
    /\ UNCHANGED <<viewing, calls, lane, step, bearer, connection, refreshing, restarts>>

(* The process dies with its port; launchd starts the next. *)
DaemonRestarts ==
    /\ restarts < MaxRestarts /\ restarts' = restarts + 1
    /\ Reloaded
    /\ port' = <<>>
    /\ answer' = IF step \in Waiting /\ answer = "none" THEN "failed" ELSE answer
    /\ UNCHANGED <<viewing, calls, lane, step, bearer, connection, refreshing, validated>>

HostRestarts ==
    /\ restarts < MaxRestarts /\ restarts' = restarts + 1
    /\ calls' = {} /\ lane' = <<>>
    /\ step' = "idle" /\ bearer' = NoIdentity /\ answer' = "none"
    /\ port' = Unawaited
    /\ connecting' = FALSE /\ connected' = FALSE /\ connectionID' = NoIdentity
    /\ attempt' = "none" /\ refreshing' = "no"
    /\ UNCHANGED <<daemon, viewing, validated>>

-----------------------------------------------------------------------------
(* The steps a task takes of its own, without SSO or the daemon. *)
TaskStep ==
    \/ Take \/ ReadAccount \/ Ask \/ Asked \/ FetchBegins \/ FetchTimesOut
    \/ SendBearer \/ SendClear \/ Answered \/ Abandon \/ Return

Next ==
    \/ StoreStep /\ UNCHANGED <<host, port, validated, restarts>>
    \/ AccountChanges \/ RefreshTick \/ LoseAccount
    \/ \E foreground \in BOOLEAN : Connect(foreground)
    \/ Reconnect \/ ConnectEnds \/ RefreshEnds
    \/ \E who \in Callers : Call(who)
    \/ TaskStep \/ FetchEnds
    \/ Receive \/ VerifyEnds \/ DaemonRestarts \/ HostRestarts

Spec == Init /\ [][Next]_vars

(* Timers fire, queues and threads run, and waits reach their deadlines. *)
FairSpec ==
    /\ Spec
    /\ WF_vars(TaskStep) /\ \A who \in Callers : WF_vars(Call(who))
    /\ WF_vars(RefreshTick) /\ WF_vars(LoseAccount) /\ WF_vars(Connect(FALSE))
    /\ WF_vars(ConnectEnds) /\ WF_vars(RefreshEnds)
=============================================================================
