------------------------ MODULE NativeRelayProperties ------------------------
(***************************************************************************)
(* What holds between the identity signed in to Google Photos, the tasks   *)
(* of the relay and the daemon's accounts and bearer.                      *)
(***************************************************************************)
EXTENDS NativeRelay

Steps == {"idle", "reading", "asking", "asked", "fetching", "authorizing", "sending",
          "sent", "clearing", "cleared", "returning"}
Tasks == [who : Callers, id : Identities \cup {NoIdentity}]
Messages == [op : Operations, id : Identities \cup {NoIdentity},
             owner : Identities \cup {NoIdentity}, awaited : BOOLEAN]

(* A caller has one task at a time: what GSConnecting, refreshing and the     *)
(* panel's busy are for.  connectionID does not change under a connection.    *)
OnePerCaller ==
    /\ connecting <=> attempt # "none" \/ Pending("connection")
    /\ refreshing = "yes" <=> Pending("timer")
    /\ \A c, d \in calls : c.who = d.who => c = d
    /\ \A i, k \in DOMAIN lane : lane[i].who = lane[k].who => i = k
    /\ \A c \in calls, i \in DOMAIN lane : c.who # lane[i].who
    /\ connecting => connectionID # NoIdentity

Types ==
    /\ accounts \in AccountRecords /\ stored \in AccountRecords
    /\ slot \in Slots /\ verifying \in BOOLEAN
    /\ jobs \subseteq Emails /\ doubtful \in BOOLEAN
    /\ used \subseteq Identities \X Identities
    /\ viewing \in Identities \cup {NoIdentity}
    /\ calls \subseteq Tasks /\ lane \in Seq(Tasks)
    /\ step \in Steps /\ bearer \in Identities \cup {NoIdentity}
    /\ answer \in {"none", "ok", "other", "failed"}
    /\ port \in Seq(Messages) /\ Len(port) <= PortLimit + 1
    /\ connecting \in BOOLEAN /\ connected \in BOOLEAN
    /\ connectionID \in Identities \cup {NoIdentity}
    /\ attempt \in {"none", "ok", "failed"} /\ refreshing \in {"no", "yes", "over"}
    /\ validated \subseteq Identities /\ restarts \in 0..MaxRestarts

(* Every variable has its type, and no caller waits for two tasks at once. *)
RelayTypeOK == Types /\ OnePerCaller

(* An upload or a validation that asks for the bearer of an id is given that  *)
(* account's, whatever the user signs in to while bearers are fetched, queued *)
(* and renewed (GSNativeBearer, native_bearer, get of nativeRelay).           *)
BearerIsOwn == \A use \in used : use[1] = use[2]

(* GSConnected becomes YES only for the account still signed in, and only     *)
(* once the daemon has bound it (GSConnectAvailableAccount, account_native).  *)
ConnectedIsCurrent ==
    [][connected' /\ ~connected =>
          viewing = connectionID' /\ connectionID' \in validated]_vars

(* An account with unfinished jobs keeps its credential, across restarts too, *)
(* unless a save of credentials.json has failed after its rename.             *)
JobsKeepAccounts == doubtful \/ \A e \in jobs : accounts.bound[e] # Absent

(* The same without the exception: "Queue account bindings are preserved"     *)
(* (docs/architecture.md) and the refusal of account_remove.                  *)
BindingsPreserved == \A e \in jobs : accounts.bound[e] # Absent

(* An attempt to connect ends, whatever SSO and the daemon do: GSConnecting   *)
(* lets nobody else try meanwhile.                                            *)
ConnectingEnds == connecting ~> ~connecting

(* A request is not delivered or answered in time, or SSO refuses the account *)
(* that is signed in or is late.                                              *)
Fails ==
    \/ Abandon \/ FetchTimesOut
    \/ step \in {"asking", "sending", "clearing"} /\ answer' = "failed"
    \/ /\ step \in {"fetching", "authorizing"} /\ step' = "clearing"
       /\ viewing = Head(lane).id

(* The daemon, Google and SSO answer, sooner or later without failing. *)
Reachable ==
    /\ WF_vars(Receive) /\ WF_vars(VerifyEnds) /\ WF_vars(FetchEnds)
    /\ <>[][~Fails]_vars

(* After the user has signed out of an account, or left it for another, and   *)
(* stays so, its bearer is eventually gone from the daemon and stays away.    *)
SignOutIsCleared ==
    Reachable => \A i \in Identities : <>[](viewing # i) => <>[](~Gets(i))

(* As long as an identity is signed in and its account is bound and selected, *)
(* uploads are given its bearer again and again: an expired one is renewed,   *)
(* and one cleared or lost with the daemon comes back.                        *)
AuthorizationReturns ==
    Reachable =>
        \A i \in Identities :
            <>[](viewing = i /\ accounts.selected = Email[i]
                            /\ accounts.bound[Email[i]] = i)
                => []<>Gets(i)
=============================================================================
