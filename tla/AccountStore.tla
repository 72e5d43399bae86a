---------------------------- MODULE AccountStore ----------------------------
(***************************************************************************)
(* The daemon's accounts: credentials.json with its copy in memory, and    *)
(* the relay's one slot for a short-lived bearer of Google Photos          *)
(* (accounts in upstream.go, native_relay.go, config_ios.go, native_auth). *)
(*                                                                         *)
(* Requests run under the engine's mutex, account_native included while it *)
(* asks Google whether the bearer is accepted; uploads read the slot under *)
(* a mutex of its own and are not held up.                                 *)
(*                                                                         *)
(* External: upsertCredential replaces or adds the credential of an email, *)
(* selects it (always if none was selected), and saves like the others.    *)
(***************************************************************************)
EXTENDS Naturals, Sequences

CONSTANTS
    Identities,  \* SSO userIDs
    Emails,
    Email,       \* email of each identity
    NoIdentity, NoEmail,
    Absent,      \* an email without a credential
    Legacy,      \* a credential that is not native
    UsedEmails,  \* bound: emails the user manages and uploads with
    SavesFail    \* bound: whether a save of credentials.json may fail

ASSUME AccountAssumption ==
    /\ Email \in [Identities -> Emails]
    /\ NoIdentity \notin Identities /\ NoEmail \notin Emails
    /\ {Absent, Legacy} \cap Identities = {} /\ Absent # Legacy
    /\ UsedEmails \subseteq Emails /\ SavesFail \in BOOLEAN

VARIABLES
    accounts,   \* AppConfig.Account
    stored,     \* credentials.json
    slot,       \* nativeRelay: whose bearer it is, for which id, and until passed or not
    verifying,  \* account_native is waiting for Google, with the mutex held
    jobs,       \* emails with jobs that are neither completed nor cancelled
    doubtful,   \* history: a save of credentials.json failed after its rename
    used        \* history: the ids asked for, with the owners of the bearers given

store == <<accounts, stored, doubtful>>
daemon == <<store, slot, verifying, jobs, used>>

Credentials == Identities \cup {Absent, Legacy}
AccountRecords == [bound : [Emails -> Credentials], selected : Emails \cup {NoEmail}]
Slots == [id : Identities \cup {NoIdentity}, owner : Identities \cup {NoIdentity},
          fresh : BOOLEAN]

EmptySlot == [id |-> NoIdentity, owner |-> NoIdentity, fresh |-> FALSE]

StoreInit ==
    /\ accounts = [bound |-> [e \in Emails |-> Absent], selected |-> NoEmail]
    /\ stored = accounts
    /\ slot = EmptySlot /\ verifying = FALSE
    /\ jobs = {} /\ doubtful = FALSE /\ used = {}

-----------------------------------------------------------------------------
(* saveAppConfigLocked; after an error the copy in memory is put back.     *)

Saved(next) == accounts' = next /\ stored' = next /\ UNCHANGED doubtful

NotSaved(next) ==
    /\ SavesFail /\ UNCHANGED accounts
    /\ \/ UNCHANGED <<stored, doubtful>>
       \/ stored' = next /\ doubtful' = TRUE

(* What upsertCredential may make of the accounts. *)
Upserted(email, credential) ==
    {[bound |-> [accounts.bound EXCEPT ![email] = credential], selected |-> s] :
        s \in {email} \cup ({accounts.selected} \ {NoEmail})}

(* put, clear and get of nativeRelay *)
Put(id, owner) == slot' = [id |-> id, owner |-> owner, fresh |-> TRUE]
Clear == slot' = EmptySlot
Gets(id) == slot.fresh /\ slot.id = id

(* nativeAuthorization: "waiting" or "ready", and "" for a legacy account. *)
IsNative(email) == email \in Emails /\ accounts.bound[email] \in Identities

-----------------------------------------------------------------------------
(* Requests of Google Photos about its bearer, from identity id.           *)

(* native_bearer needs a binding of this email to this id. *)
Accepts(id) == accounts.bound[Email[id]] = id

RenewBearer(id, owner) ==
    IF Accepts(id) THEN Put(id, owner) ELSE UNCHANGED slot

(* account_native: the slot is filled first, then the bearer is tried. *)
TryBearer(id, owner) ==
    /\ Put(id, owner)
    /\ verifying' = TRUE
    /\ used' = used \cup {<<id, owner>>}
    /\ UNCHANGED <<store, jobs>>

BearerAccepted(id) ==
    /\ \E next \in Upserted(Email[id], id) : Saved(next)
    /\ verifying' = FALSE
    /\ UNCHANGED <<slot, jobs, used>>

(* Google refuses, or the binding cannot be saved. *)
BearerRefused(id) ==
    /\ \/ UNCHANGED store
       \/ \E next \in Upserted(Email[id], id) : NotSaved(next)
    /\ Clear
    /\ verifying' = FALSE
    /\ UNCHANGED <<jobs, used>>

-----------------------------------------------------------------------------
(* Requests of the settings, and the queue.                                *)

(* account_add: a legacy credential that Google has accepted. *)
AddAccount(e) ==
    /\ ~verifying
    /\ \E next \in Upserted(e, Legacy) : Saved(next) \/ NotSaved(next)
    /\ UNCHANGED <<slot, verifying, jobs, used>>

SelectAccount(e) ==
    /\ ~verifying /\ accounts.bound[e] # Absent
    /\ LET next == [accounts EXCEPT !.selected = e] IN Saved(next) \/ NotSaved(next)
    /\ UNCHANGED <<slot, verifying, jobs, used>>

(* Mutant: an account with unfinished jobs is removed all the same. *)
Removable_Always(e) == accounts.bound[e] # Absent

Removable(e) == accounts.bound[e] # Absent /\ e \notin jobs

RemoveAccount(e) ==
    /\ ~verifying /\ Removable(e)
    /\ LET next == [bound |-> [accounts.bound EXCEPT ![e] = Absent],
                    selected |-> IF accounts.selected = e THEN NoEmail
                                                          ELSE accounts.selected]
       IN \/ Saved(next) /\ Clear
          \/ NotSaved(next) /\ UNCHANGED slot
    /\ UNCHANGED <<verifying, jobs, used>>

(* begin and what ends a job: jobs are in state.json, which is not lost. *)
BeginJob(e) ==
    /\ ~verifying /\ accounts.bound[e] # Absent
    /\ jobs' = jobs \cup {e}
    /\ UNCHANGED <<store, slot, verifying, used>>

EndJob(e) ==
    /\ ~verifying /\ e \in jobs
    /\ jobs' = jobs \ {e}
    /\ UNCHANGED <<store, slot, verifying, used>>

(* An upload asks for the bearer of the id in its credential. *)
UseBearer(id) ==
    /\ Gets(id)
    /\ used' = used \cup {<<id, slot.owner>>}
    /\ UNCHANGED <<store, slot, verifying, jobs>>

(* The retention of five minutes passes. *)
BearerExpires ==
    /\ slot.fresh
    /\ slot' = [slot EXCEPT !.fresh = FALSE]
    /\ UNCHANGED <<store, verifying, jobs, used>>

(* A new process reads credentials.json and has no bearer. *)
Reloaded ==
    /\ accounts' = stored
    /\ Clear
    /\ verifying' = FALSE
    /\ UNCHANGED <<stored, jobs, doubtful, used>>

StoreStep ==
    \/ \E e \in UsedEmails :
          \/ AddAccount(e) \/ SelectAccount(e) \/ RemoveAccount(e)
          \/ BeginJob(e) \/ EndJob(e)
    \/ \E id \in Identities : UseBearer(id)
    \/ BearerExpires
=============================================================================
