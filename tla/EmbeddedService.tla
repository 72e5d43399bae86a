--------------------------- MODULE EmbeddedService ---------------------------
(***************************************************************************)
(* The upload engine inside the app (EmbeddedService.m, cmd/bridge): the    *)
(* main queue samples whether the app is in the foreground, a network queue *)
(* records the path, and a serial core queue starts the engine, tells it    *)
(* the conditions and passes requests to it.  Nobody waits for the core     *)
(* queue but the requesters; a block there reads what is recorded when it   *)
(* runs, and may be overtaken by a newer record while it tells the engine.  *)
(*                                                                         *)
(* The charging and Wi-Fi values travel with the other two and are left out. *)
(***************************************************************************)
EXTENDS Integers

CONSTANT CoreLimit       \* bound: conditions blocks waiting on the core queue

ASSUME CoreAssumption == CoreLimit \in Nat

VARIABLES
    active,      \* the app is in the foreground
    recorded,    \* GSState: foreground and networkOnline
    accepted,    \* GSState: conditionsAccepted
    ready,       \* GSStart and GSReady
    core,        \* conditions blocks that wait on the core queue
    running,     \* the block that runs there and the conditions it read
    sampling,    \* a sample is due on the main queue
    online,      \* conditions of the engine
    fault        \* the engine refuses requests since a save failed

serviceVars == <<active, recorded, accepted, ready, core, running, sampling, online, fault>>

Blocks == {"none", "conditions", "request"}
Idle == [block |-> "none", online |-> FALSE]

ServiceInit ==
    /\ active \in BOOLEAN
    /\ recorded = [foreground |-> FALSE, network |-> FALSE]
    /\ accepted = FALSE /\ ready = "unstarted" /\ core = 0 /\ running = Idle
    /\ sampling = FALSE /\ online = FALSE /\ fault = FALSE

Permitted == recorded.foreground /\ recorded.network

-----------------------------------------------------------------------------
(* The app moves to the foreground or the background. *)
AppMoves ==
    /\ active' = ~active
    /\ UNCHANGED <<recorded, accepted, ready, core, running, sampling, online, fault>>

(* A save of the engine fails: it refuses requests from then on. *)
EngineFails ==
    /\ ready = "yes" /\ fault' = TRUE
    /\ UNCHANGED <<active, recorded, accepted, ready, core, running, sampling, online>>

(* Mutant: a block that runs is taken to tell the engine what is new. *)
Dispatched_Coalesced == IF running.block = "none" THEN core' = core + 1 ELSE UNCHANGED core

Dispatched == core' = core + 1

(* GSSampleApplication, on a notification of the life cycle, which may not   *)
(* come or come before the app's state has changed, or for a request.        *)
SampleApplication ==
    /\ core < CoreLimit
    /\ recorded' = [recorded EXCEPT !.foreground = active]
    /\ Dispatched

Notified ==
    /\ ready # "unstarted"
    /\ SampleApplication
    /\ UNCHANGED <<active, accepted, ready, running, sampling, online, fault>>

SampledForRequest ==
    /\ sampling /\ sampling' = FALSE
    /\ SampleApplication
    /\ UNCHANGED <<active, accepted, ready, running, online, fault>>

(* The path monitor's handler. *)
PathChanges ==
    /\ ready # "unstarted" /\ core < CoreLimit
    /\ \E up \in BOOLEAN : recorded' = [recorded EXCEPT !.network = up]
    /\ Dispatched
    /\ UNCHANGED <<active, accepted, ready, running, sampling, online, fault>>

(* Mutant: a request does not sample the app. *)
RequestEnters_NoSample ==
    /\ ready' = IF ready = "unstarted" THEN "starting" ELSE ready
    /\ sampling' = (sampling \/ ready = "unstarted")

(* GSRequest up to dispatch_sync; the first one starts the service. *)
RequestEnters ==
    /\ ready' = IF ready = "unstarted" THEN "starting" ELSE ready
    /\ sampling' = TRUE

(* Another request, of a panel: its block tells the conditions as well. *)
PanelRequests ==
    /\ core < CoreLimit
    /\ RequestEnters /\ core' = core + 1
    /\ UNCHANGED <<active, recorded, accepted, running, online, fault>>

-----------------------------------------------------------------------------
(* The core queue.  GSConditions reads first. *)
Reads(block) == running' = [block |-> block, online |-> Permitted]

(* The block of GSStart: GunshotInitialize may fail. *)
Starts ==
    /\ ready = "starting"
    /\ \/ ready' = "yes" /\ Reads("conditions")
       \/ ready' = "failed" /\ UNCHANGED running
    /\ UNCHANGED <<active, recorded, accepted, core, sampling, online, fault>>

ConditionsBlock ==
    /\ ready \in {"yes", "failed"} /\ running = Idle /\ core > 0
    /\ core' = core - 1
    /\ IF ready = "yes" THEN Reads("conditions") ELSE UNCHANGED running
    /\ UNCHANGED <<active, recorded, accepted, ready, sampling, online, fault>>

RequestBlock ==
    /\ ready = "yes" /\ running = Idle
    /\ Reads("request")
    /\ UNCHANGED <<active, recorded, accepted, ready, core, sampling, online, fault>>

(* GSCall of the conditions, and what it answered is recorded. *)
Tells ==
    /\ running' = Idle
    /\ accepted' = ~fault
    /\ online' = IF fault THEN online ELSE running.online
    /\ UNCHANGED <<active, recorded, ready, core, sampling, fault>>

ConditionsTold == running.block = "conditions" /\ Tells

-----------------------------------------------------------------------------
(* With nothing left to run, an engine that accepted the conditions goes by  *)
(* what is recorded, whatever was recorded while it was told (the blocks     *)
(* that GSSampleApplication and the path handler dispatch, and GSStart).     *)
QuietMeansCurrent ==
    ready = "yes" /\ core = 0 /\ running = Idle /\ accepted => online = Permitted
=============================================================================
