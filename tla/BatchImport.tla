---------------------------- MODULE BatchImport ----------------------------
(***************************************************************************)
(* Importing a selection of photos (GSBatchImport.m), one original after   *)
(* the other, on a serial queue, next to other importers.  One batch at a  *)
(* time is reserved by GSCurrentBatch; the user may stop it, and sign out  *)
(* or select another account, at any time.                                 *)
(*                                                                         *)
(* A batch without an identity, from a host where nobody signs in, behaves *)
(* as one whose account stays signed in.                                   *)
(***************************************************************************)
EXTENDS ImportProtocol

CONSTANTS
    Batch,       \* the importer that is the batch queue
    Selection    \* the originals selected

ASSUME BatchAssumption ==
    Batch \in Importers /\ Selection \in Seq(Items) /\ Selection # <<>>

VARIABLES
    signedIn,    \* the account signed in is the batch's
    current,     \* GSCurrentBatch is set
    last,        \* active and counts of GSLastBatch
    stop,        \* stopReason
    at,          \* next step of the batch
    processed, queued, failed,
    files,       \* the original has been exported
    seen         \* history: what was so at some moment since it was exported

count == <<processed, queued, failed>>
batch == <<current, last, stop, at, count, files>>
vars == <<importVars, signedIn, batch, seen>>

Snapshot(active) ==
    [active |-> active, processed |-> processed, queued |-> queued, failed |-> failed]

Init ==
    /\ ImportInit
    /\ signedIn = TRUE
    /\ current = FALSE /\ stop = "" /\ at = "none"
    /\ processed = 0 /\ queued = 0 /\ failed = 0 /\ last = Snapshot(FALSE)
    /\ files = FALSE /\ seen = {}

(* What a batch needs for its original to be imported. *)
Needs == {"going on", "signed in"}
Now == {n \in Needs : IF n = "going on" THEN stop = "" ELSE signedIn}

-----------------------------------------------------------------------------
(* Main queue. *)

(* GSStartBatchImport *)
Start ==
    /\ ~current
    /\ current' = TRUE /\ stop' = "" /\ at' = "starting"
    /\ processed' = 0 /\ queued' = 0 /\ failed' = 0
    /\ last' = [active |-> TRUE, processed |-> 0, queued |-> 0, failed |-> 0]
    /\ files' = FALSE /\ seen' = {}
    /\ signedIn' \in BOOLEAN
    /\ UNCHANGED importVars

(* GSStopBatchImport, by the user or for want of background time. *)
Stop ==
    /\ current /\ at # "ending" /\ stop' = "stopped"
    /\ UNCHANGED <<importVars, signedIn, current, last, at, count, files, seen>>

(* The user signs out or in.  The account is not read during an import, nor  *)
(* after the last: what it has become then is chosen afterwards.             *)
OwnerChanges ==
    /\ at \notin {"none", "importing", "ending"}
    /\ signedIn' = ~signedIn
    /\ UNCHANGED <<importVars, batch>>
    /\ seen' = IF at = "exported" THEN seen \cup Now' ELSE seen

-----------------------------------------------------------------------------
(* The batch queue. *)

(* The loop is left; what the end does not read is not told apart. *)
Leave == at' = "ending" /\ stop' = "" /\ signedIn' = TRUE /\ files' = FALSE /\ seen' = {}

(* GSCheckBatchAccount: the batch is not stopped, and its identity signed in; *)
(* then the engine is asked for the account selected, which may not be the   *)
(* batch's, and may not answer.  At the start it is asked for options too.   *)
Check(here, next) ==
    /\ at = here
    /\ \/ stop = "" /\ signedIn /\ at' = next /\ UNCHANGED <<signedIn, stop, files, seen>>
       \/ Leave
    /\ UNCHANGED <<importVars, current, last, count>>

CheckAtStart == Check("starting", "next")
CheckBefore == Check("next", "export")

(* Mutant: an account that changes during the export goes unnoticed. *)
CheckAfter_Skipped ==
    /\ at = "exported" /\ at' = "import"
    /\ UNCHANGED <<importVars, signedIn, current, last, stop, count, files, seen>>

CheckAfter == Check("exported", "import")

Further == processed' < Len(Selection)

(* The counts are recorded; the next original, whatever the account signed   *)
(* in may be by now, or the end after the last.                              *)
Counted(isQueued, owners) ==
    /\ processed' = processed + 1
    /\ IF isQueued THEN queued' = queued + 1 /\ UNCHANGED failed
                   ELSE failed' = failed + 1 /\ UNCHANGED queued
    /\ last' = Snapshot(TRUE)'
    /\ IF Further
       THEN at' = "next" /\ files' = FALSE /\ seen' = {} /\ signedIn' \in owners /\ UNCHANGED stop
       ELSE Leave

(* The photo is gone; or there is no room for a directory, which ends the    *)
(* batch; or its export, which may take hours, succeeds or fails.            *)
Export ==
    /\ at = "export"
    /\ \/ Counted(FALSE, {signedIn})
       \/ Leave /\ UNCHANGED <<count, last>>
       \/ /\ at' = "exported" /\ files' \in BOOLEAN /\ seen' = Now
          /\ UNCHANGED <<signedIn, stop, count, last>>
    /\ UNCHANGED <<importVars, current>>

(* There is nothing to import; out of space ends the batch. *)
ExportFailed ==
    /\ at = "import" /\ ~files
    /\ Counted(FALSE, {signedIn}) \/ (Leave /\ UNCHANGED <<count, last>>)
    /\ UNCHANGED <<importVars, current>>

(* GSImportFiles *)
Import ==
    /\ at = "import" /\ files
    /\ Begin(Batch, Selection[processed + 1])
    /\ at' = "importing" /\ files' = FALSE /\ seen' = {}
    /\ signedIn' = TRUE
    /\ UNCHANGED <<current, last, stop, count>>

(* Mutant: an import without an id counts as queued. *)
Succeeded_Anyway == TRUE

Succeeded == work[Batch].id # 0

Imported ==
    /\ at = "importing" /\ Return(Batch)
    /\ IF Succeeded THEN Counted(TRUE, BOOLEAN)
       ELSE Leave /\ UNCHANGED <<count, last>>
    /\ UNCHANGED current

(* The last counts and the release, in one locked section. *)
End ==
    /\ at = "ending" /\ at' = "none"
    /\ current' = FALSE /\ last' = Snapshot(FALSE)
    /\ stop' = "" /\ processed' = 0 /\ queued' = 0 /\ failed' = 0
    /\ files' = FALSE /\ seen' = {} /\ signedIn' = TRUE
    /\ UNCHANGED importVars

-----------------------------------------------------------------------------
BatchStep ==
    \/ CheckAtStart \/ CheckBefore \/ CheckAfter
    \/ Export \/ ExportFailed \/ Import \/ Imported \/ End

(* The other importers get originals at any time (backup requests). *)
OtherStep ==
    \E p \in Importers \ {Batch} : Return(p) \/ \E item \in Items : Begin(p, item)

BatchDies ==
    /\ HostDies
    /\ current' = FALSE /\ stop' = "" /\ at' = "none"
    /\ processed' = 0 /\ queued' = 0 /\ failed' = 0
    /\ last' = [active |-> FALSE, processed |-> 0, queued |-> 0, failed |-> 0]
    /\ files' = FALSE /\ seen' = {} /\ signedIn' = TRUE

Next ==
    \/ Start \/ Stop
    \/ OwnerChanges \/ BatchStep \/ BatchDies
    \/ /\ EngineStep \/ OtherStep \/ \E p \in Importers : ImporterStep(p)
       /\ UNCHANGED <<signedIn, batch, seen>>

Spec == Init /\ [][Next]_vars
=============================================================================
