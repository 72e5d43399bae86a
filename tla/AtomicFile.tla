----------------------------- MODULE AtomicFile -----------------------------
(***************************************************************************)
(* Replacing a JSON file, system call by system call: atomicJSON of        *)
(* internal/service writes state.json, writeConfigAtomically of GotohpCore *)
(* writes credentials.json the same way.  Each call may fail, the process  *)
(* may die between any two of them, and power may be lost.                 *)
(*                                                                         *)
(* The file system is taken at its weakest: without fsync a file keeps     *)
(* any part of its contents, and a directory entry that was renamed but    *)
(* not fsynced may name any file it has named since its last fsync.        *)
(* Saves are serialized by the engine mutex (configMu for credentials).    *)
(***************************************************************************)
EXTENDS Naturals

CONSTANTS
    Values,     \* contents to write
    First,      \* what the file holds at first
    Torn,       \* contents that json.Unmarshal rejects
    MaxSaves    \* bound: saves in a behaviour

ASSUME FileAssumption ==
    /\ First \in Values
    /\ Torn \notin Values
    /\ MaxSaves \in Nat

VARIABLES
    step,       \* the next system call of the running save, or "idle"
    saves,      \* saves begun; the temporary file of the last has this number
    content,    \* contents of each file, as a read sees them
    synced,     \* whether those contents survive a loss of power
    entry,      \* the file that is called state.json
    stable,     \* the files that may be called so after a loss of power
    asked,      \* the value being saved, or saved last
    reply       \* what the last save returned: "pending", "ok", "error", "none"

vars == <<step, saves, content, synced, entry, stable, asked, reply>>

Files == 0..MaxSaves

Init ==
    /\ step = "idle" /\ saves = 0
    /\ content = [f \in Files |-> IF f = 0 THEN First ELSE Torn]
    /\ synced = [f \in Files |-> f = 0]
    /\ entry = 0 /\ stable = {0}
    /\ asked = First /\ reply = "none"

(* A call fails: atomicJSON returns its error and the temporary file, no    *)
(* longer of use, is removed.                                               *)
Give(result) == step' = "idle" /\ reply' = result

(* atomicJSON is called; the save counts whatever becomes of it. *)
Save(v) ==
    /\ step = "idle"
    /\ saves < MaxSaves
    /\ saves' = saves + 1
    /\ asked' = v /\ reply' = "pending" /\ step' = "create"
    /\ UNCHANGED <<content, synced, entry, stable>>

CreateTemp ==
    /\ step = "create"
    /\ \/ step' = "write" /\ UNCHANGED reply
       \/ Give("error")
    /\ UNCHANGED <<saves, content, synced, entry, stable, asked>>

Write ==
    /\ step = "write"
    /\ \/ /\ content' = [content EXCEPT ![saves] = asked]
          /\ step' = "sync" /\ UNCHANGED reply
       \/ Give("error") /\ UNCHANGED content
    /\ UNCHANGED <<saves, synced, entry, stable, asked>>

Sync ==
    /\ step = "sync"
    /\ \/ /\ synced' = [synced EXCEPT ![saves] = TRUE]
          /\ step' = "close" /\ UNCHANGED reply
       \/ Give("error") /\ UNCHANGED synced
    /\ UNCHANGED <<saves, content, entry, stable, asked>>

CloseTemp ==
    /\ step = "close"
    /\ \/ step' = "rename" /\ UNCHANGED reply
       \/ Give("error")
    /\ UNCHANGED <<saves, content, synced, entry, stable, asked>>

Rename ==
    /\ step = "rename"
    /\ \/ /\ entry' = saves /\ stable' = stable \cup {saves}
          /\ step' = "syncdir" /\ UNCHANGED reply
       \/ Give("error") /\ UNCHANGED <<entry, stable>>
    /\ UNCHANGED <<saves, content, synced, asked>>

(* Mutant: success is reported without an fsync of the directory. *)
SyncDir_Skipped == step = "syncdir" /\ Give("ok")
                   /\ UNCHANGED <<saves, content, synced, entry, stable, asked>>

(* The directory is opened and fsynced.  If that fails the save has failed  *)
(* although the new contents are in place.                                  *)
SyncDir ==
    /\ step = "syncdir"
    /\ \/ stable' = {entry} /\ Give("ok")
       \/ Give("error") /\ UNCHANGED stable
    /\ UNCHANGED <<saves, content, synced, entry, asked>>

Interrupted == step' = "idle" /\ reply' = IF reply = "pending" THEN "none" ELSE reply

(* The process dies; files are as the last system call left them. *)
ProcessDies ==
    /\ step # "idle"
    /\ Interrupted
    /\ UNCHANGED <<saves, content, synced, entry, stable, asked>>

PowerFails ==
    /\ Interrupted
    /\ \E f \in stable :
         /\ entry' = f /\ stable' = {f}
         /\ \/ UNCHANGED content
            \/ ~synced[f] /\ content' = [content EXCEPT ![f] = Torn]
    /\ UNCHANGED <<saves, synced, asked>>

Next ==
    \/ \E v \in Values : Save(v)
    \/ CreateTemp \/ Write \/ Sync \/ CloseTemp \/ Rename \/ SyncDir
    \/ ProcessDies \/ PowerFails

Spec == Init /\ [][Next]_vars

-----------------------------------------------------------------------------

(* The file can always be read: whatever fails and whenever power is lost,   *)
(* Open does not answer "invalid state; restore backup" to a file that       *)
(* atomicJSON wrote (fsync before rename).                                   *)
NeverTorn == content[entry] # Torn

Register == INSTANCE DurableRegister WITH
    value   <- content[entry],
    exposed <- {content[f] : f \in stable}

(* Replacing the file implements the register: a nil error means the value   *)
(* survives anything, an error means it may or may not be there, now and     *)
(* after a loss of power (why save raises "fault" and UploadQueue's failed   *)
(* save leaves either contents).                                             *)
ReplacesAtomically == Register!RegisterSpec

-----------------------------------------------------------------------------
(* What makes both inductive. *)

TypeOK ==
    /\ step \in {"idle", "create", "write", "sync", "close", "rename", "syncdir"}
    /\ saves \in Files
    /\ content \in [Files -> Values \cup {Torn}]
    /\ synced \in [Files -> BOOLEAN]
    /\ entry \in Files /\ stable \subseteq Files
    /\ asked \in Values
    /\ reply \in {"pending", "ok", "error", "none"}

(* Everything a start may read is whole and cannot be lost. *)
StableWhole == \A f \in stable : synced[f] /\ content[f] # Torn

(* The temporary file is not called state.json before it is renamed, and by  *)
(* then holds the value asked for.                                           *)
Progress ==
    /\ entry \in stable
    /\ \A f \in stable : f <= saves
    /\ reply = "pending" <=> step # "idle"
    /\ step \in {"create", "write", "sync", "close", "rename"} => saves \notin stable
    /\ step \in {"sync", "close", "rename", "syncdir"} => content[saves] = asked
    /\ step \in {"close", "rename", "syncdir"} => synced[saves]
    /\ step = "syncdir" => entry = saves

FileInv == TypeOK /\ StableWhole /\ Progress
=============================================================================
