--------------------------- MODULE ImportProtocol ---------------------------
(***************************************************************************)
(* Handing originals over to the engine: GSImportFiles (GSExporter.m)      *)
(* declares the files, sends them in chunks and seals the import, by       *)
(* requests of IPCClient.m that the daemon takes from its Mach port in     *)
(* order.  A request may fail to be sent, or be given up after 120 seconds *)
(* and executed all the same.  Several threads of the host import at once. *)
(*                                                                         *)
(* Sizes are counted in half chunks: a read, and the request that sends    *)
(* it, has one Chunk, a write that fails may leave half of it.  Saves of   *)
(* the engine succeed here (UploadQueue has those that fail).              *)
(***************************************************************************)
EXTENDS Integers, Sequences, FiniteSets

CONSTANTS
    Importers,    \* threads of the host that import
    Nobody,       \* who waits for the answer to a request given up
    Items,        \* originals
    Size,         \* the sizes of each one's files, of which there are one or two
    Changing,     \* importers that are given files others may write to
    MaxIds,       \* bound: imports begun
    MaxJobs,      \* capacity of the queue (types.go MaxJobs)
    PortLimit,    \* messages the port holds
    WritesFail,   \* whether the daemon's file system refuses
    MaxRestarts   \* bound: restarts of host and daemon

Chunk == 2
Ids == 1..MaxIds

ASSUME ImportAssumption ==
    /\ Nobody \notin Importers /\ Changing \subseteq Importers
    /\ Size \in [Items -> Seq(Nat \ {0})]
    /\ \A i \in Items : Len(Size[i]) \in {1, 2}
    /\ MaxIds \in Nat /\ MaxJobs \in Nat \ {0} /\ PortLimit \in Nat \ {0}
    /\ WritesFail \in BOOLEAN /\ MaxRestarts \in Nat

VARIABLES
    job,        \* the engine's jobs
    issued,     \* number of ids drawn
    port,       \* the daemon's messages
    work,       \* position and locals of each importer
    reported,   \* history: ids that importers have returned
    dropped,    \* history: sealed jobs that their importer has withdrawn
    late,       \* history: ids whose seal nobody waited for
    stranded,   \* history: ids that nobody has learnt, or could withdraw
    restarts

history == <<reported, dropped, late, stranded>>
importVars == <<job, issued, port, work, history, restarts>>

(* "queued" is any of pending, preparing, uploading, committing and failed. *)
NoJob == [state |-> "none", item |-> CHOOSE i \in Items : TRUE, size |-> <<>>,
          sealed |-> FALSE, cancelRequested |-> FALSE]
NewJob(item) == [NoJob EXCEPT !.state = "importing", !.item = item,
                              !.size = [f \in DOMAIN Size[item] |-> 0]]

(* An importer at "begin", "append", "seal" or "cancel" waits for the answer. *)
Idle == [step |-> "idle", item |-> NoJob.item, id |-> 0, file |-> 1, offset |-> 0]
Waiting == {"begin", "append", "seal", "cancel"}

ImportInit ==
    /\ job = [j \in Ids |-> NoJob] /\ issued = 0
    /\ port = <<>> /\ work = [p \in Importers |-> Idle]
    /\ reported = {} /\ dropped = {} /\ late = {} /\ stranded = {}
    /\ restarts = 0

Listed == {j \in Ids : job[j].state # "none"}

-----------------------------------------------------------------------------
(* The importer. *)

(* The import returns an id, or 0 for none. *)
Done(w, id) == [Idle EXCEPT !.step = "done", !.item = w.item, !.id = id]

(* Mutant: success is not noted, and the import cancelled after all. *)
Advanced_NotNoted(w, id) ==
    CASE w.step = "begin"  -> [w EXCEPT !.step = "reading", !.id = id]
      [] w.step = "append" -> [w EXCEPT !.step = "reading", !.offset = @ + Chunk]
      [] w.step = "seal"   -> [w EXCEPT !.step = "failed"]
      [] w.step = "cancel" -> Done(w, 0)

(* Where an importer goes on to after an answer, ... *)
Advanced(w, id) ==
    CASE w.step = "begin"  -> [w EXCEPT !.step = "reading", !.id = id]
      [] w.step = "append" -> [w EXCEPT !.step = "reading", !.offset = @ + Chunk]
      [] w.step = "seal"   -> Done(w, id)
      [] w.step = "cancel" -> Done(w, 0)

(* Mutant: what has been begun is left behind. *)
Failed_NoCancel(w) == Done(w, 0)

(* ... or without one: what has been begun is to be cancelled. *)
Failed(w) ==
    IF w.step \in {"begin", "cancel"} THEN Done(w, 0) ELSE [Idle EXCEPT !.step = "failed", !.item = w.item, !.id = w.id]

(* GSRequest: the message is queued, or the daemon is not reached. *)
Send(p, w, op) ==
    \/ /\ Len(port) < PortLimit
       /\ port' = Append(port, [op |-> op, from |-> p, item |-> w.item, id |-> w.id,
                                file |-> w.file, offset |-> w.offset])
       /\ work' = [work EXCEPT ![p] = [w EXCEPT !.step = op]]
       /\ UNCHANGED stranded
    \/ /\ work' = [work EXCEPT ![p] = Failed([w EXCEPT !.step = op])]
       /\ stranded' = stranded \cup (IF op = "cancel" THEN {w.id} ELSE {})
       /\ UNCHANGED port

Goto(p, w) == work' = [work EXCEPT ![p] = w] /\ UNCHANGED <<port, stranded>>

others == <<job, issued, reported, dropped, late, restarts>>

(* The sizes are read, and declared; one that cannot be read ends it. *)
Begin(p, item) ==
    /\ work[p].step = "idle"
    /\ LET w == [Idle EXCEPT !.item = item]
       IN  Send(p, w, "begin") \/ Goto(p, Done(w, 0))
    /\ UNCHANGED others

Declared(p) == Size[work[p].item][work[p].file]

ReadChunk(p) ==
    /\ work[p].step = "reading"
    /\ work[p].offset < Declared(p) \/ p \in Changing
    /\ Send(p, work[p], "append")
    /\ UNCHANGED others

(* The next file, or the seal. *)
EndOfFile(p) ==
    /\ work[p].step = "reading"
    /\ work[p].offset = Declared(p) \/ p \in Changing
    /\ IF work[p].file < Len(Size[work[p].item])
         THEN Goto(p, [work[p] EXCEPT !.file = @ + 1, !.offset = 0])
         ELSE Send(p, [work[p] EXCEPT !.file = 1, !.offset = 0], "seal")
    /\ UNCHANGED others

ReadFails(p) ==
    /\ work[p].step = "reading" /\ Goto(p, Failed(work[p]))
    /\ UNCHANGED others

(* @finally, without success; the answer is not looked at. *)
GiveUp(p) ==
    /\ work[p].step = "failed" /\ Send(p, work[p], "cancel")
    /\ UNCHANGED others

(* What the caller does with the result, when nobody else says. *)
Return(p) == work[p].step = "done" /\ Goto(p, Idle) /\ UNCHANGED others

Unawaited(importers) ==
    [m \in DOMAIN port |-> IF port[m].from \in importers
                           THEN [port[m] EXCEPT !.from = Nobody] ELSE port[m]]

(* No answer within 120 seconds. *)
Abandon(p) ==
    /\ work[p].step \in Waiting
    /\ port' = Unawaited({p})
    /\ work' = [work EXCEPT ![p] = Failed(@)]
    /\ UNCHANGED <<others, stranded>>

-----------------------------------------------------------------------------
(* The daemon: the message at the head of the port is executed and answered. *)

m == Head(port)

Answer(id) ==
    /\ port' = Tail(port)
    /\ work' = IF m.from = Nobody THEN work ELSE [work EXCEPT ![m.from] = Advanced(@, id)]

Refuse ==
    /\ port' = Tail(port)
    /\ work' = IF m.from = Nobody THEN work ELSE [work EXCEPT ![m.from] = Failed(@)]

(* begin; refused for want of room, or of an account, a name or a directory. *)
BeginJob ==
    /\ m.op = "begin"
    /\ \/ /\ Cardinality(Listed) < MaxJobs /\ issued < MaxIds
          /\ issued' = issued + 1
          /\ job' = [job EXCEPT ![issued + 1] = NewJob(m.item)]
          /\ Answer(issued + 1)
          /\ stranded' = IF m.from = Nobody THEN stranded \cup {issued + 1} ELSE stranded
       \/ Refuse /\ UNCHANGED <<job, issued, stranded>>
    /\ UNCHANGED <<reported, dropped, late>>

Fits ==
    /\ job[m.id].state = "importing"
    /\ job[m.id].size[m.file] = m.offset
    /\ m.offset + Chunk <= Size[job[m.id].item][m.file]

(* appendChunk; a write that fails may be partial. *)
AppendChunk ==
    /\ m.op = "append"
    /\ \/ /\ Fits /\ job' = [job EXCEPT ![m.id].size[m.file] = @ + Chunk]
          /\ Answer(0)
       \/ /\ Fits /\ WritesFail /\ Refuse
          /\ \E n \in 0..Chunk - 1 : job' = [job EXCEPT ![m.id].size[m.file] = @ + n]
       \/ ~Fits /\ Refuse /\ UNCHANGED job
    /\ UNCHANGED <<issued, history>>

Same(j) == {k \in Listed \ {j} : /\ job[k].sealed /\ job[k].item = job[j].item
                                 /\ job[k].state # "cancelled"}

(* The id seal answers: the first job of the same original, else its own. *)
Answered(j) == IF Same(j) = {} THEN j ELSE CHOOSE k \in Same(j) : \A i \in Same(j) : k <= i

(* Mutant: seal does not compare sizes. *)
Whole_Unchecked == job[m.id].state = "importing"

Whole == job[m.id].state = "importing" /\ job[m.id].size = Size[job[m.id].item]

(* completed or cancelled, with its files removed. *)
Ended(j, state) == [j EXCEPT !.state = state, !.size = <<>>, !.cancelRequested = FALSE]
Cancelled(j) == Ended(j, "cancelled")

(* seal, which may fail to sync. *)
SealJob ==
    /\ m.op = "seal"
    /\ \/ /\ Whole
          /\ Answer(Answered(m.id))
          /\ IF m.from = Nobody
               THEN late' = late \cup {m.id} /\ UNCHANGED reported
               ELSE reported' = reported \cup {Answered(m.id)} /\ UNCHANGED late
          /\ job' = [job EXCEPT ![m.id] =
                         IF Same(m.id) = {} THEN [@ EXCEPT !.state = "queued", !.sealed = TRUE]
                         ELSE Cancelled(@)]
       \/ (~Whole \/ WritesFail) /\ Refuse /\ UNCHANGED <<job, late, reported>>
    /\ UNCHANGED <<issued, dropped, stranded>>

Cancellable(j) == job[j].state \in {"importing", "queued"}

(* cancel: at once, unless an upload runs, which is told to stop. *)
Cancel(j) ==
    job' \in {[job EXCEPT ![j] = Cancelled(@)]}
             \cup (IF job[j].state = "importing" THEN {}
                   ELSE {[job EXCEPT ![j].cancelRequested = TRUE]})

CancelJob ==
    /\ m.op = "cancel"
    /\ IF Cancellable(m.id)
         THEN /\ Cancel(m.id) /\ Answer(0)
              /\ dropped' = IF job[m.id].sealed THEN dropped \cup {m.id} ELSE dropped
         ELSE Refuse /\ UNCHANGED <<job, dropped>>
    /\ UNCHANGED <<issued, reported, late, stranded>>

Receive ==
    /\ port # <<>>
    /\ BeginJob \/ AppendChunk \/ SealJob \/ CancelJob
    /\ UNCHANGED restarts

(* The panel. *)
UserCancels(j) ==
    /\ Cancellable(j) /\ Cancel(j)
    /\ UNCHANGED <<issued, port, work, history, restarts>>

(* An upload ends, by completing, or cancelled as it was told to be. *)
Uploaded(j) ==
    /\ job[j].state = "queued"
    /\ \/ job' = [job EXCEPT ![j] = Ended(@, "completed")]
       \/ job[j].cancelRequested /\ job' = [job EXCEPT ![j] = Cancelled(@)]
    /\ UNCHANGED <<issued, port, work, history, restarts>>

(* Recovery cancels open imports. *)
Recovered(j) == IF j.state = "importing" THEN Cancelled(j) ELSE j

(* The daemon dies with its port; launchd starts the next. *)
DaemonRestarts ==
    /\ restarts < MaxRestarts /\ restarts' = restarts + 1
    /\ job' = [j \in Ids |-> Recovered(job[j])]
    /\ port' = <<>>
    /\ work' = [p \in Importers |-> IF work[p].step \in Waiting THEN Failed(work[p])
                                                               ELSE work[p]]
    /\ stranded' = stranded \cup {port[i].id : i \in {k \in DOMAIN port : port[k].op = "cancel"}}
    /\ UNCHANGED <<issued, reported, dropped, late>>

(* The ids an importer still has to report or to withdraw. *)
Holds(p, j) == work[p].step \in {"reading", "append", "seal", "failed"} /\ work[p].id = j

(* The host dies; what it has sent stays in the port. *)
HostDies ==
    /\ restarts < MaxRestarts /\ restarts' = restarts + 1
    /\ work' = [p \in Importers |-> Idle]
    /\ port' = Unawaited(Importers)
    /\ stranded' = stranded \cup {j \in Ids : \E p \in Importers : Holds(p, j)}
    /\ UNCHANGED <<job, issued, reported, dropped, late>>

-----------------------------------------------------------------------------
ImporterStep(p) ==
    ReadChunk(p) \/ EndOfFile(p) \/ ReadFails(p) \/ GiveUp(p) \/ Abandon(p)

EngineStep ==
    \/ Receive
    \/ \E j \in Ids : UserCancels(j) \/ Uploaded(j)
    \/ DaemonRestarts
=============================================================================
