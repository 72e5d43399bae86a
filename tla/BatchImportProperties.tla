----------------------- MODULE BatchImportProperties -----------------------
(***************************************************************************)
(* What holds between the batch, the importers, the port and the engine.   *)
(***************************************************************************)
EXTENDS BatchImport

Jobs == [state : {"none", "importing", "queued", "completed", "cancelled"}, item : Items,
         size : Seq(Nat), sealed : BOOLEAN, cancelRequested : BOOLEAN]
Steps == {"idle", "reading", "failed", "done"} \cup Waiting
Works == [step : Steps, item : Items, id : {0} \cup Ids, file : {1, 2}, offset : Nat]
Messages == [op : Waiting, from : Importers \cup {Nobody}, item : Items, id : {0} \cup Ids,
             file : {1, 2}, offset : Nat]

ImportTypes ==
    /\ job \in [Ids -> Jobs] /\ issued \in 0..MaxIds
    /\ port \in Seq(Messages) /\ work \in [Importers -> Works]
    /\ {reported, dropped, late, stranded} \subseteq SUBSET Ids
    /\ restarts \in 0..MaxRestarts

Ats == {"none", "starting", "next", "export", "exported", "import", "importing", "ending"}
Counts == [active : BOOLEAN, processed : Nat, queued : Nat, failed : Nat]

BatchTypeOK ==
    /\ ImportTypes /\ Len(port) <= PortLimit
    /\ {signedIn, current, files} \subseteq BOOLEAN
    /\ stop \in {"", "stopped"} /\ at \in Ats /\ last \in Counts
    /\ processed \in 0..Len(Selection) /\ queued \in Nat /\ failed \in Nat
    /\ processed = queued + failed
    /\ seen \subseteq Needs

(* What is queued for upload is whole: as many bytes as were declared, in     *)
(* the order they were read, although chunks are not retried, writes may be   *)
(* partial and the source may shrink or grow (appendChunk, seal).             *)
SealedIsWhole ==
    \A j \in Ids : job[j].state = "queued" => job[j].size = Size[job[j].item]

(* A cancellation of the job is on its way. *)
Withdrawing(j) ==
    \/ \E i \in DOMAIN port : port[i].op = "cancel" /\ port[i].id = j

(* An import that fails leaves nothing behind, neither open nor queued: every *)
(* job that is not settled was returned to somebody, is held by an importer   *)
(* or is being withdrawn, unless nobody has learnt its id, or the request to  *)
(* withdraw it was lost (GSImportFiles, IPCClient.m).                         *)
NothingLeftBehind ==
    \A j \in Ids :
        job[j].state \in {"importing", "queued"} =>
            \/ job[j].cancelRequested \/ Withdrawing(j)
            \/ \E p \in Importers : Holds(p, j)
            \/ j \in reported \cup stranded

(* The id an importer returns is that of a job with this original that was    *)
(* queued, its own or the one it duplicates; and what was returned is         *)
(* withdrawn by nobody but the user, except when the answer to the job's own  *)
(* seal came too late (seal, GSImportFiles).                                  *)
ReturnedIsQueued ==
    \A p \in Importers :
        work[p].step = "done" /\ work[p].id # 0 =>
            /\ job[work[p].id].sealed /\ job[work[p].id].item = work[p].item

ReturnedIsKept == ReturnedIsQueued /\ reported \cap dropped \subseteq late

(* Importing looks atomic to the importers and to the queue, although it is   *)
(* many requests: every behaviour of importers, port and engine is one of     *)
(* AtomicImport.  A job is in the queue once it is sealed, and whoever has    *)
(* begun an import has asked until it returns.                                *)
CallOf(w) ==
    CASE w.step = "idle" -> [phase |-> "idle", item |-> NoJob.item, id |-> 0]
      [] w.step = "done" -> [phase |-> "returned", item |-> w.item, id |-> w.id]
      [] OTHER -> [phase |-> "asked", item |-> w.item, id |-> 0]

EntryOf(j) ==
    IF ~j.sealed THEN [state |-> "none", item |-> NoJob.item]
    ELSE [state |-> IF j.state = "queued" /\ j.cancelRequested THEN "stopping" ELSE j.state,
          item |-> j.item]

Atomic == INSTANCE AtomicImport WITH
    Callers <- Importers,
    Jobs <- Ids,
    Nothing <- NoJob.item,
    call <- [p \in Importers |-> CallOf(work[p])],
    entry <- [j \in Ids |-> EntryOf(job[j])],
    late <- {j \in late : job[j].sealed},
    withdrawn <- dropped

ImportsAreAtomic == Atomic!AtomicSpec

(* An original goes to the engine only if, at some moment since its export,   *)
(* which may take hours, the batch was not stopped, and at some its account   *)
(* was signed in (GSCheckBatchAccount).                                       *)
ImportHeedsOwner ==
    [][work[Batch].step = "idle" /\ work'[Batch].step # "idle" => seen = Needs]_vars

(* While a batch is reserved its progress is shown as active, and only then;  *)
(* so a second batch is never shown as the first, or started during it.       *)
ProgressIsCurrent ==
    /\ last.active <=> current
    /\ current <=> at # "none"
    /\ at = "importing" <=> work[Batch].step # "idle"

(* What is shown is the batch that runs or the last one, and as many of the   *)
(* originals it went through as it shows to be queued have been, whatever     *)
(* stopped it or failed in between (GSRecordBatch, GSLastBatch).              *)
ShownIsQueued ==
    /\ ProgressIsCurrent
    /\ Cardinality({n \in 1..last.processed :
                      \E j \in Ids : job[j].sealed /\ job[j].item = Selection[n]}) >= last.queued

-----------------------------------------------------------------------------
(* What makes them inductive. *)

Holding == {"reading", "append", "seal", "failed"}

Known ==
    /\ \A j \in Ids : j > issued => job[j].state = "none" /\ ~job[j].sealed
    /\ \A p \in Importers :
          work[p].step \in Holding \cup {"cancel"} =>
              work[p].id \in 1..issued /\ job[work[p].id].item = work[p].item
    /\ \A i \in DOMAIN port : port[i].op # "begin" => port[i].id \in 1..issued

(* A message that is waited for is the only one, and is that of the step its *)
(* importer is at, so that no late answer is taken for its own.              *)
AwaitedMatches ==
    \A i \in DOMAIN port : port[i].from # Nobody =>
        /\ work[port[i].from].step = port[i].op
        /\ work[port[i].from].item = port[i].item
        /\ port[i].op # "begin" => work[port[i].from].id = port[i].id
        /\ \A k \in DOMAIN port : port[k].from = port[i].from => k = i

(* A job is held by one importer at most, and by none once it is withdrawn.  *)
OneHolder ==
    \A j \in Ids, p \in Importers :
        Holds(p, j) => /\ ~Withdrawing(j)
                       /\ \A q \in Importers : Holds(q, j) => q = p

(* Who still holds or withdraws a sealed job has not heard of its seal.      *)
LateUnlessReturned ==
    /\ \A j \in Ids : job[j].sealed /\ (Withdrawing(j) \/ \E p \in Importers : Holds(p, j))
                       => j \in late
    /\ dropped \subseteq late

(* A job is sealed when it is queued, and was not told to stop before; a seal *)
(* nobody waited for has been executed.                                      *)
LifeInv ==
    /\ \A j \in Ids :
          /\ job[j].state \in {"none", "importing"} => ~job[j].sealed
          /\ job[j].state = "importing" => ~job[j].cancelRequested
          /\ job[j].state \in {"queued", "completed"} => job[j].sealed
    /\ \A j \in late : job[j].state \notin {"none", "importing"}

ImportInv ==
    /\ ImportTypes
    /\ Known
    /\ AwaitedMatches
    /\ OneHolder
    /\ LateUnlessReturned
    /\ SealedIsWhole
    /\ ReturnedIsQueued
    /\ NothingLeftBehind

(* The counts of the batch, and what has been so since the export.           *)
Going == {"starting", "next", "export", "exported", "import", "importing"}

CountsMatch ==
    /\ at # "none" => last.processed = processed /\ last.queued = queued
    /\ at \in Going => processed < Len(Selection)
    /\ at = "importing" => work[Batch].item = Selection[processed + 1]

SeenSince ==
    /\ at = "exported" => Now \subseteq seen
    /\ at = "import" => seen = Needs

BatchInv == BatchTypeOK /\ ImportInv /\ ShownIsQueued /\ CountsMatch /\ SeenSince
=============================================================================
