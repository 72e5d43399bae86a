---------------------------- MODULE AtomicImport ----------------------------
(***************************************************************************)
(* What handing an original over to the queue promises, whatever requests  *)
(* and answers are lost or late and whoever dies.  A call that returns a   *)
(* job has, in one step, queued it or found the one of the same original;  *)
(* one that returns none has left the queue alone.  Only a job whose seal  *)
(* nobody waited for comes into the queue by itself, and only such a job   *)
(* is withdrawn by an importer.                                            *)
(***************************************************************************)
EXTENDS Naturals

CONSTANTS Callers, Items, Jobs,
    Nothing  \* stands for the original of no call and of no job

VARIABLES
    call,       \* what each caller does, for which original, and its job or 0
    entry,      \* state and original of each job, none until it is queued
    late,       \* jobs queued without anybody being told
    withdrawn   \* jobs that importers have withdrawn

atomicVars == <<call, entry, late, withdrawn>>

Calls == [phase : {"idle", "asked", "returned"}, item : Items \cup {Nothing},
          id : {0} \cup Jobs]
Call(phase, item, id) == [phase |-> phase, item |-> item, id |-> id]
NoCall == Call("idle", Nothing, 0)

Entries == [state : {"none", "queued", "stopping", "completed", "cancelled"},
            item : Items \cup {Nothing}]
Entry(state, item) == [state |-> state, item |-> item]
NoEntry == Entry("none", Nothing)

AtomicInit ==
    /\ call = [p \in Callers |-> NoCall]
    /\ entry = [j \in Jobs |-> NoEntry]
    /\ late = {} /\ withdrawn = {}

(* Jobs that a call for this original may return. *)
Live(item) == {j \in Jobs : entry[j].state \notin {"none", "cancelled"} /\ entry[j].item = item}

-----------------------------------------------------------------------------
(* What may become of a call by itself: it is made and may fail at once, it *)
(* fails, it finds a job, or it is over, as all are when their host dies.   *)
Stays(p) == call'[p] = call[p]

Asks(p) ==
    /\ call[p] = NoCall
    /\ \E phase \in {"asked", "returned"}, item \in Items : call'[p] = Call(phase, item, 0)

Returns(p, j) ==
    /\ call[p].phase = "asked"
    /\ call'[p] = Call("returned", call[p].item, j)

Fails(p) == Returns(p, 0)

Finds(p) == \E j \in Live(call[p].item) : Returns(p, j)

Ends(p) == call'[p] = NoCall

(* What may become of a job; an upload that is to stop may still complete. *)
Move(j, from, to) ==
    /\ entry[j].state \in from
    /\ entry' = [entry EXCEPT ![j] = Entry(to, entry[j].item)]

Stops(j) == \E state \in {"stopping", "cancelled"} : Move(j, {"queued", "stopping"}, state)

Uploads(j) == Move(j, {"queued", "stopping"}, "completed") \/ Move(j, {"stopping"}, "cancelled")

Queues(j, item) ==
    /\ entry[j] = NoEntry /\ Live(item) = {}
    /\ entry' = [entry EXCEPT ![j] = Entry("queued", item)]

-----------------------------------------------------------------------------
(* The queue is left alone. *)
CallsMove ==
    /\ call' \in [Callers -> Calls]
    /\ \A p \in Callers : Stays(p) \/ Asks(p) \/ Fails(p) \/ Finds(p) \/ Ends(p)
    /\ UNCHANGED <<entry, late, withdrawn>>

Accept(p, j) ==
    /\ call' \in [Callers -> Calls]
    /\ Returns(p, j) /\ \A q \in Callers \ {p} : Stays(q)
    /\ Queues(j, call[p].item)
    /\ UNCHANGED <<late, withdrawn>>

ComeLate(j, item) ==
    /\ Queues(j, item)
    /\ late' = late \cup {j}
    /\ UNCHANGED <<call, withdrawn>>

(* A call that waited for this has failed. *)
Withdraw(j) ==
    /\ j \in late /\ Stops(j)
    /\ call' \in [Callers -> Calls]
    /\ \A p \in Callers : Stays(p) \/ Fails(p)
    /\ withdrawn' = withdrawn \cup {j}
    /\ UNCHANGED late

(* The user, or the upload. *)
JobMoves(j) ==
    /\ Stops(j) \/ Uploads(j)
    /\ UNCHANGED <<call, late, withdrawn>>

AtomicNext ==
    \/ CallsMove
    \/ \E j \in Jobs :
          \/ \E p \in Callers : Accept(p, j)
          \/ \E item \in Items : ComeLate(j, item)
          \/ Withdraw(j) \/ JobMoves(j)

AtomicSpec == AtomicInit /\ [][AtomicNext]_atomicVars

-----------------------------------------------------------------------------
(* Two calls never get two jobs of one original that both upload. *)
OneJobPerOriginal == \A item \in Items : \A j, k \in Live(item) : j = k

(* A call returns a job that is, or has been, queued with its original. *)
ReturnedIsOwn ==
    \A p \in Callers :
        call[p].phase = "returned" /\ call[p].id # 0 =>
            entry[call[p].id].state # "none" /\ entry[call[p].id].item = call[p].item

(* What somebody was told to be queued is not withdrawn behind their back. *)
WithdrawnWereLate == withdrawn \subseteq late

AtomicTypes == call \in [Callers -> Calls] /\ entry \in [Jobs -> Entries]

AtomicInv == AtomicTypes /\ OneJobPerOriginal /\ ReturnedIsOwn /\ WithdrawnWereLate
=============================================================================
