------------------------- MODULE AtomicImportProofs -------------------------
(***************************************************************************)
(* What follows from importing as one step, for any callers and originals. *)
(***************************************************************************)
EXTENDS AtomicImport, TLAPS

(* A record is what it is made of. *)
LEMMA FieldsOf ==
  /\ \A phase, item, id : /\ Call(phase, item, id).phase = phase
                          /\ Call(phase, item, id).item = item
                          /\ Call(phase, item, id).id = id
  /\ \A state, item : Entry(state, item).state = state /\ Entry(state, item).item = item
BY DEF Call, Entry

(* A job that moves keeps its original, and is live only if it was. *)
LEMMA MoveIs ==
  ASSUME AtomicTypes, NEW j \in Jobs, Stops(j) \/ Uploads(j)
  PROVE  /\ entry' \in [Jobs -> Entries]
         /\ \A k \in Jobs : /\ entry'[k].item = entry[k].item
                            /\ entry[k].state # "none" => entry'[k].state # "none"
                            /\ entry'[k].state \notin {"none", "cancelled"} =>
                                 entry[k].state \notin {"none", "cancelled"}
<1>1. PICK from \in SUBSET {"queued", "stopping"},
           to \in {"stopping", "completed", "cancelled"} : Move(j, from, to)
  BY DEF Stops, Uploads
<1> DEFINE new == Entry(to, entry[j].item)
<1>2. new \in Entries
  BY DEF AtomicTypes, Entries, Entry
<1>3. new.state = to /\ new.item = entry[j].item
  BY FieldsOf
<1>4. entry' = [entry EXCEPT ![j] = new] /\ entry[j].state \in {"queued", "stopping"}
  BY <1>1 DEF Move
<1> HIDE DEF new
<1> QED
  BY <1>2, <1>3, <1>4 DEF AtomicTypes

LEMMA QueuesIs ==
  ASSUME AtomicTypes, NEW j \in Jobs, NEW item \in Items \cup {Nothing}, Queues(j, item)
  PROVE  /\ entry' \in [Jobs -> Entries]
         /\ entry[j].state = "none" /\ Live(item) = {}
         /\ entry'[j].state = "queued" /\ entry'[j].item = item
         /\ \A k \in Jobs \ {j} : entry'[k] = entry[k]
<1> DEFINE new == Entry("queued", item)
<1>1. new \in Entries
  BY DEF Entries, Entry
<1>2. new.state = "queued" /\ new.item = item /\ NoEntry.state = "none"
  BY FieldsOf DEF NoEntry
<1>3. entry' = [entry EXCEPT ![j] = new] /\ entry[j] = NoEntry /\ Live(item) = {}
  BY DEF Queues
<1> HIDE DEF new
<1> QED
  BY <1>1, <1>2, <1>3 DEF AtomicTypes

(* Jobs that stay, or move without changing their originals, keep the       *)
(* invariant if no call returns.                                            *)
LEMMA JobsMove ==
  ASSUME AtomicInv, entry' \in [Jobs -> Entries],
         \A k \in Jobs : /\ entry'[k].item = entry[k].item
                         /\ entry[k].state # "none" => entry'[k].state # "none"
                         /\ entry'[k].state \notin {"none", "cancelled"} =>
                              entry[k].state \notin {"none", "cancelled"}
  PROVE  OneJobPerOriginal'
<1> SUFFICES ASSUME NEW item \in Items, NEW j \in Live(item)', NEW k \in Live(item)' PROVE j = k
  BY DEF OneJobPerOriginal
<1>1. j \in Live(item) /\ k \in Live(item)
  BY DEF Live
<1> QED
  BY <1>1 DEF AtomicInv, OneJobPerOriginal

LEMMA QueuesOne ==
  ASSUME AtomicInv, NEW j \in Jobs, NEW item \in Items \cup {Nothing}, Queues(j, item)
  PROVE  OneJobPerOriginal'
<1>1. /\ entry' \in [Jobs -> Entries]
      /\ entry[j].state = "none" /\ Live(item) = {}
      /\ entry'[j].state = "queued" /\ entry'[j].item = item
      /\ \A k \in Jobs \ {j} : entry'[k] = entry[k]
  BY QueuesIs DEF AtomicInv
<1> SUFFICES ASSUME NEW i \in Items, NEW k \in Live(i)', NEW l \in Live(i)' PROVE k = l
  BY DEF OneJobPerOriginal
<1>2. \A n \in Live(i)' : n \in Live(i) \/ (n = j /\ i = item)
  BY <1>1 DEF Live
<1> QED
  BY <1>1, <1>2 DEF AtomicInv, OneJobPerOriginal

(* Calls that end return what they are given. *)
LEMMA ReturnedAgain ==
  ASSUME AtomicInv, call' \in [Callers -> Calls],
         \A k \in Jobs : entry[k].state # "none" =>
                           entry'[k].state # "none" /\ entry'[k].item = entry[k].item,
         \A p \in Callers :
            \/ Stays(p) \/ Asks(p) \/ Fails(p) \/ Finds(p) \/ Ends(p)
            \/ \E j \in Jobs : /\ Returns(p, j) /\ entry'[j].state # "none"
                               /\ entry'[j].item = call[p].item
  PROVE  ReturnedIsOwn'
<1> SUFFICES ASSUME NEW p \in Callers, call'[p].phase = "returned", call'[p].id # 0
             PROVE  entry'[call'[p].id].state # "none" /\ entry'[call'[p].id].item = call'[p].item
  BY DEF ReturnedIsOwn
<1>1. CASE Stays(p)
  <2>1. entry[call[p].id].state # "none" /\ entry[call[p].id].item = call[p].item
    BY <1>1 DEF Stays, AtomicInv, ReturnedIsOwn
  <2>2. call[p].id \in Jobs
    BY <1>1 DEF Stays, AtomicInv, AtomicTypes, Calls
  <2> QED
    BY <1>1, <2>1, <2>2 DEF Stays
<1>2. CASE Asks(p)
  BY <1>2, FieldsOf DEF Asks
<1>3. CASE Fails(p) \/ Ends(p)
  BY <1>3, FieldsOf DEF Fails, Returns, Ends, NoCall
<1>4. CASE Finds(p)
  <2>1. PICK j \in Live(call[p].item) : Returns(p, j)
    BY <1>4 DEF Finds
  <2>2. call'[p].id = j /\ call'[p].item = call[p].item
    BY <2>1, FieldsOf DEF Returns
  <2>3. j \in Jobs /\ entry[j].state # "none" /\ entry[j].item = call[p].item
    BY DEF Live
  <2> QED
    BY <2>2, <2>3
<1>5. ASSUME NEW j \in Jobs, Returns(p, j), entry'[j].state # "none",
             entry'[j].item = call[p].item
      PROVE  entry'[call'[p].id].state # "none" /\ entry'[call'[p].id].item = call'[p].item
  BY <1>5, FieldsOf DEF Returns
<1> QED
  BY <1>1, <1>2, <1>3, <1>4, <1>5

LEMMA AtomicStart == AtomicInit => AtomicInv
<1> SUFFICES ASSUME AtomicInit PROVE AtomicInv
  OBVIOUS
<1>1. NoCall \in Calls /\ NoEntry \in Entries
  BY DEF NoCall, Call, Calls, NoEntry, Entry, Entries
<1>2. NoCall.phase = "idle" /\ NoEntry.state = "none"
  BY FieldsOf DEF NoCall, NoEntry
<1>3. AtomicTypes
  BY <1>1 DEF AtomicInit, AtomicTypes
<1>4. \A item \in Items : Live(item) = {}
  BY <1>2 DEF AtomicInit, Live
<1> QED
  BY <1>2, <1>3, <1>4 DEF AtomicInit, AtomicInv, OneJobPerOriginal, ReturnedIsOwn, WithdrawnWereLate

LEMMA AtomicStep == AtomicInv /\ [AtomicNext]_atomicVars => AtomicInv'
<1> SUFFICES ASSUME AtomicInv, [AtomicNext]_atomicVars PROVE AtomicInv'
  OBVIOUS
<1>0. AtomicTypes /\ WithdrawnWereLate
  BY DEF AtomicInv
<1>1. CASE CallsMove
  <2>1. UNCHANGED <<entry, late, withdrawn>> /\ call' \in [Callers -> Calls]
    BY <1>1 DEF CallsMove
  <2>2. OneJobPerOriginal'
    BY <1>0, <2>1, JobsMove DEF AtomicTypes
  <2>3. ReturnedIsOwn'
    BY <1>1, <2>1, ReturnedAgain DEF CallsMove
  <2> QED
    BY <1>0, <2>1, <2>2, <2>3 DEF AtomicInv, AtomicTypes, WithdrawnWereLate
<1>2. ASSUME NEW j \in Jobs, NEW p \in Callers, Accept(p, j) PROVE AtomicInv'
  <2>1. /\ call' \in [Callers -> Calls] /\ Queues(j, call[p].item) /\ Returns(p, j)
        /\ \A q \in Callers \ {p} : Stays(q)
        /\ UNCHANGED <<late, withdrawn>>
    BY <1>2 DEF Accept
  <2>2. call[p].item \in Items \cup {Nothing}
    BY <1>0 DEF AtomicTypes, Calls
  <2>3. /\ entry' \in [Jobs -> Entries]
        /\ entry[j].state = "none"
        /\ entry'[j].state = "queued" /\ entry'[j].item = call[p].item
        /\ \A k \in Jobs \ {j} : entry'[k] = entry[k]
    BY <1>0, <2>1, <2>2, QueuesIs
  <2>4. OneJobPerOriginal'
    BY <2>1, <2>2, QueuesOne
  <2>5. ReturnedIsOwn'
    BY <2>1, <2>3, ReturnedAgain
  <2> QED
    BY <1>0, <2>1, <2>3, <2>4, <2>5 DEF AtomicInv, AtomicTypes, WithdrawnWereLate
<1>3. ASSUME NEW j \in Jobs, NEW item \in Items, ComeLate(j, item) PROVE AtomicInv'
  <2>1. Queues(j, item) /\ late' = late \cup {j} /\ UNCHANGED <<call, withdrawn>>
    BY <1>3 DEF ComeLate
  <2>2. /\ entry' \in [Jobs -> Entries]
        /\ entry[j].state = "none"
        /\ \A k \in Jobs \ {j} : entry'[k] = entry[k]
    BY <1>0, <2>1, QueuesIs
  <2>3. OneJobPerOriginal'
    BY <2>1, QueuesOne
  <2>4. ReturnedIsOwn'
    BY <1>0, <2>1, <2>2, ReturnedAgain DEF AtomicTypes, Stays
  <2> QED
    BY <1>0, <2>1, <2>2, <2>3, <2>4 DEF AtomicInv, AtomicTypes, WithdrawnWereLate
<1>4. ASSUME NEW j \in Jobs, Stops(j) \/ Uploads(j), call' \in [Callers -> Calls],
             \A p \in Callers : Stays(p) \/ Fails(p), UNCHANGED late, withdrawn' \subseteq late
      PROVE  AtomicInv'
  <2>1. /\ entry' \in [Jobs -> Entries]
        /\ \A k \in Jobs : /\ entry'[k].item = entry[k].item
                           /\ entry[k].state # "none" => entry'[k].state # "none"
                           /\ entry'[k].state \notin {"none", "cancelled"} =>
                                entry[k].state \notin {"none", "cancelled"}
    BY <1>0, <1>4, MoveIs
  <2>2. OneJobPerOriginal' /\ ReturnedIsOwn'
    BY <1>4, <2>1, JobsMove, ReturnedAgain
  <2> QED
    BY <1>4, <2>1, <2>2 DEF AtomicInv, AtomicTypes, WithdrawnWereLate
<1>5. ASSUME NEW j \in Jobs, Withdraw(j) PROVE AtomicInv'
  BY <1>0, <1>4, <1>5 DEF Withdraw, WithdrawnWereLate
<1>6. ASSUME NEW j \in Jobs, JobMoves(j) PROVE AtomicInv'
  BY <1>0, <1>4, <1>6 DEF JobMoves, WithdrawnWereLate, AtomicTypes, Stays
<1>7. CASE UNCHANGED atomicVars
  BY <1>7 DEF atomicVars, AtomicInv, AtomicTypes, OneJobPerOriginal, Live, ReturnedIsOwn,
              WithdrawnWereLate
<1> QED
  BY <1>1, <1>2, <1>3, <1>5, <1>6, <1>7 DEF AtomicNext

(* No original is uploaded twice at once, a call returns a job of its own    *)
(* original, and only what came late is withdrawn by importers.              *)
THEOREM AtomicImportIsSafe == AtomicSpec => []AtomicInv
BY AtomicStart, AtomicStep, PTL DEF AtomicSpec
=============================================================================
