-------------------------- MODULE BatchImportProofs --------------------------
(***************************************************************************)
(* Machine-checked proofs about imports and batches of them, for any number *)
(* of importers, originals, files, chunks and restarts.                     *)
(***************************************************************************)
EXTENDS BatchImportProperties, SequenceTheorems, FiniteSetTheorems,
        WellFoundedInduction, TLAPS

-----------------------------------------------------------------------------
(* Records and sequences.                                                  *)

LEMMA SomeItem == NoJob.item \in Items /\ Idle.item = NoJob.item
<1>1. Selection[1] \in Items
  BY BatchAssumption DEF BatchAssumption
<1> QED BY <1>1 DEF NoJob, Idle

(* The fields of a record of a job that differs in one respect.             *)
LEMMA NoJobIs ==
  /\ NoJob \in Jobs /\ NoJob.state = "none" /\ ~NoJob.sealed /\ ~NoJob.cancelRequested
<1>1. <<>> \in Seq(Nat) OBVIOUS
<1> QED BY <1>1, SomeItem DEF NoJob, Jobs

LEMMA NewJobIs ==
  ASSUME NEW item \in Items
  PROVE  /\ NewJob(item) \in Jobs
         /\ NewJob(item).state = "importing" /\ NewJob(item).item = item
         /\ ~NewJob(item).sealed /\ ~NewJob(item).cancelRequested
<1> DEFINE sizes == [f \in DOMAIN Size[item] |-> 0]
<1>1. Size[item] \in Seq(Nat \ {0})
  BY ImportAssumption DEF ImportAssumption
<1>2. DOMAIN Size[item] = 1..Len(Size[item]) /\ Len(Size[item]) \in Nat
  BY <1>1
<1>3. sizes \in Seq(Nat)
  BY <1>2
<1>4. NewJob(item) = [NoJob EXCEPT !.state = "importing", !.item = item, !.size = sizes]
  BY DEF NewJob
<1> HIDE DEF sizes
<1> QED BY <1>3, <1>4, NoJobIs DEF Jobs

LEMMA EndedIs ==
  ASSUME NEW r \in Jobs, NEW state \in {"completed", "cancelled"}
  PROVE  /\ Ended(r, state) \in Jobs
         /\ Ended(r, state).state = state /\ Ended(r, state).item = r.item
         /\ Ended(r, state).sealed = r.sealed /\ ~Ended(r, state).cancelRequested
<1> DEFINE empty == <<>>
           no == FALSE
<1>1. empty \in Seq(Nat) /\ no \in BOOLEAN /\ ~no OBVIOUS
<1>2. Ended(r, state) = [r EXCEPT !.state = state, !.size = empty, !.cancelRequested = no]
  BY DEF Ended
<1> HIDE DEF empty, no
<1> QED BY <1>1, <1>2 DEF Jobs

LEMMA RequestedIs ==
  ASSUME NEW r \in Jobs
  PROVE  LET new == [r EXCEPT !.cancelRequested = TRUE]
         IN  /\ new \in Jobs /\ new.cancelRequested
             /\ new.state = r.state /\ new.item = r.item /\ new.sealed = r.sealed
             /\ new.size = r.size
BY DEF Jobs

LEMMA QueuedIs ==
  ASSUME NEW r \in Jobs
  PROVE  LET new == [r EXCEPT !.state = "queued", !.sealed = TRUE]
         IN  /\ new \in Jobs /\ new.state = "queued" /\ new.sealed
             /\ new.item = r.item /\ new.size = r.size
BY DEF Jobs

LEMMA GrownIs ==
  ASSUME NEW r \in Jobs, NEW sizes \in Seq(Nat)
  PROVE  LET new == [r EXCEPT !.size = sizes]
         IN  /\ new \in Jobs
             /\ new.state = r.state /\ new.item = r.item /\ new.sealed = r.sealed
             /\ new.cancelRequested = r.cancelRequested
BY DEF Jobs

LEMMA WrittenIs ==
  ASSUME NEW size \in Seq(Nat), NEW f, NEW n \in Nat
  PROVE  [size EXCEPT ![f] = @ + n] \in Seq(Nat)
<1> DEFINE sizes == [size EXCEPT ![f] = @ + n]
<1>1. DOMAIN size = 1..Len(size) /\ Len(size) \in Nat
  OBVIOUS
<1>2. sizes = [i \in 1..Len(size) |-> IF i = f THEN size[f] + n ELSE size[i]]
  BY <1>1
<1>3. \A i \in 1..Len(size) : size[i] \in Nat
  OBVIOUS
<1> HIDE DEF sizes
<1>4. sizes \in Seq(Nat)
  BY <1>1, <1>2, <1>3
<1> QED BY <1>4 DEF sizes

LEMMA SetJob ==
  ASSUME job \in [Ids -> Jobs], NEW j \in Ids, NEW r \in Jobs, job' = [job EXCEPT ![j] = r]
  PROVE  job' \in [Ids -> Jobs] /\ job'[j] = r /\ \A k \in Ids \ {j} : job'[k] = job[k]
OBVIOUS

LEMMA SetWork ==
  ASSUME work \in [Importers -> Works], NEW p \in Importers, NEW w \in Works,
         work' = [work EXCEPT ![p] = w]
  PROVE  /\ work' \in [Importers -> Works] /\ work'[p] = w
         /\ \A q \in Importers \ {p} : work'[q] = work[q]
OBVIOUS

(* The port after a message was sent, ... *)
LEMMA PortSent ==
  ASSUME port \in Seq(Messages), NEW x \in Messages, port' = Append(port, x)
  PROVE  /\ port' \in Seq(Messages)
         /\ Len(port) + 1 \in DOMAIN port' /\ port'[Len(port) + 1] = x
         /\ Len(port) + 1 \notin DOMAIN port
         /\ \A i \in DOMAIN port : i \in DOMAIN port' /\ port'[i] = port[i]
         /\ \A i \in DOMAIN port' : i \in DOMAIN port \/ i = Len(port) + 1
<1>1. /\ Append(port, x) \in Seq(Messages) /\ Len(Append(port, x)) = Len(port) + 1
      /\ Append(port, x)[Len(port) + 1] = x
      /\ \A i \in 1..Len(port) : Append(port, x)[i] = port[i]
  BY AppendProperties
<1>2. /\ DOMAIN port = 1..Len(port) /\ Len(port) \in Nat
      /\ DOMAIN Append(port, x) = 1..Len(Append(port, x))
  BY <1>1
<1> QED BY <1>1, <1>2

(* ... taken, ... *)
LEMMA PortTaken ==
  ASSUME port \in Seq(Messages), port # <<>>, port' = Tail(port)
  PROVE  /\ port' \in Seq(Messages) /\ Len(port') <= Len(port)
         /\ m \in Messages /\ 1 \in DOMAIN port /\ port[1] = m
         /\ \A i \in DOMAIN port' : i + 1 \in DOMAIN port /\ port'[i] = port[i + 1] /\ i + 1 # 1
         /\ \A i \in DOMAIN port \ {1} : i - 1 \in DOMAIN port' /\ port'[i - 1] = port[i]
<1>1. DOMAIN port = 1..Len(port) /\ Len(port) \in Nat \ {0}
  BY EmptySeq
<1>2. /\ Head(port) \in Messages /\ Tail(port) \in Seq(Messages) /\ Len(Tail(port)) = Len(port) - 1
      /\ \A i \in 1..Len(Tail(port)) : Tail(port)[i] = port[i + 1]
  BY HeadTailProperties
<1>3. DOMAIN Tail(port) = 1..Len(Tail(port)) /\ Head(port) = port[1]
  BY <1>1, <1>2
<1> QED BY <1>1, <1>2, <1>3 DEF m

(* ... or is not waited for any more. *)
LEMMA PortUnawaited ==
  ASSUME port \in Seq(Messages), NEW S, port' = Unawaited(S)
  PROVE  /\ port' \in Seq(Messages) /\ Len(port') = Len(port) /\ DOMAIN port' = DOMAIN port
         /\ \A i \in DOMAIN port :
              /\ port'[i].op = port[i].op /\ port'[i].item = port[i].item /\ port'[i].id = port[i].id
              /\ port'[i].from = IF port[i].from \in S THEN Nobody ELSE port[i].from
<1>1. DOMAIN port = 1..Len(port) /\ Len(port) \in Nat
  OBVIOUS
<1>2. \A i \in DOMAIN port : port[i] \in Messages /\ [port[i] EXCEPT !.from = Nobody] \in Messages
  <2>1. \A i \in DOMAIN port : port[i] \in Messages
    BY <1>1
  <2> QED BY <2>1 DEF Messages
<1>3. port' = [i \in 1..Len(port) |-> IF port[i].from \in S THEN [port[i] EXCEPT !.from = Nobody]
                                                            ELSE port[i]]
  BY <1>1 DEF Unawaited
<1>4. \A i \in 1..Len(port) : port'[i] \in Messages
  BY <1>1, <1>2, <1>3
<1>5. port' \in Seq(Messages) /\ Len(port') = Len(port) /\ DOMAIN port' = DOMAIN port
  BY <1>1, <1>3, <1>4
<1>6. \A i \in DOMAIN port :
        /\ port'[i].op = port[i].op /\ port'[i].item = port[i].item /\ port'[i].id = port[i].id
        /\ port'[i].from = IF port[i].from \in S THEN Nobody ELSE port[i].from
  BY <1>1, <1>2, <1>3 DEF Messages
<1> QED BY <1>5, <1>6

-----------------------------------------------------------------------------
(* Steps of an importer by itself.                                         *)

LEMMA DoneIs ==
  ASSUME NEW w \in Works, NEW id \in {0} \cup Ids
  PROVE  /\ Done(w, id) \in Works
         /\ Done(w, id).step = "done" /\ Done(w, id).id = id /\ Done(w, id).item = w.item
BY SomeItem DEF Done, Idle, Works, Steps

LEMMA FailedIs ==
  ASSUME NEW w \in Works
  PROVE  /\ Failed(w) \in Works /\ Failed(w).item = w.item
         /\ w.step \in {"begin", "cancel"} => Failed(w).step = "done" /\ Failed(w).id = 0
         /\ w.step \notin {"begin", "cancel"} => Failed(w).step = "failed" /\ Failed(w).id = w.id
<1>1. [Idle EXCEPT !.step = "failed", !.item = w.item, !.id = w.id] \in Works
  BY SomeItem DEF Idle, Works, Steps
<1>2. w.step \in {"begin", "cancel"} => Failed(w) = Done(w, 0)
  BY DEF Failed
<1>3. w.step \notin {"begin", "cancel"} =>
        Failed(w) = [Idle EXCEPT !.step = "failed", !.item = w.item, !.id = w.id]
  BY DEF Failed
<1>4. /\ Done(w, 0) \in Works /\ Done(w, 0).step = "done" /\ Done(w, 0).id = 0
      /\ Done(w, 0).item = w.item
  BY DoneIs
<1>5. w.step \in {"begin", "cancel"} \/ w.step \notin {"begin", "cancel"}
  OBVIOUS
<1> QED BY <1>1, <1>2, <1>3, <1>4, <1>5 DEF Idle

Message(p, w) == [op |-> w.step, from |-> p, item |-> w.item, id |-> w.id,
                  file |-> w.file, offset |-> w.offset]

(* Importer p goes on to w, and sends a message if it then waits for one.  *)
Local(p, w) ==
    /\ work' = [work EXCEPT ![p] = w]
    /\ work[p].step \notin Waiting
    /\ \/ port' = port /\ w.step \notin Waiting
       \/ port' = Append(port, Message(p, w)) /\ w.step \in Waiting /\ Len(port) < PortLimit
    /\ w.step \in Holding \cup {"cancel"} =>
         work[p].step \in Holding /\ w.id = work[p].id /\ w.item = work[p].item
    /\ work[p].step \in Holding =>
         w.step \in Holding \cup {"cancel"} \/ work[p].id \in stranded'
    /\ w.step = "done" => w.id = 0
    /\ stranded \subseteq stranded' /\ stranded' \subseteq stranded \cup ({work[p].id} \ {0})
    /\ UNCHANGED others

LEMMA SendIs ==
  ASSUME NEW p \in Importers, NEW w \in Works, NEW op \in Waiting, Send(p, w, op),
         work[p].step \notin Waiting, UNCHANGED others,
         op # "begin" => work[p].step \in Holding /\ w.id = work[p].id /\ w.item = work[p].item,
         op = "begin" => work[p].step \notin Holding,
         op = "cancel" => w.id # 0
  PROVE  \E v \in Works : Local(p, v)
<1> DEFINE v == [w EXCEPT !.step = op]
<1>1. v \in Works /\ v.step = op /\ v.id = w.id /\ v.item = w.item /\ v.file = w.file
      /\ v.offset = w.offset
  BY DEF Works, Steps
<1> HIDE DEF v
<1>2. CASE /\ port' = Append(port, [op |-> op, from |-> p, item |-> w.item, id |-> w.id,
                                    file |-> w.file, offset |-> w.offset])
           /\ Len(port) < PortLimit
           /\ work' = [work EXCEPT ![p] = v] /\ UNCHANGED stranded
  <2>1. port' = Append(port, Message(p, v))
    BY <1>1, <1>2 DEF Message
  <2>2. op = "begin" \/ op \in Holding \cup {"cancel"}
    BY DEF Waiting, Holding
  <2>3. Local(p, v)
    BY <1>1, <1>2, <2>1, <2>2 DEF Local, Waiting, Holding
  <2> QED BY <1>1, <2>3
<1>3. CASE /\ work' = [work EXCEPT ![p] = Failed(v)] /\ UNCHANGED port
           /\ stranded' = stranded \cup (IF op = "cancel" THEN {w.id} ELSE {})
  <2>1. /\ Failed(v) \in Works /\ Failed(v).item = w.item
        /\ op \in {"begin", "cancel"} => Failed(v).step = "done" /\ Failed(v).id = 0
        /\ op \notin {"begin", "cancel"} => Failed(v).step = "failed" /\ Failed(v).id = w.id
    BY <1>1, FailedIs
  <2>2. Local(p, Failed(v))
    BY <1>3, <2>1 DEF Local, Waiting, Holding
  <2> QED BY <2>1, <2>2
<1> QED BY <1>2, <1>3 DEF Send, v

LEMMA GotoIs ==
  ASSUME NEW p \in Importers, NEW w \in Works, Goto(p, w), UNCHANGED others,
         work[p].step \notin Waiting, w.step \notin Waiting,
         w.step \in Holding => work[p].step \in Holding /\ w.id = work[p].id /\ w.item = work[p].item,
         work[p].step \in Holding => w.step \in Holding,
         w.step = "done" => w.id = 0
  PROVE  Local(p, w)
BY DEF Goto, Local, Waiting, Holding

ImporterAlone(p) ==
    \/ \E item \in Items : Begin(p, item)
    \/ ReadChunk(p) \/ EndOfFile(p) \/ ReadFails(p) \/ GiveUp(p) \/ Return(p)

LEMMA AloneIsLocal ==
  ASSUME ImportTypes, Known, NEW p \in Importers, ImporterAlone(p)
  PROVE  \E w \in Works : Local(p, w)
<1>1. work[p] \in Works /\ work[p].step \in Steps /\ work[p].item \in Items
  BY DEF ImportTypes, Works
<1>2. work[p].step \in Holding => work[p].id \in 1..issued /\ work[p].id # 0
  <2>1. issued \in Nat
    BY ImportAssumption DEF ImportTypes, ImportAssumption
  <2> QED BY <2>1 DEF Known
<1>3. ASSUME NEW item \in Items, Begin(p, item) PROVE \E w \in Works : Local(p, w)
  <2> DEFINE w == [Idle EXCEPT !.item = item]
  <2>1. w \in Works
    BY SomeItem DEF Idle, Works, Steps
  <2>2. CASE Send(p, w, "begin")
    BY <1>3, <2>1, <2>2, SendIs DEF Begin, Waiting, Holding
  <2>3. CASE Goto(p, Done(w, 0))
    <3>1. Done(w, 0) \in Works /\ Done(w, 0).step = "done" /\ Done(w, 0).id = 0
      BY <2>1, DoneIs
    <3>2. Local(p, Done(w, 0))
      BY <1>3, <2>3, <3>1, GotoIs DEF Begin, Waiting, Holding
    <3> QED BY <3>1, <3>2
  <2> QED BY <1>3, <2>2, <2>3 DEF Begin
<1>4. CASE ReadChunk(p)
  BY <1>1, <1>2, <1>4, SendIs DEF ReadChunk, Waiting, Holding
<1>5. CASE EndOfFile(p)
  <2>1. CASE work[p].file < Len(Size[work[p].item]) /\ Goto(p, [work[p] EXCEPT !.file = @ + 1, !.offset = 0])
    <3> DEFINE w == [work[p] EXCEPT !.file = @ + 1, !.offset = 0]
    <3>1. work[p].file + 1 \in {1, 2} /\ 0 \in Nat
      <4>1. Len(Size[work[p].item]) \in {1, 2} /\ work[p].file \in {1, 2}
        BY <1>1, ImportAssumption DEF ImportAssumption, Works
      <4> DEFINE n == Len(Size[work[p].item])
      <4>2. \A i, k \in {1, 2} : i < k => i + 1 \in {1, 2}
        OBVIOUS
      <4>3. work[p].file < n
        BY <2>1
      <4> HIDE DEF n
      <4> QED BY <4>1, <4>2, <4>3 DEF n
    <3>2. w \in Works /\ w.step = work[p].step /\ w.id = work[p].id /\ w.item = work[p].item
      BY <1>1, <3>1 DEF Works
    <3> HIDE DEF w
    <3>3. Local(p, w)
      BY <1>5, <2>1, <3>2, GotoIs DEF EndOfFile, Waiting, Holding, w
    <3> QED BY <3>2, <3>3
  <2>2. CASE Send(p, [work[p] EXCEPT !.file = 1, !.offset = 0], "seal")
    <3> DEFINE w == [work[p] EXCEPT !.file = 1, !.offset = 0]
    <3>1. w \in Works /\ w.id = work[p].id /\ w.item = work[p].item
      BY <1>1 DEF Works
    <3> HIDE DEF w
    <3> QED BY <1>5, <2>2, <3>1, SendIs DEF EndOfFile, Waiting, Holding, w
  <2> QED BY <1>5, <2>1, <2>2 DEF EndOfFile
<1>6. CASE ReadFails(p)
  <2>1. Failed(work[p]) \in Works /\ Failed(work[p]).step = "failed"
        /\ Failed(work[p]).id = work[p].id /\ Failed(work[p]).item = work[p].item
    BY <1>1, <1>6, FailedIs DEF ReadFails
  <2>2. Local(p, Failed(work[p]))
    BY <1>6, <2>1, GotoIs DEF ReadFails, Waiting, Holding
  <2> QED BY <2>1, <2>2
<1>7. CASE GiveUp(p)
  BY <1>1, <1>2, <1>7, SendIs DEF GiveUp, Waiting, Holding
<1>8. CASE Return(p)
  <2>1. Idle \in Works /\ Idle.step = "idle"
    BY SomeItem DEF Idle, Works, Steps
  <2>2. Local(p, Idle)
    BY <1>8, <2>1, GotoIs DEF Return, Waiting, Holding
  <2> QED BY <2>1, <2>2
<1> QED BY <1>3, <1>4, <1>5, <1>6, <1>7, <1>8 DEF ImporterAlone

LEMMA LocalPort ==
  ASSUME ImportTypes, AwaitedMatches, NEW p \in Importers, NEW w \in Works, Local(p, w)
  PROVE  /\ port' \in Seq(Messages)
         /\ work' \in [Importers -> Works] /\ work'[p] = w
         /\ \A q \in Importers \ {p} : work'[q] = work[q]
         /\ \A i \in DOMAIN port : i \in DOMAIN port' /\ port'[i] = port[i] /\ port[i].from # p
         /\ \A i \in DOMAIN port' :
              \/ i \in DOMAIN port /\ port'[i] = port[i]
              \/ i \notin DOMAIN port /\ port'[i] = Message(p, w) /\ w.step \in Waiting
         /\ \A i, k \in DOMAIN port' : i \notin DOMAIN port /\ k \notin DOMAIN port => i = k
         /\ w.step \in Waiting => \E i \in DOMAIN port' : port'[i] = Message(p, w)
<1>1. port \in Seq(Messages) /\ work \in [Importers -> Works] /\ p # Nobody
  BY ImportAssumption DEF ImportTypes, ImportAssumption
<1>2. \A i \in DOMAIN port : port[i].from # p
  <2>1. \A i \in DOMAIN port : port[i].op \in Waiting
    <3>1. \A i \in DOMAIN port : port[i] \in Messages
      BY <1>1
    <3> QED BY <3>1 DEF Messages
  <2> QED BY <1>1, <2>1 DEF AwaitedMatches, Local
<1>3. w.step \in Waiting => Message(p, w) \in Messages
  BY DEF Message, Messages, Works
<1>4. /\ work' \in [Importers -> Works] /\ work'[p] = w
      /\ \A q \in Importers \ {p} : work'[q] = work[q]
  BY <1>1, SetWork DEF Local
<1>5. CASE port' = port /\ w.step \notin Waiting
  BY <1>1, <1>2, <1>4, <1>5
<1>6. CASE port' = Append(port, Message(p, w)) /\ w.step \in Waiting
  <2> DEFINE x == Message(p, w)
             n == Len(port) + 1
  <2>1. x \in Messages /\ port' = Append(port, x)
    BY <1>3, <1>6
  <2>2. /\ port' \in Seq(Messages) /\ n \in DOMAIN port' /\ port'[n] = x /\ n \notin DOMAIN port
        /\ \A i \in DOMAIN port : i \in DOMAIN port' /\ port'[i] = port[i]
        /\ \A i \in DOMAIN port' : i \in DOMAIN port \/ i = n
    BY <1>1, <2>1, PortSent
  <2> HIDE DEF x, n
  <2> QED BY <1>2, <1>4, <1>6, <2>2 DEF x
<1> QED BY <1>5, <1>6 DEF Local

(* What an importer does by itself moves no other, and changes no job.      *)
LEMMA LocalKeeps ==
  ASSUME ImportInv, NEW p \in Importers, NEW w \in Works, Local(p, w)
  PROVE  ImportInv'
<1> DEFINE x == Message(p, w)
<1>1. /\ x.op = w.step /\ x.from = p /\ x.item = w.item /\ x.id = w.id
  BY DEF Message
<1>2. /\ port' \in Seq(Messages)
      /\ work' \in [Importers -> Works] /\ work'[p] = w
      /\ \A q \in Importers \ {p} : work'[q] = work[q]
      /\ \A i \in DOMAIN port : i \in DOMAIN port' /\ port'[i] = port[i] /\ port[i].from # p
      /\ \A i \in DOMAIN port' :
           \/ i \in DOMAIN port /\ port'[i] = port[i]
           \/ i \notin DOMAIN port /\ port'[i] = x /\ w.step \in Waiting
      /\ \A i, k \in DOMAIN port' : i \notin DOMAIN port /\ k \notin DOMAIN port => i = k
      /\ w.step \in Waiting => \E i \in DOMAIN port' : port'[i] = x
  BY LocalPort DEF ImportInv
<1> HIDE DEF x
<1>3. UNCHANGED <<job, issued, reported, dropped, late, restarts>>
  BY DEF Local, others
<1>4. /\ w.step \in Holding \cup {"cancel"} =>
           work[p].step \in Holding /\ w.id = work[p].id /\ w.item = work[p].item
      /\ work[p].step \in Holding =>
           w.step \in Holding \cup {"cancel"} \/ work[p].id \in stranded'
      /\ w.step = "done" => w.id = 0
      /\ stranded \subseteq stranded' /\ stranded' \subseteq stranded \cup ({work[p].id} \ {0})
  BY DEF Local
<1>5. \A j \in Ids : Withdrawing(j)' <=> Withdrawing(j) \/ (w.step = "cancel" /\ w.id = j)
  BY <1>1, <1>2 DEF Withdrawing, Waiting
<1>6. \A q \in Importers, j \in Ids : Holds(q, j)' => Holds(q, j) /\ (q = p => w.step \in Holding)
  BY <1>2, <1>4 DEF Holds, Holding
<1>7. \A q \in Importers, j \in Ids : q # p /\ Holds(q, j) => Holds(q, j)'
  BY <1>2 DEF Holds
<1>8. ImportTypes'
  <2>1. work[p].id \in {0} \cup Ids
    BY DEF ImportInv, ImportTypes, Works
  <2> QED BY <1>2, <1>3, <1>4, <2>1 DEF ImportInv, ImportTypes
<1>9. Known'
  <2>1. \A q \in Importers : work'[q].step \in Holding \cup {"cancel"} =>
            work'[q].id \in 1..issued /\ job[work'[q].id].item = work'[q].item
    BY <1>2, <1>4 DEF ImportInv, Known
  <2>2. \A i \in DOMAIN port' : port'[i].op # "begin" => port'[i].id \in 1..issued
    BY <1>1, <1>2, <1>4 DEF ImportInv, Known, Waiting, Holding
  <2> QED BY <1>3, <2>1, <2>2 DEF ImportInv, Known
<1>10. AwaitedMatches'
  <2>1. ASSUME NEW i \in DOMAIN port', port'[i].from # Nobody
        PROVE  /\ work'[port'[i].from].step = port'[i].op
               /\ work'[port'[i].from].item = port'[i].item
               /\ port'[i].op # "begin" => work'[port'[i].from].id = port'[i].id
    <3>1. CASE i \in DOMAIN port /\ port'[i] = port[i]
      <4>1. port[i].from \in Importers \ {p}
        <5>1. port[i] \in Messages
          BY <3>1 DEF ImportInv, ImportTypes
        <5> QED BY <1>2, <2>1, <3>1, <5>1 DEF Messages
      <4> QED BY <1>2, <2>1, <3>1, <4>1 DEF ImportInv, AwaitedMatches
    <3>2. CASE port'[i] = x
      BY <1>1, <1>2, <3>2
    <3> QED BY <1>2, <3>1, <3>2
  <2>2. ASSUME NEW i \in DOMAIN port', port'[i].from # Nobody, NEW k \in DOMAIN port',
               port'[k].from = port'[i].from
        PROVE  k = i
    BY <1>1, <1>2, <2>2 DEF ImportInv, AwaitedMatches
  <2> QED BY <2>1, <2>2 DEF AwaitedMatches
<1>11. OneHolder'
  <2> SUFFICES ASSUME NEW j \in Ids, NEW q \in Importers, Holds(q, j)'
      PROVE  ~Withdrawing(j)' /\ \A o \in Importers : Holds(o, j)' => o = q
    BY DEF OneHolder
  <2>1. Holds(q, j) /\ ~Withdrawing(j) /\ \A o \in Importers : Holds(o, j)' => o = q
    BY <1>6 DEF ImportInv, OneHolder
  <2>2. ~(w.step = "cancel" /\ w.id = j)
    <3>1. SUFFICES ASSUME w.step = "cancel", w.id = j PROVE FALSE
      OBVIOUS
    <3>2. Holds(p, j)
      BY <1>4, <3>1 DEF Holds, Holding
    <3>3. q = p
      BY <2>1, <3>2 DEF ImportInv, OneHolder
    <3> QED BY <1>6, <3>1, <3>3 DEF Holding
  <2> QED BY <1>5, <2>1, <2>2
<1>12. LateUnlessReturned'
  <2> SUFFICES ASSUME NEW j \in Ids, job[j].sealed, Withdrawing(j)' \/ \E q \in Importers : Holds(q, j)'
      PROVE  j \in late
    BY <1>3 DEF LateUnlessReturned, ImportInv
  <2>1. w.step = "cancel" /\ w.id = j => Holds(p, j)
    BY <1>4 DEF Holds, Holding
  <2> QED BY <1>5, <1>6, <2>1 DEF LateUnlessReturned, ImportInv
<1>13. SealedIsWhole'
  BY <1>3 DEF ImportInv, SealedIsWhole
<1>14. ReturnedIsQueued'
  BY <1>2, <1>3, <1>4 DEF ImportInv, ReturnedIsQueued
<1>15. NothingLeftBehind'
  <2> SUFFICES ASSUME NEW j \in Ids, job[j].state \in {"importing", "queued"}
      PROVE  \/ job[j].cancelRequested \/ Withdrawing(j)'
             \/ \E q \in Importers : Holds(q, j)'
             \/ j \in reported \cup stranded'
    BY <1>3 DEF NothingLeftBehind
  <2>1. CASE Holds(p, j)
    <3>1. work[p].step \in Holding /\ work[p].id = j
      BY <2>1 DEF Holds, Holding
    <3>2. CASE w.step \in Holding
      BY <1>2, <1>4, <3>1, <3>2 DEF Holds, Holding
    <3>3. CASE w.step = "cancel"
      BY <1>4, <1>5, <3>1, <3>3
    <3> QED BY <1>4, <3>1, <3>2, <3>3
  <2>2. CASE ~Holds(p, j)
    BY <1>4, <1>5, <1>7, <2>2 DEF ImportInv, NothingLeftBehind
  <2> QED BY <2>1, <2>2
<1> QED BY <1>8, <1>9, <1>10, <1>11, <1>12, <1>13, <1>14, <1>15 DEF ImportInv

-----------------------------------------------------------------------------
(* Steps of the daemon.                                                    *)

LEMMA AdvancedIs ==
  ASSUME NEW w \in Works, w.step \in Waiting, NEW id \in {0} \cup Ids
  PROVE  /\ Advanced(w, id) \in Works /\ Advanced(w, id).item = w.item
         /\ w.step = "begin"  => Advanced(w, id).step = "reading" /\ Advanced(w, id).id = id
         /\ w.step = "append" => Advanced(w, id).step = "reading" /\ Advanced(w, id).id = w.id
         /\ w.step = "seal"   => Advanced(w, id).step = "done" /\ Advanced(w, id).id = id
         /\ w.step = "cancel" => Advanced(w, id).step = "done" /\ Advanced(w, id).id = 0
<1>1. CASE w.step = "begin"
  <2>1. Advanced(w, id) = [w EXCEPT !.step = "reading", !.id = id]
    BY <1>1 DEF Advanced
  <2> QED BY <1>1, <2>1 DEF Works, Steps
<1>2. CASE w.step = "append"
  <2>1. Advanced(w, id) = [w EXCEPT !.step = "reading", !.offset = @ + Chunk]
    BY <1>2 DEF Advanced
  <2>2. w.offset + Chunk \in Nat
    BY DEF Works, Chunk
  <2> QED BY <1>2, <2>1, <2>2 DEF Works, Steps
<1>3. CASE w.step = "seal"
  <2>1. Advanced(w, id) = Done(w, id)
    BY <1>3 DEF Advanced
  <2> QED BY <1>3, <2>1, DoneIs
<1>4. CASE w.step = "cancel"
  <2>1. Advanced(w, id) = Done(w, 0)
    BY <1>4 DEF Advanced
  <2> QED BY <1>4, <2>1, DoneIs
<1> QED BY <1>1, <1>2, <1>3, <1>4 DEF Waiting

(* The message taken, and what its importer goes on to.                     *)
LEMMA ReplyIs ==
  ASSUME ImportInv, port # <<>>, NEW id \in {0} \cup Ids, Answer(id) \/ Refuse
  PROVE  /\ m \in Messages /\ port' \in Seq(Messages) /\ Len(port') <= Len(port)
         /\ 1 \in DOMAIN port /\ port[1] = m
         /\ \A i \in DOMAIN port' : i + 1 \in DOMAIN port /\ port'[i] = port[i + 1] /\ i + 1 # 1
         /\ \A i \in DOMAIN port \ {1} : i - 1 \in DOMAIN port' /\ port'[i - 1] = port[i]
         /\ m.op # "begin" => m.id \in 1..issued
         /\ work' \in [Importers -> Works]
         /\ \A q \in Importers : q # m.from => work'[q] = work[q]
         /\ m.from # Nobody =>
              /\ m.from \in Importers
              /\ work[m.from].step = m.op /\ work[m.from].item = m.item
              /\ m.op # "begin" => work[m.from].id = m.id
              /\ work'[m.from].item = m.item
              /\ m.op \in {"append", "seal"} =>
                   \/ work'[m.from].step \in {"reading", "failed"} /\ work'[m.from].id = m.id
                   \/ m.op = "seal" /\ Answer(id) /\ work'[m.from].step = "done" /\ work'[m.from].id = id
              /\ m.op = "seal" /\ Answer(id) => work'[m.from].step = "done" /\ work'[m.from].id = id
              /\ m.op = "cancel" => work'[m.from].step = "done" /\ work'[m.from].id = 0
              /\ m.op = "begin" =>
                   \/ work'[m.from].step = "done" /\ work'[m.from].id = 0
                   \/ Answer(id) /\ work'[m.from].step = "reading" /\ work'[m.from].id = id
              /\ m.op = "begin" /\ Answer(id) => work'[m.from].step = "reading" /\ work'[m.from].id = id
<1>1. port \in Seq(Messages) /\ work \in [Importers -> Works] /\ port' = Tail(port)
  BY DEF ImportInv, ImportTypes, Answer, Refuse
<1>2. /\ m \in Messages /\ port' \in Seq(Messages) /\ Len(port') <= Len(port)
      /\ 1 \in DOMAIN port /\ port[1] = m
      /\ \A i \in DOMAIN port' : i + 1 \in DOMAIN port /\ port'[i] = port[i + 1] /\ i + 1 # 1
      /\ \A i \in DOMAIN port \ {1} : i - 1 \in DOMAIN port' /\ port'[i - 1] = port[i]
  BY <1>1, PortTaken
<1>3. /\ m.op # "begin" => m.id \in 1..issued
      /\ m.op \in Waiting /\ m.from \in Importers \cup {Nobody}
      /\ m.from # Nobody => /\ work[m.from].step = m.op /\ work[m.from].item = m.item
                            /\ m.op # "begin" => work[m.from].id = m.id
  BY <1>2 DEF ImportInv, Known, AwaitedMatches, Messages
<1>4. CASE m.from = Nobody
  <2>1. work' = work
    BY <1>4 DEF Answer, Refuse
  <2> QED BY <1>1, <1>2, <1>3, <1>4, <2>1
<1>5. CASE m.from # Nobody
  <2> DEFINE q == m.from
             w == work[q]
  <2>1. q \in Importers /\ w \in Works /\ w.step = m.op /\ w.step \in Waiting
    BY <1>1, <1>3, <1>5
  <2>2. /\ Advanced(w, id) \in Works /\ Advanced(w, id).item = w.item
        /\ w.step = "begin"  => Advanced(w, id).step = "reading" /\ Advanced(w, id).id = id
        /\ w.step = "append" => Advanced(w, id).step = "reading" /\ Advanced(w, id).id = w.id
        /\ w.step = "seal"   => Advanced(w, id).step = "done" /\ Advanced(w, id).id = id
        /\ w.step = "cancel" => Advanced(w, id).step = "done" /\ Advanced(w, id).id = 0
    BY <2>1, AdvancedIs
  <2>3. /\ Failed(w) \in Works /\ Failed(w).item = w.item
        /\ w.step \in {"begin", "cancel"} => Failed(w).step = "done" /\ Failed(w).id = 0
        /\ w.step \notin {"begin", "cancel"} => Failed(w).step = "failed" /\ Failed(w).id = w.id
    BY <2>1, FailedIs
  <2>4. \/ Answer(id) /\ work' = [work EXCEPT ![q] = Advanced(w, id)]
        \/ Refuse /\ work' = [work EXCEPT ![q] = Failed(w)]
    BY <1>5 DEF Answer, Refuse
  <2>5. Answer(id) => work' = [work EXCEPT ![q] = Advanced(w, id)]
    BY <1>5 DEF Answer
  <2> HIDE DEF w
  <2>6. /\ work' \in [Importers -> Works]
        /\ \A o \in Importers : o # q => work'[o] = work[o]
        /\ (work'[q] = Advanced(w, id) /\ Answer(id)) \/ work'[q] = Failed(w)
        /\ Answer(id) => work'[q] = Advanced(w, id)
    BY <1>1, <2>1, <2>2, <2>3, <2>4, <2>5
  <2>7. w.item = m.item /\ (m.op # "begin" => w.id = m.id)
    BY <1>3, <1>5 DEF w
  <2>8. /\ m.op \in {"append", "seal"} =>
             \/ work'[q].step \in {"reading", "failed"} /\ work'[q].id = m.id
             \/ m.op = "seal" /\ Answer(id) /\ work'[q].step = "done" /\ work'[q].id = id
        /\ m.op = "seal" /\ Answer(id) => work'[q].step = "done" /\ work'[q].id = id
        /\ m.op = "cancel" => work'[q].step = "done" /\ work'[q].id = 0
        /\ m.op = "begin" =>
             \/ work'[q].step = "done" /\ work'[q].id = 0
             \/ Answer(id) /\ work'[q].step = "reading" /\ work'[q].id = id
        /\ m.op = "begin" /\ Answer(id) => work'[q].step = "reading" /\ work'[q].id = id
        /\ work'[q].item = m.item
    BY <2>1, <2>2, <2>3, <2>6, <2>7, Zenon
  <2> QED BY <1>2, <1>3, <1>5, <2>1, <2>6, <2>8
<1> QED BY <1>4, <1>5

(* Nobody else is waited for less or more.                                  *)
LEMMA ReplyAwaited ==
  ASSUME ImportInv, port # <<>>, NEW id \in {0} \cup Ids, Answer(id) \/ Refuse
  PROVE  /\ AwaitedMatches'
         /\ \A j \in Ids : Withdrawing(j)' => Withdrawing(j)
         /\ \A j \in Ids : Withdrawing(j) => Withdrawing(j)' \/ (m.op = "cancel" /\ m.id = j)
         /\ m.op = "cancel" => Withdrawing(m.id)
<1>1. /\ port \in Seq(Messages) /\ 1 \in DOMAIN port /\ port[1] = m
      /\ \A i \in DOMAIN port' : i + 1 \in DOMAIN port /\ port'[i] = port[i + 1] /\ i + 1 # 1
      /\ \A i \in DOMAIN port \ {1} : i - 1 \in DOMAIN port' /\ port'[i - 1] = port[i]
      /\ \A q \in Importers : q # m.from => work'[q] = work[q]
      /\ DOMAIN port' \subseteq Int
  <2>1. port' \in Seq(Messages)
    BY ReplyIs
  <2>2. DOMAIN port' = 1..Len(port') /\ Len(port') \in Nat
    BY <2>1
  <2> QED BY <2>2, ReplyIs DEF ImportInv, ImportTypes
<1>2. ASSUME NEW i \in DOMAIN port', port'[i].from # Nobody
      PROVE  /\ work'[port'[i].from].step = port'[i].op
             /\ work'[port'[i].from].item = port'[i].item
             /\ port'[i].op # "begin" => work'[port'[i].from].id = port'[i].id
             /\ \A k \in DOMAIN port' : port'[k].from = port'[i].from => k = i
  <2>1. i + 1 \in DOMAIN port /\ port'[i] = port[i + 1] /\ port[i + 1] \in Messages
    BY <1>1
  <2>2. port'[i].from \in Importers /\ port'[i].from # m.from
    BY <1>1, <1>2, <2>1 DEF ImportInv, AwaitedMatches, Messages
  <2>3. \A k \in DOMAIN port' : port'[k].from = port'[i].from => k = i
    <3> SUFFICES ASSUME NEW k \in DOMAIN port', port'[k].from = port'[i].from PROVE k = i
      OBVIOUS
    <3> DEFINE here == i + 1
               there == k + 1
    <3>2. /\ here \in DOMAIN port /\ there \in DOMAIN port
          /\ port[here].from # Nobody /\ port[there].from = port[here].from
      BY <1>1, <1>2, <2>1
    <3> HIDE DEF here, there
    <3>3. there = here
      BY <3>2 DEF ImportInv, AwaitedMatches
    <3>1. k + 1 = i + 1
      BY <3>3 DEF here, there
    <3> QED BY <1>1, <3>1
  <2> QED BY <1>1, <1>2, <2>1, <2>2, <2>3 DEF ImportInv, AwaitedMatches
<1>3. AwaitedMatches'
  BY <1>2 DEF AwaitedMatches
<1>4. \A j \in Ids : Withdrawing(j)' => Withdrawing(j)
  BY <1>1 DEF Withdrawing
<1>5. \A j \in Ids : Withdrawing(j) => Withdrawing(j)' \/ (m.op = "cancel" /\ m.id = j)
  BY <1>1 DEF Withdrawing
<1>6. m.op = "cancel" => Withdrawing(m.id)
  BY <1>1 DEF Withdrawing
<1> QED BY <1>3, <1>4, <1>5, <1>6

(* Only an answer to begin makes somebody a holder, only one to seal ends it. *)
LEMMA ReplyHolds ==
  ASSUME ImportInv, port # <<>>, NEW id \in {0} \cup Ids, Answer(id) \/ Refuse,
         m.op # "begin" \/ Refuse
  PROVE  /\ \A q \in Importers, j \in Ids : Holds(q, j)' => Holds(q, j)
         /\ \A q \in Importers, j \in Ids :
              Holds(q, j) => \/ Holds(q, j)'
                             \/ m.op = "seal" /\ Answer(id) /\ q = m.from /\ j = m.id
<1>1. /\ m.op \in Waiting
      /\ \A q \in Importers : q # m.from => work'[q] = work[q]
      /\ m.from # Nobody =>
              /\ m.from \in Importers
              /\ work[m.from].step = m.op
              /\ m.op # "begin" => work[m.from].id = m.id
              /\ m.op \in {"append", "seal"} =>
                   \/ work'[m.from].step \in {"reading", "failed"} /\ work'[m.from].id = m.id
                   \/ m.op = "seal" /\ Answer(id) /\ work'[m.from].step = "done"
              /\ m.op = "cancel" => work'[m.from].step = "done"
  BY ReplyIs DEF Messages
<1>2. m.op = "begin" /\ m.from # Nobody => work'[m.from].step = "done"
  <2> SUFFICES ASSUME m.op = "begin", m.from # Nobody, Refuse PROVE work'[m.from].step = "done"
    OBVIOUS
  <2>1. work[m.from] \in Works /\ work[m.from].step = "begin" /\ m.from \in Importers
    BY <1>1 DEF ImportInv, ImportTypes
  <2>2. work' = [work EXCEPT ![m.from] = Failed(work[m.from])]
    BY DEF Refuse
  <2>3. Failed(work[m.from]).step = "done"
    BY <2>1, FailedIs
  <2> QED BY <2>1, <2>2, <2>3 DEF ImportInv, ImportTypes
<1>3. Nobody \notin Importers
  BY ImportAssumption DEF ImportAssumption
<1> QED BY <1>1, <1>2, <1>3 DEF Holds, Waiting

(* What a change of one job that is issued leaves to prove.                 *)
LEMMA OneJobKeeps ==
  ASSUME ImportInv, NEW j \in 1..issued, NEW r \in Jobs, job' = [job EXCEPT ![j] = r],
         r.item = job[j].item, UNCHANGED issued,
         \A q \in Importers, k \in Ids : Holds(q, k)' => Holds(q, k),
         \A k \in Ids : Withdrawing(k)' => Withdrawing(k)
  PROVE  /\ job' \in [Ids -> Jobs] /\ j \in Ids /\ job'[j] = r
         /\ \A k \in Ids \ {j} : job'[k] = job[k]
         /\ \A k \in Ids : k > issued' => job'[k].state = "none" /\ ~job'[k].sealed
         /\ \A k \in Ids : job'[k].item = job[k].item
         /\ OneHolder'
<1>1. j \in Ids /\ ~(j > issued)
  BY ImportAssumption DEF ImportInv, ImportTypes, ImportAssumption, Ids
<1>2. /\ job' \in [Ids -> Jobs] /\ job'[j] = r
      /\ \A k \in Ids \ {j} : job'[k] = job[k]
  BY <1>1, SetJob DEF ImportInv, ImportTypes
<1>3. OneHolder'
  BY DEF ImportInv, OneHolder
<1> QED BY <1>1, <1>2, <1>3 DEF ImportInv, Known

(* Messages and importers still know ids that were issued.                  *)
LEMMA ReplyKnown ==
  ASSUME ImportInv, port # <<>>, NEW id \in {0} \cup Ids, Answer(id) \/ Refuse, m.op # "begin",
         UNCHANGED issued,
         \A k \in Ids : job'[k].item = job[k].item,
         \A k \in Ids : k > issued' => job'[k].state = "none" /\ ~job'[k].sealed
  PROVE  Known'
<1>1. \A i \in DOMAIN port' : port'[i].op # "begin" => port'[i].id \in 1..issued
  BY ReplyIs DEF ImportInv, Known
<1>2. \A q \in Importers : work'[q].step \in Holding \cup {"cancel"} =>
          work'[q].id \in 1..issued /\ job[work'[q].id].item = work'[q].item
  <2> SUFFICES ASSUME NEW q \in Importers, work'[q].step \in Holding \cup {"cancel"}
      PROVE  work'[q].id \in 1..issued /\ job[work'[q].id].item = work'[q].item
    OBVIOUS
  <2>1. CASE q # m.from
    BY <2>1, ReplyIs DEF ImportInv, Known
  <2>2. CASE q = m.from
    <3>1. q # Nobody
      BY ImportAssumption DEF ImportAssumption
    <3>2. /\ m.op \in Waiting /\ work[q].step = m.op /\ work[q].item = m.item /\ work[q].id = m.id
          /\ work'[q].item = m.item
          /\ m.op \in {"append", "seal"} =>
               \/ work'[q].step \in {"reading", "failed"} /\ work'[q].id = m.id
               \/ work'[q].step = "done"
          /\ m.op = "cancel" => work'[q].step = "done"
      BY <2>2, <3>1, ReplyIs DEF Messages
    <3>3. work'[q].id = work[q].id /\ work[q].step \in Holding \cup {"cancel"}
          /\ work'[q].item = work[q].item
      BY <3>2 DEF Waiting, Holding
    <3> QED BY <3>3 DEF ImportInv, Known
  <2> QED BY <2>1, <2>2
<1>3. issued \in 0..MaxIds
  BY DEF ImportInv, ImportTypes
<1>4. \A k \in 1..issued : job'[k].item = job[k].item
  BY <1>3, ImportAssumption DEF Ids, ImportAssumption
<1> QED BY <1>1, <1>2, <1>4 DEF Known

(* The importer has been told that its job is queued.                       *)
Told == m.op = "seal" /\ m.from # Nobody /\ work'[m.from].step = "done"

LEMMA RefusedIs ==
  ASSUME ImportInv, port # <<>>, Refuse
  PROVE  ~Told
<1> SUFFICES ASSUME Told PROVE FALSE
  OBVIOUS
<1>1. m.from \in Importers /\ work[m.from].step = "seal"
  <2>1. 0 \in {0} \cup Ids OBVIOUS
  <2> QED BY <2>1, ReplyIs DEF Told
<1>2. work \in [Importers -> Works] /\ work' = [work EXCEPT ![m.from] = Failed(work[m.from])]
  BY DEF Refuse, Told, ImportInv, ImportTypes
<1>3. Failed(work[m.from]).step = "failed"
  BY <1>1, <1>2, FailedIs
<1> QED BY <1>1, <1>2, <1>3 DEF Told

Live == {"importing", "queued"}

(* What the engine does to the job a message names, r being what it becomes. *)
LEMMA ReplyKeeps ==
  ASSUME ImportInv, port # <<>>, NEW id \in {0} \cup Ids, Answer(id) \/ Refuse, m.op # "begin",
         NEW r \in Jobs, job' = [job EXCEPT ![m.id] = r], r.item = job[m.id].item,
         UNCHANGED <<issued, stranded, restarts>>,
         {reported', dropped', late'} \subseteq SUBSET Ids,
         reported \subseteq reported', late \subseteq late', dropped' \subseteq late',
         job[m.id].sealed => r.sealed,
         r.sealed => \/ job[m.id].sealed
                     \/ m.op = "seal" /\ Answer(id) /\ (m.from = Nobody => m.id \in late'),
         r.state = "queued" => r.size = Size[r.item],
         r.state \in Live => /\ job[m.id].state \in Live
                             /\ job[m.id].cancelRequested => r.cancelRequested
                             /\ Told => m.id \in reported'
                             /\ m.op = "cancel" => r.cancelRequested,
         Told => id \in Ids /\ job'[id].sealed /\ job'[id].item = job[m.id].item
  PROVE  ImportInv'
<1>1. m.id \in 1..issued
  BY ReplyIs
<1>2. /\ \A q \in Importers, j \in Ids : Holds(q, j)' => Holds(q, j)
      /\ \A q \in Importers, j \in Ids :
              Holds(q, j) => \/ Holds(q, j)'
                             \/ m.op = "seal" /\ Answer(id) /\ q = m.from /\ j = m.id
  BY ReplyHolds
<1>3. /\ AwaitedMatches'
      /\ \A j \in Ids : Withdrawing(j)' => Withdrawing(j)
      /\ \A j \in Ids : Withdrawing(j) => Withdrawing(j)' \/ (m.op = "cancel" /\ m.id = j)
  BY ReplyAwaited
<1>4. /\ job' \in [Ids -> Jobs] /\ m.id \in Ids /\ job'[m.id] = r
      /\ \A k \in Ids \ {m.id} : job'[k] = job[k]
      /\ \A k \in Ids : k > issued' => job'[k].state = "none" /\ ~job'[k].sealed
      /\ \A k \in Ids : job'[k].item = job[k].item
      /\ OneHolder'
  BY <1>1, <1>2, <1>3, OneJobKeeps
<1>5. Known'
  BY <1>4, ReplyKnown
<1>6. ImportTypes'
  BY <1>4, ReplyIs DEF ImportInv, ImportTypes
<1>7. \A q \in Importers : q # Nobody
  BY ImportAssumption DEF ImportAssumption
<1>8. m.op = "seal" /\ Answer(id) /\ m.from # Nobody => Told /\ m.from \in Importers /\ Holds(m.from, m.id)
  BY ReplyIs DEF Told, Holds
<1>9. LateUnlessReturned'
  <2> SUFFICES ASSUME NEW j \in Ids, job'[j].sealed,
                      Withdrawing(j)' \/ \E q \in Importers : Holds(q, j)'
      PROVE  j \in late'
    BY DEF LateUnlessReturned
  <2>1. Withdrawing(j) \/ \E q \in Importers : Holds(q, j)
    BY <1>2, <1>3
  <2>2. CASE job[j].sealed
    BY <2>1, <2>2 DEF ImportInv, LateUnlessReturned
  <2>3. CASE ~job[j].sealed
    <3>1. j = m.id /\ m.op = "seal" /\ Answer(id) /\ (m.from = Nobody => m.id \in late')
      BY <1>4, <2>3
    <3>2. CASE m.from # Nobody
      <4> PICK p \in Importers : p = m.from /\ Holds(p, j) /\ work'[p].step = "done"
        BY <1>8, <3>1, <3>2 DEF Told
      <4>2. ~Withdrawing(j) /\ \A q \in Importers : Holds(q, j) => q = p
        BY DEF ImportInv, OneHolder
      <4>3. ~Holds(p, j)'
        BY DEF Holds
      <4> QED BY <1>2, <1>3, <4>2, <4>3
    <3> QED BY <3>1, <3>2
  <2> QED BY <2>2, <2>3
<1>10. SealedIsWhole'
  BY <1>4 DEF ImportInv, SealedIsWhole
<1>11. ReturnedIsQueued'
  <2> SUFFICES ASSUME NEW q \in Importers, work'[q].step = "done", work'[q].id # 0
      PROVE  job'[work'[q].id].sealed /\ job'[work'[q].id].item = work'[q].item
    BY DEF ReturnedIsQueued
  <2>1. CASE q # m.from
    <3>1. work'[q] = work[q] /\ work[q].id \in Ids
      BY <2>1, ReplyIs DEF ImportInv, ImportTypes, Works
    <3>2. job[work[q].id].sealed /\ job[work[q].id].item = work[q].item
      BY <3>1 DEF ImportInv, ReturnedIsQueued
    <3> QED BY <1>4, <3>1, <3>2
  <2>2. CASE q = m.from
    <3>1. m.op = "seal" /\ work'[q].id = id /\ work'[q].item = m.item
      BY <1>7, <2>2, ReplyIs DEF Messages, Waiting
    <3>2. work[q].step = "seal" /\ work[q].item = m.item /\ work[q].id = m.id
      BY <1>7, <2>2, <3>1, ReplyIs
    <3>3. job[m.id].item = m.item
      BY <3>2 DEF ImportInv, Known, Holding
    <3>4. Told
      BY <1>7, <2>2, <3>1 DEF Told
    <3> QED BY <3>1, <3>3, <3>4
  <2> QED BY <2>1, <2>2
<1>12. NothingLeftBehind'
  <2> SUFFICES ASSUME NEW j \in Ids, job'[j].state \in Live
      PROVE  \/ job'[j].cancelRequested \/ Withdrawing(j)'
             \/ \E q \in Importers : Holds(q, j)'
             \/ j \in reported' \cup stranded'
    BY DEF NothingLeftBehind, Live
  <2>1. job[j].state \in Live /\ (job[j].cancelRequested => job'[j].cancelRequested)
    BY <1>4
  <2>2. \/ job[j].cancelRequested \/ Withdrawing(j)
        \/ \E q \in Importers : Holds(q, j)
        \/ j \in reported \cup stranded
    BY <2>1 DEF ImportInv, NothingLeftBehind, Live
  <2>3. Withdrawing(j) => Withdrawing(j)' \/ job'[j].cancelRequested
    BY <1>3, <1>4
  <2>4. ASSUME NEW q \in Importers, Holds(q, j) PROVE Holds(q, j)' \/ j \in reported'
    <3>1. \/ Holds(q, j)' \/ (m.op = "seal" /\ Answer(id) /\ q = m.from /\ j = m.id)
      BY <1>2, <2>4
    <3> QED BY <1>4, <1>7, <1>8, <3>1
  <2> QED BY <2>1, <2>2, <2>3, <2>4
<1> QED BY <1>3, <1>4, <1>5, <1>6, <1>9, <1>10, <1>11, <1>12 DEF ImportInv

LEMMA AppendKeeps ==
  ASSUME ImportInv, port # <<>>, AppendChunk, UNCHANGED restarts
  PROVE  ImportInv'
<1> DEFINE r == job[m.id]
<1>0. 0 \in {0} \cup Ids OBVIOUS
<1>1. m.id \in Ids /\ m.op = "append" /\ r \in Jobs /\ job \in [Ids -> Jobs]
  <2>1. m.id \in 1..issued
    BY <1>0, ReplyIs DEF AppendChunk, Answer, Refuse
  <2> QED BY <2>1, ImportAssumption
          DEF AppendChunk, ImportInv, ImportTypes, ImportAssumption, Ids
<1>2. ~Told /\ {reported, dropped, late} \subseteq SUBSET Ids /\ dropped \subseteq late
  BY <1>1 DEF Told, ImportInv, ImportTypes, LateUnlessReturned
<1>3. CASE \E n \in Nat : /\ r.state = "importing" /\ (Answer(0) \/ Refuse)
                          /\ job' = [job EXCEPT ![m.id].size[m.file] = @ + n]
  <2> PICK n \in Nat : /\ r.state = "importing" /\ (Answer(0) \/ Refuse)
                       /\ job' = [job EXCEPT ![m.id].size[m.file] = @ + n]
    BY <1>3
  <2> DEFINE size == r.size
             sizes == [size EXCEPT ![m.file] = @ + n]
             new == [r EXCEPT !.size = sizes]
  <2>1. size \in Seq(Nat)
    BY <1>1 DEF Jobs
  <2>2. job' = [job EXCEPT ![m.id] = new]
    BY <1>1
  <2> HIDE DEF size
  <2>3. sizes \in Seq(Nat)
    BY <2>1, WrittenIs
  <2> HIDE DEF sizes
  <2>4. /\ new \in Jobs /\ new.state = r.state /\ new.item = r.item /\ new.sealed = r.sealed
        /\ new.cancelRequested = r.cancelRequested
    <3> HIDE DEF r
    <3> QED BY <1>1, <2>3, GrownIs
  <2> HIDE DEF new
  <2> QED BY <1>0, <1>1, <1>2, <2>2, <2>4, ReplyKeeps DEF AppendChunk, history
<1>4. CASE Refuse /\ UNCHANGED job
  <2>1. job' = [job EXCEPT ![m.id] = r]
    BY <1>1, <1>4
  <2>2. r.state = "queued" => r.size = Size[r.item]
    BY <1>1 DEF ImportInv, SealedIsWhole
  <2> HIDE DEF r
  <2> QED BY <1>0, <1>1, <1>2, <1>4, <2>1, <2>2, ReplyKeeps DEF AppendChunk, history, r
<1>5. Chunk \in Nat /\ 0..Chunk - 1 \subseteq Nat
  BY DEF Chunk
<1> QED BY <1>3, <1>4, <1>5 DEF AppendChunk, Fits

LEMMA CancelledIs ==
  ASSUME NEW j \in Ids, ImportTypes, Cancel(j)
  PROVE  \E r \in Jobs : /\ job' = [job EXCEPT ![j] = r]
                         /\ r.item = job[j].item /\ r.sealed = job[j].sealed
                         /\ \/ r.state = "cancelled"
                            \/ r.state = job[j].state /\ r.cancelRequested /\ r.size = job[j].size
<1>1. job \in [Ids -> Jobs] /\ job[j] \in Jobs
  BY DEF ImportTypes
<1>2. CASE job' = [job EXCEPT ![j] = Cancelled(@)]
  <2>1. job' = [job EXCEPT ![j] = Ended(job[j], "cancelled")]
    BY <1>1, <1>2 DEF Cancelled
  <2> QED BY <1>1, <2>1, EndedIs
<1>3. CASE job' = [job EXCEPT ![j].cancelRequested = TRUE]
  <2>1. job' = [job EXCEPT ![j] = [job[j] EXCEPT !.cancelRequested = TRUE]]
    BY <1>1, <1>3
  <2> QED BY <1>1, <2>1, RequestedIs
<1> QED BY <1>2, <1>3 DEF Cancel

LEMMA CancelKeeps ==
  ASSUME ImportInv, port # <<>>, CancelJob, UNCHANGED restarts
  PROVE  ImportInv'
<1>0. 0 \in {0} \cup Ids OBVIOUS
<1>1. m.id \in Ids /\ m.op = "cancel" /\ job[m.id] \in Jobs /\ job \in [Ids -> Jobs]
  <2>1. m.id \in 1..issued
    BY <1>0, ReplyIs DEF CancelJob, Answer, Refuse
  <2> QED BY <2>1, ImportAssumption
          DEF CancelJob, ImportInv, ImportTypes, ImportAssumption, Ids
<1>2. ~Told /\ {reported, dropped, late} \subseteq SUBSET Ids /\ dropped \subseteq late
  BY <1>1 DEF Told, ImportInv, ImportTypes, LateUnlessReturned
<1>3. job[m.id].state = "queued" => job[m.id].size = Size[job[m.id].item]
  BY <1>1 DEF ImportInv, SealedIsWhole
<1>4. CASE /\ Cancellable(m.id) /\ Cancel(m.id) /\ Answer(0)
           /\ dropped' = IF job[m.id].sealed THEN dropped \cup {m.id} ELSE dropped
  <2>1. PICK r \in Jobs : /\ job' = [job EXCEPT ![m.id] = r]
                          /\ r.item = job[m.id].item /\ r.sealed = job[m.id].sealed
                          /\ \/ r.state = "cancelled"
                             \/ /\ r.state = job[m.id].state /\ r.cancelRequested
                                /\ r.size = job[m.id].size
    BY <1>1, <1>4, CancelledIs DEF ImportInv
  <2>2. Withdrawing(m.id)
    BY <1>0, <1>1, <1>4, ReplyAwaited
  <2>3. dropped' \subseteq late /\ dropped' \in SUBSET Ids
    BY <1>1, <1>2, <1>4, <2>2 DEF ImportInv, LateUnlessReturned
  <2> QED BY <1>0, <1>1, <1>2, <1>3, <1>4, <2>1, <2>3, ReplyKeeps DEF CancelJob, Live
<1>5. CASE ~Cancellable(m.id) /\ Refuse /\ UNCHANGED <<job, dropped>>
  <2>1. job' = [job EXCEPT ![m.id] = job[m.id]]
    BY <1>1, <1>5
  <2> QED BY <1>0, <1>1, <1>2, <1>3, <1>5, <2>1, ReplyKeeps DEF CancelJob, Cancellable, Live
<1> QED BY <1>4, <1>5 DEF CancelJob

(* The first of some ids.                                                   *)
LEMMA LeastOf ==
  ASSUME NEW S \in SUBSET Nat, S # {}
  PROVE  \E k \in S : \A i \in S : k <= i
<1> DEFINE R == {ss \in Nat \X Nat : ss[1] < ss[2]}
<1>1. IsWellFoundedOn(R, Nat)
  BY NatLessThanWellFounded DEF OpToRel
<1>2. PICK k \in S : \A i \in S : ~(<<i, k>> \in R)
  <2> HIDE DEF R
  <2> QED BY <1>1, WFMin
<1>3. ASSUME NEW i \in S PROVE k <= i
  <2>1. ~(i < k)
    BY <1>2
  <2> QED BY <2>1
<1> QED BY <1>3

LEMMA AnsweredIs ==
  ASSUME NEW j \in Ids, ImportTypes
  PROVE  /\ Answered(j) \in Ids
         /\ Same(j) = {} => Answered(j) = j
         /\ Same(j) # {} => Answered(j) # j /\ job[Answered(j)].sealed
                            /\ job[Answered(j)].item = job[j].item
<1>1. CASE Same(j) = {}
  BY <1>1 DEF Answered
<1>2. CASE Same(j) # {}
  <2>1. Same(j) \in SUBSET Nat
    BY ImportAssumption DEF Same, Listed, Ids, ImportAssumption
  <2>2. \E k \in Same(j) : \A i \in Same(j) : k <= i
    BY <1>2, <2>1, LeastOf
  <2>3. Answered(j) = CHOOSE k \in Same(j) : \A i \in Same(j) : k <= i
    BY <1>2 DEF Answered
  <2>4. Answered(j) \in Same(j)
    <3> HIDE DEF Same
    <3> QED BY <2>2, <2>3, Zenon
  <2> QED BY <1>2, <2>4 DEF Same, Listed
<1> QED BY <1>1, <1>2

LEMMA SealKeeps ==
  ASSUME ImportInv, port # <<>>, SealJob, UNCHANGED restarts
  PROVE  ImportInv'
<1>0. 0 \in {0} \cup Ids OBVIOUS
<1>1. m.id \in Ids /\ m.op = "seal" /\ job[m.id] \in Jobs /\ job \in [Ids -> Jobs]
  <2>1. port' = Tail(port) /\ m.op = "seal" /\ port \in Seq(Messages)
    BY DEF SealJob, Answer, Refuse, ImportInv, ImportTypes
  <2>2. m.id \in 1..issued
    BY <2>1, PortTaken DEF ImportInv, Known
  <2> QED BY <2>1, <2>2, ImportAssumption DEF ImportInv, ImportTypes, ImportAssumption, Ids
<1>2. {reported, dropped, late} \subseteq SUBSET Ids /\ dropped \subseteq late
  BY DEF ImportInv, ImportTypes, LateUnlessReturned
<1> DEFINE id == Answered(m.id)
<1>3. /\ id \in Ids
      /\ Same(m.id) = {} => id = m.id
      /\ Same(m.id) # {} => id # m.id /\ job[id].sealed /\ job[id].item = job[m.id].item
  BY <1>1, AnsweredIs DEF ImportInv
<1>4. ASSUME Whole, Answer(id), UNCHANGED <<issued, dropped, stranded>>,
             IF m.from = Nobody
               THEN late' = late \cup {m.id} /\ UNCHANGED reported
               ELSE reported' = reported \cup {id} /\ UNCHANGED late,
             job' = [job EXCEPT ![m.id] =
                         IF Same(m.id) = {} THEN [@ EXCEPT !.state = "queued", !.sealed = TRUE]
                         ELSE Cancelled(@)]
      PROVE  ImportInv'
  <2>1. /\ {reported', dropped', late'} \subseteq SUBSET Ids
        /\ reported \subseteq reported' /\ late \subseteq late' /\ dropped' \subseteq late'
        /\ m.from # Nobody => id \in reported'
        /\ m.from = Nobody => m.id \in late'
    <3> HIDE DEF id
    <3>1. CASE m.from = Nobody
      BY <1>1, <1>2, <1>4, <3>1
    <3>2. CASE m.from # Nobody
      BY <1>1, <1>2, <1>3, <1>4, <3>2
    <3> QED BY <3>1, <3>2
  <2>2. job[m.id].state = "importing" /\ job[m.id].size = Size[job[m.id].item]
    BY <1>4 DEF Whole
  <2>3. CASE Same(m.id) = {}
    <3> DEFINE r == [job[m.id] EXCEPT !.state = "queued", !.sealed = TRUE]
    <3>1. job' = [job EXCEPT ![m.id] = r]
      BY <1>1, <1>4, <2>3
    <3>2. /\ r \in Jobs /\ r.state = "queued" /\ r.sealed
          /\ r.item = job[m.id].item /\ r.size = job[m.id].size
      BY <1>1, QueuedIs
    <3>3. job[m.id].cancelRequested => r.cancelRequested
      BY <1>1 DEF Jobs
    <3>4. id = m.id /\ id \in {0} \cup Ids
      BY <1>3, <2>3
    <3> HIDE DEF r, id
    <3>5. job'[id].sealed /\ job'[id].item = job[m.id].item
      BY <1>1, <3>1, <3>2, <3>4
    <3> QED BY <1>1, <1>3, <1>4, <2>1, <2>2, <3>1, <3>2, <3>3, <3>4, <3>5, ReplyKeeps DEF Live, Told
  <2>4. CASE Same(m.id) # {}
    <3> DEFINE r == Ended(job[m.id], "cancelled")
    <3>1. job' = [job EXCEPT ![m.id] = r]
      BY <1>1, <1>4, <2>4 DEF Cancelled
    <3>2. r \in Jobs /\ r.state = "cancelled" /\ r.item = job[m.id].item /\ r.sealed = job[m.id].sealed
      BY <1>1, EndedIs
    <3>3. id # m.id /\ id \in {0} \cup Ids /\ job[id].sealed /\ job[id].item = job[m.id].item
      BY <1>3, <2>4
    <3> HIDE DEF r, id
    <3>4. job'[id].sealed /\ job'[id].item = job[m.id].item
      BY <1>1, <1>3, <3>1, <3>3
    <3> QED BY <1>1, <1>3, <1>4, <2>1, <3>1, <3>2, <3>3, <3>4, ReplyKeeps DEF Live
  <2> QED BY <2>3, <2>4
<1>5. ASSUME Refuse, UNCHANGED <<job, late, reported, issued, dropped, stranded>>
      PROVE  ImportInv'
  <2>1. job' = [job EXCEPT ![m.id] = job[m.id]]
    BY <1>1, <1>5
  <2>2. ~Told
    BY <1>5, RefusedIs
  <2>3. job[m.id].state = "queued" => job[m.id].size = Size[job[m.id].item]
    BY <1>1 DEF ImportInv, SealedIsWhole
  <2> QED BY <1>0, <1>1, <1>2, <1>5, <2>1, <2>2, <2>3, ReplyKeeps DEF Live
<1> QED BY <1>4, <1>5, Zenon DEF SealJob

(* An id that was not issued yet is known to nobody.                        *)
LEMMA NewIdIs ==
  ASSUME ImportInv, issued < MaxIds
  PROVE  /\ issued + 1 \in Ids /\ issued + 1 \in Nat \ {0} /\ 1..issued \subseteq 1..(issued + 1)
         /\ issued \in Nat /\ issued + 1 \in 0..MaxIds /\ issued + 1 \notin 1..issued
         /\ \A q \in Importers : ~Holds(q, issued + 1)
         /\ ~Withdrawing(issued + 1)
         /\ job[issued + 1].state = "none" /\ ~job[issued + 1].sealed
<1>1. issued \in 0..MaxIds /\ MaxIds \in Nat
  BY ImportAssumption DEF ImportInv, ImportTypes, ImportAssumption
<1>2. /\ issued + 1 \in Ids /\ issued + 1 \in Nat \ {0} /\ 1..issued \subseteq 1..(issued + 1)
      /\ issued \in Nat /\ issued + 1 \in 0..MaxIds /\ issued + 1 \notin 1..issued
  BY <1>1 DEF Ids
<1> DEFINE new == issued + 1
<1>3. new \notin 1..issued /\ new \in Ids /\ new > issued
  BY <1>1, <1>2
<1> HIDE DEF new
<1>4. /\ \A q \in Importers : ~Holds(q, new)
      /\ ~Withdrawing(new)
      /\ job[new].state = "none" /\ ~job[new].sealed
  BY <1>3 DEF ImportInv, Known, Holds, Withdrawing, Holding
<1> QED BY <1>2, <1>4 DEF new

LEMMA BegunKeeps ==
  ASSUME ImportInv, port # <<>>, m.op = "begin", issued < MaxIds, issued' = issued + 1,
         job' = [job EXCEPT ![issued + 1] = NewJob(m.item)],
         Answer(issued + 1),
         stranded' = IF m.from = Nobody THEN stranded \cup {issued + 1} ELSE stranded,
         UNCHANGED <<reported, dropped, late, restarts>>
  PROVE  ImportInv'
<1> DEFINE new == issued + 1
           r == NewJob(m.item)
<1>1. /\ new \in Ids /\ new \in Nat \ {0} /\ 1..issued \subseteq 1..new
      /\ new \in 0..MaxIds /\ new \notin 1..issued
      /\ \A q \in Importers : ~Holds(q, new)
      /\ ~Withdrawing(new)
      /\ job[new].state = "none" /\ ~job[new].sealed
      /\ new \in 1..new /\ \A j \in Ids : j > new => j > issued /\ j # new
      /\ \A j \in Ids : j \in 1..issued => j # new
  BY NewIdIs DEF Ids
<1>2. new \in {0} \cup Ids
  BY <1>1
<1>3. issued' = new /\ job' = [job EXCEPT ![new] = r] /\ Answer(new)
      /\ stranded' = IF m.from = Nobody THEN stranded \cup {new} ELSE stranded
  OBVIOUS
<1> HIDE DEF new
<1>4. /\ m \in Messages /\ port' \in Seq(Messages)
      /\ \A i \in DOMAIN port' : i + 1 \in DOMAIN port /\ port'[i] = port[i + 1] /\ i + 1 # 1
      /\ work' \in [Importers -> Works]
      /\ \A q \in Importers : q # m.from => work'[q] = work[q]
      /\ m.from # Nobody =>
           /\ m.from \in Importers /\ work[m.from].step = "begin" /\ work[m.from].item = m.item
           /\ work'[m.from].item = m.item
           /\ work'[m.from].step = "reading" /\ work'[m.from].id = new
  BY <1>2, <1>3, ReplyIs
<1>5. /\ r \in Jobs /\ r.state = "importing" /\ r.item = m.item /\ ~r.sealed
  BY <1>4, NewJobIs DEF Messages
<1> HIDE DEF r
<1>6. /\ job' \in [Ids -> Jobs] /\ job'[new] = r /\ \A j \in Ids \ {new} : job'[j] = job[j]
  BY <1>1, <1>3, <1>5 DEF ImportInv, ImportTypes
<1>7. /\ AwaitedMatches'
      /\ \A j \in Ids : Withdrawing(j)' <=> Withdrawing(j)
  BY <1>2, <1>3, ReplyAwaited
<1>8. \A q \in Importers : q # Nobody
  BY ImportAssumption DEF ImportAssumption
<1>9. \A q \in Importers, j \in Ids :
         \/ Holds(q, j)' <=> Holds(q, j)
         \/ q = m.from /\ j = new /\ Holds(q, j)'
  BY <1>4, <1>8 DEF Holds
<1>10. \A q \in Importers, j \in Ids : Holds(q, j)' => Holds(q, j) \/ (q = m.from /\ j = new)
  BY <1>9
<1>11. ImportTypes'
  <2>1. stranded' \in SUBSET Ids
    BY <1>1, <1>3 DEF ImportInv, ImportTypes
  <2> QED BY <1>1, <1>3, <1>4, <1>6, <2>1 DEF ImportInv, ImportTypes
<1>12. Known'
  <2>1. \A j \in Ids : j > issued' => job'[j].state = "none" /\ ~job'[j].sealed
    BY <1>1, <1>3, <1>6 DEF ImportInv, Known
  <2>2. ASSUME NEW q \in Importers, work'[q].step \in Holding \cup {"cancel"}
        PROVE  work'[q].id \in 1..new /\ job'[work'[q].id].item = work'[q].item
    <3>1. CASE q = m.from
      BY <1>1, <1>4, <1>5, <1>6, <1>8, <3>1
    <3>2. CASE q # m.from
      <4>1. work'[q] = work[q] /\ work[q].id \in 1..issued /\ job[work[q].id].item = work[q].item
        BY <1>4, <2>2, <3>2 DEF ImportInv, Known
      <4>2. work[q].id \in Ids \ {new}
        <5>1. work[q].id \in {0} \cup Ids /\ work[q].id # 0
          BY <4>1 DEF ImportInv, ImportTypes, Works
        <5> QED BY <1>1, <4>1, <5>1
      <4> QED BY <1>1, <1>6, <4>1, <4>2
    <3> QED BY <3>1, <3>2
  <2>3. \A i \in DOMAIN port' : port'[i].op # "begin" => port'[i].id \in 1..new
    BY <1>1, <1>4 DEF ImportInv, Known
  <2> QED BY <1>3, <2>1, <2>2, <2>3 DEF Known
<1>13. OneHolder'
  BY <1>1, <1>7, <1>10 DEF ImportInv, OneHolder
<1>14. LateUnlessReturned'
  BY <1>5, <1>6, <1>7, <1>10 DEF ImportInv, LateUnlessReturned
<1>15. SealedIsWhole'
  BY <1>5, <1>6 DEF ImportInv, SealedIsWhole
<1>16. ReturnedIsQueued'
  <2> SUFFICES ASSUME NEW q \in Importers, work'[q].step = "done", work'[q].id # 0
      PROVE  job'[work'[q].id].sealed /\ job'[work'[q].id].item = work'[q].item
    BY DEF ReturnedIsQueued
  <2>1. work'[q] = work[q] /\ work[q].id \in Ids
    BY <1>4, <1>8 DEF ImportInv, ImportTypes, Works
  <2>2. job[work[q].id].sealed /\ job[work[q].id].item = work[q].item
    BY <2>1 DEF ImportInv, ReturnedIsQueued
  <2> QED BY <1>1, <1>6, <2>1, <2>2
<1>17. NothingLeftBehind'
  <2> SUFFICES ASSUME NEW j \in Ids, job'[j].state \in {"importing", "queued"}
      PROVE  \/ job'[j].cancelRequested \/ Withdrawing(j)'
             \/ \E q \in Importers : Holds(q, j)'
             \/ j \in reported \cup stranded'
    BY DEF NothingLeftBehind
  <2>1. CASE j = new
    BY <1>3, <1>4, <2>1 DEF Holds
  <2>2. CASE j # new
    BY <1>3, <1>6, <1>7, <1>9, <2>2 DEF ImportInv, NothingLeftBehind
  <2> QED BY <2>1, <2>2
<1> QED BY <1>7, <1>11, <1>12, <1>13, <1>14, <1>15, <1>16, <1>17 DEF ImportInv

LEMMA BeginRefusedKeeps ==
  ASSUME ImportInv, port # <<>>, m.op = "begin", Refuse,
         UNCHANGED <<job, issued, stranded, reported, dropped, late, restarts>>
  PROVE  ImportInv'
<1>0. 0 \in {0} \cup Ids OBVIOUS
<1>1. /\ m \in Messages /\ port' \in Seq(Messages)
      /\ \A i \in DOMAIN port' : i + 1 \in DOMAIN port /\ port'[i] = port[i + 1] /\ i + 1 # 1
      /\ work' \in [Importers -> Works]
      /\ \A q \in Importers : q # m.from => work'[q] = work[q]
      /\ m.from # Nobody => m.from \in Importers /\ work[m.from].step = "begin"
  BY <1>0, ReplyIs
<1>2. m.from # Nobody => work'[m.from].step = "done" /\ work'[m.from].id = 0
  <2> SUFFICES ASSUME m.from # Nobody PROVE work'[m.from].step = "done" /\ work'[m.from].id = 0
    OBVIOUS
  <2>1. work[m.from] \in Works /\ work \in [Importers -> Works]
    BY <1>1 DEF ImportInv, ImportTypes
  <2>2. work' = [work EXCEPT ![m.from] = Failed(work[m.from])]
    BY DEF Refuse
  <2> QED BY <1>1, <2>1, <2>2, FailedIs
<1>3. /\ AwaitedMatches'
      /\ \A j \in Ids : Withdrawing(j)' <=> Withdrawing(j)
  BY <1>0, ReplyAwaited
<1>4. \A q \in Importers : q # Nobody
  BY ImportAssumption DEF ImportAssumption
<1>5. \A q \in Importers, j \in Ids : Holds(q, j)' <=> Holds(q, j)
  BY <1>1, <1>2, <1>4 DEF Holds
<1>6. ImportTypes'
  BY <1>1 DEF ImportInv, ImportTypes
<1>7. Known'
  BY <1>1, <1>2, <1>4 DEF ImportInv, Known, Holding
<1>8. OneHolder' /\ LateUnlessReturned' /\ NothingLeftBehind' /\ SealedIsWhole'
  BY <1>3, <1>5 DEF ImportInv, OneHolder, LateUnlessReturned, NothingLeftBehind, SealedIsWhole
<1>9. ReturnedIsQueued'
  BY <1>1, <1>2, <1>4 DEF ImportInv, ReturnedIsQueued
<1> QED BY <1>3, <1>6, <1>7, <1>8, <1>9 DEF ImportInv

LEMMA ReceiveKeeps ==
  ASSUME ImportInv, Receive
  PROVE  ImportInv'
<1>1. CASE BeginJob
  BY <1>1, BegunKeeps, BeginRefusedKeeps DEF Receive, BeginJob
<1> QED BY <1>1, AppendKeeps, SealKeeps, CancelKeeps DEF Receive

-----------------------------------------------------------------------------
(* Time-outs, the panel, uploads, and restarts.                            *)

LEMMA AbandonKeeps ==
  ASSUME ImportInv, NEW p \in Importers, Abandon(p)
  PROVE  ImportInv'
<1>1. work \in [Importers -> Works] /\ work[p] \in Works /\ p # Nobody /\ port \in Seq(Messages)
  BY ImportAssumption DEF ImportInv, ImportTypes, ImportAssumption
<1> DEFINE w == Failed(work[p])
<1>2. /\ w \in Works /\ w.item = work[p].item
      /\ work[p].step \in {"begin", "cancel"} => w.step = "done" /\ w.id = 0
      /\ work[p].step \in {"append", "seal"} => w.step = "failed" /\ w.id = work[p].id
  BY <1>1, FailedIs
<1>3. work' = [work EXCEPT ![p] = w]
  BY DEF Abandon
<1> HIDE DEF w
<1>4. /\ work' \in [Importers -> Works] /\ work'[p] = w
      /\ \A q \in Importers \ {p} : work'[q] = work[q]
  BY <1>1, <1>2, <1>3, SetWork
<1>5. /\ port' \in Seq(Messages) /\ DOMAIN port' = DOMAIN port
      /\ \A i \in DOMAIN port :
           /\ port'[i].op = port[i].op /\ port'[i].item = port[i].item /\ port'[i].id = port[i].id
           /\ port'[i].from = IF port[i].from \in {p} THEN Nobody ELSE port[i].from
  BY <1>1, PortUnawaited DEF Abandon
<1>6. work[p].step \in Waiting /\ UNCHANGED <<job, issued, reported, dropped, late, restarts, stranded>>
  BY DEF Abandon, others
<1>7. \A j \in Ids : Withdrawing(j)' <=> Withdrawing(j)
  BY <1>5 DEF Withdrawing
<1>8. \A q \in Importers, j \in Ids : Holds(q, j)' <=> Holds(q, j)
  BY <1>2, <1>4, <1>6 DEF Holds, Waiting
<1>9. ImportTypes'
  BY <1>4, <1>5, <1>6 DEF ImportInv, ImportTypes
<1>10. Known'
  BY <1>2, <1>4, <1>5, <1>6 DEF ImportInv, Known, Holding, Waiting
<1>11. AwaitedMatches'
  <2> SUFFICES ASSUME NEW i \in DOMAIN port, port'[i].from # Nobody
      PROVE  /\ work'[port'[i].from].step = port'[i].op
             /\ work'[port'[i].from].item = port'[i].item
             /\ port'[i].op # "begin" => work'[port'[i].from].id = port'[i].id
             /\ \A k \in DOMAIN port : port'[k].from = port'[i].from => k = i
    BY <1>5 DEF AwaitedMatches
  <2>1. /\ port'[i].from = port[i].from /\ port[i].from # Nobody /\ port[i].from \in Importers \ {p}
        /\ port'[i].op = port[i].op /\ port'[i].item = port[i].item /\ port'[i].id = port[i].id
    <3>1. port[i] \in Messages
      BY <1>1
    <3> QED BY <1>5, <3>1 DEF Messages
  <2>2. \A k \in DOMAIN port : port'[k].from = port[i].from => port[k].from = port[i].from
    BY <1>5, <2>1
  <2>3. work'[port[i].from] = work[port[i].from]
    BY <1>4, <2>1
  <2>4. /\ work[port[i].from].step = port[i].op
        /\ work[port[i].from].item = port[i].item
        /\ port[i].op # "begin" => work[port[i].from].id = port[i].id
        /\ \A k \in DOMAIN port : port[k].from = port[i].from => k = i
    BY <2>1 DEF ImportInv, AwaitedMatches
  <2> QED BY <2>1, <2>2, <2>3, <2>4
<1>12. OneHolder' /\ LateUnlessReturned' /\ NothingLeftBehind' /\ SealedIsWhole'
  BY <1>6, <1>7, <1>8 DEF ImportInv, OneHolder, LateUnlessReturned, NothingLeftBehind, SealedIsWhole
<1>13. ReturnedIsQueued'
  BY <1>2, <1>4, <1>6 DEF ImportInv, ReturnedIsQueued, Waiting
<1> QED BY <1>9, <1>10, <1>11, <1>12, <1>13 DEF ImportInv

(* A job that is not settled changes, and nothing else.                     *)
LEMMA JobKeeps ==
  ASSUME ImportInv, NEW j \in Ids, NEW r \in Jobs, job[j].state \in Live,
         job' = [job EXCEPT ![j] = r],
         r.item = job[j].item, r.sealed = job[j].sealed,
         r.state = "queued" => r.size = Size[r.item],
         r.state \in Live => (job[j].cancelRequested => r.cancelRequested),
         UNCHANGED <<issued, port, work, history, restarts>>
  PROVE  ImportInv'
<1>1. /\ job' \in [Ids -> Jobs] /\ job'[j] = r
      /\ \A k \in Ids \ {j} : job'[k] = job[k]
  BY SetJob DEF ImportInv, ImportTypes
<1>2. /\ \A k \in Ids : job'[k].item = job[k].item /\ job'[k].sealed = job[k].sealed
      /\ ~(j > issued)
  BY <1>1 DEF ImportInv, Known, Live
<1>3. /\ \A k \in Ids : Withdrawing(k)' <=> Withdrawing(k)
      /\ \A q \in Importers, k \in Ids : Holds(q, k)' <=> Holds(q, k)
  BY DEF Withdrawing, Holds
<1>4. ImportTypes'
  BY <1>1 DEF ImportInv, ImportTypes, history
<1>5. Known'
  <2>1. \A k \in Ids : k > issued => job'[k].state = "none" /\ ~job'[k].sealed
    BY <1>1, <1>2 DEF ImportInv, Known
  <2>2. \A q \in Importers :
          work[q].step \in Holding \cup {"cancel"} =>
              work[q].id \in 1..issued /\ job'[work[q].id].item = work[q].item
    <3>1. 1..issued \subseteq Ids
      BY ImportAssumption DEF ImportAssumption, Ids, ImportInv, ImportTypes
    <3> QED BY <1>2, <3>1 DEF ImportInv, Known
  <2> QED BY <2>1, <2>2 DEF ImportInv, Known
<1>6. AwaitedMatches' /\ OneHolder'
  BY <1>3 DEF ImportInv, AwaitedMatches, OneHolder
<1>7. LateUnlessReturned'
  BY <1>2, <1>3 DEF ImportInv, LateUnlessReturned, history
<1>8. SealedIsWhole'
  BY <1>1 DEF ImportInv, SealedIsWhole
<1>9. ReturnedIsQueued'
  <2>1. \A q \in Importers : work[q].id \in {0} \cup Ids
    BY DEF ImportInv, ImportTypes, Works
  <2> QED BY <1>2, <2>1 DEF ImportInv, ReturnedIsQueued
<1>10. NothingLeftBehind'
  BY <1>1, <1>3 DEF ImportInv, NothingLeftBehind, Live, history
<1> QED BY <1>4, <1>5, <1>6, <1>7, <1>8, <1>9, <1>10 DEF ImportInv

LEMMA UserKeeps ==
  ASSUME ImportInv, NEW j \in Ids, UserCancels(j)
  PROVE  ImportInv'
<1>1. PICK r \in Jobs : /\ job' = [job EXCEPT ![j] = r]
                        /\ r.item = job[j].item /\ r.sealed = job[j].sealed
                        /\ \/ r.state = "cancelled"
                           \/ r.state = job[j].state /\ r.cancelRequested /\ r.size = job[j].size
  BY CancelledIs DEF ImportInv, UserCancels
<1>2. job[j].state = "queued" => job[j].size = Size[job[j].item]
  BY DEF ImportInv, SealedIsWhole
<1> QED BY <1>1, <1>2, JobKeeps DEF UserCancels, Cancellable, Live

LEMMA UploadKeeps ==
  ASSUME ImportInv, NEW j \in Ids, Uploaded(j)
  PROVE  ImportInv'
<1>1. job \in [Ids -> Jobs] /\ job[j] \in Jobs /\ job[j].state \in Live
  BY DEF ImportInv, ImportTypes, Uploaded, Live
<1>2. PICK state \in {"completed", "cancelled"} : job' = [job EXCEPT ![j] = Ended(job[j], state)]
  BY <1>1 DEF Uploaded, Cancelled
<1> DEFINE r == Ended(job[j], state)
<1>3. r \in Jobs /\ r.state \notin Live /\ r.item = job[j].item /\ r.sealed = job[j].sealed
  BY <1>1, EndedIs DEF Live
<1>4. r.state # "queued"
  BY <1>3 DEF Live
<1> HIDE DEF r
<1> QED BY <1>1, <1>2, <1>3, <1>4, JobKeeps DEF Uploaded, r

LEMMA RestartKeeps ==
  ASSUME ImportInv, DaemonRestarts
  PROVE  ImportInv'
<1>1. /\ job \in [Ids -> Jobs] /\ work \in [Importers -> Works] /\ port \in Seq(Messages)
      /\ restarts' \in 0..MaxRestarts /\ issued \in 0..MaxIds
      /\ UNCHANGED <<issued, reported, dropped, late>>
  BY ImportAssumption DEF ImportInv, ImportTypes, DaemonRestarts, ImportAssumption
<1>2. ASSUME NEW j \in Ids
      PROVE  /\ job'[j] \in Jobs /\ job'[j].item = job[j].item /\ job'[j].sealed = job[j].sealed
             /\ job'[j].state \in Live => job'[j] = job[j] /\ job[j].state = "queued"
             /\ job[j].state = "none" => job'[j].state = "none"
  <2>1. job'[j] = Recovered(job[j]) /\ job[j] \in Jobs
    BY <1>1 DEF DaemonRestarts
  <2>2. CASE job[j].state = "importing"
    <3>1. job'[j] = Ended(job[j], "cancelled")
      BY <2>1, <2>2 DEF Recovered, Cancelled
    <3> HIDE DEF Live
    <3> QED BY <2>1, <2>2, <3>1, EndedIs DEF Live
  <2>3. CASE job[j].state # "importing"
    <3>1. job'[j] = job[j]
      BY <2>1, <2>3 DEF Recovered
    <3> QED BY <2>1, <2>3, <3>1 DEF Live
  <2> QED BY <2>2, <2>3
<1>3. job' \in [Ids -> Jobs]
  BY <1>2 DEF DaemonRestarts
<1>4. ASSUME NEW q \in Importers
      PROVE  /\ work'[q] \in Works /\ work'[q].item = work[q].item
             /\ work'[q].step \notin Waiting
             /\ \A j \in Ids : Holds(q, j)' <=> Holds(q, j)
             /\ work'[q].step = "done" => work'[q].id = 0 \/ work'[q] = work[q]
  <2>1. work'[q] = (IF work[q].step \in Waiting THEN Failed(work[q]) ELSE work[q])
        /\ work[q] \in Works
    BY <1>1 DEF DaemonRestarts
  <2>2. CASE work[q].step \in Waiting
    <3>1. /\ work'[q] \in Works /\ work'[q].item = work[q].item
          /\ work[q].step \in {"begin", "cancel"} => work'[q].step = "done" /\ work'[q].id = 0
          /\ work[q].step \in {"append", "seal"} =>
               work'[q].step = "failed" /\ work'[q].id = work[q].id
      BY <2>1, <2>2, FailedIs
    <3> QED BY <2>2, <3>1 DEF Holds, Waiting
  <2>3. CASE work[q].step \notin Waiting
    BY <2>1, <2>3 DEF Holds
  <2> QED BY <2>2, <2>3
<1>5. work' \in [Importers -> Works]
  BY <1>4 DEF DaemonRestarts
<1>6. port' = <<>> /\ port' \in Seq(Messages) /\ DOMAIN port' = {}
  BY DEF DaemonRestarts
<1>7. \A j \in Ids : ~Withdrawing(j)'
  BY <1>6 DEF Withdrawing
<1>8. /\ stranded' \in SUBSET Ids /\ stranded \subseteq stranded'
      /\ \A j \in Ids : Withdrawing(j) => j \in stranded'
  <2>1. 1..issued \subseteq Ids
    BY <1>1, ImportAssumption DEF Ids, ImportAssumption
  <2>2. \A i \in DOMAIN port : port[i].op = "cancel" => port[i].id \in Ids
    BY <2>1 DEF ImportInv, Known
  <2>3. stranded \in SUBSET Ids
    BY DEF ImportInv, ImportTypes
  <2> QED BY <2>2, <2>3 DEF DaemonRestarts, Withdrawing
<1>9. ImportTypes'
  BY <1>1, <1>3, <1>5, <1>6, <1>8 DEF ImportInv, ImportTypes
<1>10. Known'
  <2>1. \A j \in Ids : j > issued => job'[j].state = "none" /\ ~job'[j].sealed
    BY <1>2 DEF ImportInv, Known
  <2>2. ASSUME NEW q \in Importers, work'[q].step \in Holding \cup {"cancel"}
        PROVE  work'[q].id \in 1..issued /\ job'[work'[q].id].item = work'[q].item
    <3>1. work'[q].step \in {"reading", "append", "seal", "failed"}
      BY <1>4, <2>2 DEF Holding, Waiting
    <3>2. work'[q].id \in {0} \cup Ids
      BY <1>4 DEF Works
    <3>3. work'[q].id = work[q].id /\ work[q].step \in Holding
      <4>1. work'[q] = (IF work[q].step \in Waiting THEN Failed(work[q]) ELSE work[q])
            /\ work[q] \in Works
        BY <1>1 DEF DaemonRestarts
      <4>2. CASE work[q].step \in Waiting
        BY <2>2, <3>1, <4>1, <4>2, FailedIs DEF Holding, Waiting
      <4>3. CASE work[q].step \notin Waiting
        BY <2>2, <3>1, <4>1, <4>3 DEF Holding, Waiting
      <4> QED BY <4>2, <4>3
    <3>4. work[q].id \in 1..issued /\ job[work[q].id].item = work[q].item
      BY <3>3 DEF ImportInv, Known
    <3>5. work[q].id \in Ids
      BY <1>1, <3>4, ImportAssumption DEF Ids, ImportAssumption
    <3> QED BY <1>2, <1>4, <3>3, <3>4, <3>5
  <2> QED BY <1>1, <1>6, <2>1, <2>2 DEF Known
<1>11. AwaitedMatches'
  BY <1>6 DEF AwaitedMatches
<1>12. OneHolder'
  BY <1>4, <1>7 DEF ImportInv, OneHolder
<1>13. LateUnlessReturned'
  BY <1>1, <1>2, <1>4, <1>7 DEF ImportInv, LateUnlessReturned
<1>14. SealedIsWhole'
  BY <1>2 DEF ImportInv, SealedIsWhole, Live
<1>15. ReturnedIsQueued'
  <2>1. \A q \in Importers : work[q].id \in {0} \cup Ids
    BY DEF ImportInv, ImportTypes, Works
  <2> QED BY <1>2, <1>4, <2>1 DEF ImportInv, ReturnedIsQueued
<1>16. NothingLeftBehind'
  BY <1>1, <1>2, <1>4, <1>8 DEF ImportInv, NothingLeftBehind, Live
<1> QED BY <1>9, <1>10, <1>11, <1>12, <1>13, <1>14, <1>15, <1>16 DEF ImportInv

LEMMA HostKeeps ==
  ASSUME ImportInv, HostDies
  PROVE  ImportInv'
<1>1. /\ port \in Seq(Messages) /\ Idle \in Works /\ Idle.step = "idle"
      /\ work' = [p \in Importers |-> Idle]
      /\ restarts' \in 0..MaxRestarts
      /\ UNCHANGED <<job, issued, reported, dropped, late>>
  BY ImportAssumption, SomeItem
     DEF ImportInv, ImportTypes, HostDies, ImportAssumption, Idle, Works, Steps
<1>2. /\ port' \in Seq(Messages) /\ DOMAIN port' = DOMAIN port
      /\ \A i \in DOMAIN port :
           /\ port'[i].op = port[i].op /\ port'[i].item = port[i].item /\ port'[i].id = port[i].id
           /\ port'[i].from = IF port[i].from \in Importers THEN Nobody ELSE port[i].from
  BY <1>1, PortUnawaited DEF HostDies
<1>3. \A i \in DOMAIN port' : port'[i].from = Nobody
  <2>1. ASSUME NEW i \in DOMAIN port PROVE port[i].from \in Importers \cup {Nobody}
    <3>1. port[i] \in Messages
      BY <1>1
    <3> QED BY <3>1 DEF Messages
  <2> QED BY <1>2, <2>1
<1>4. /\ \A j \in Ids : Withdrawing(j)' <=> Withdrawing(j)
      /\ \A q \in Importers, j \in Ids : ~Holds(q, j)'
  BY <1>1, <1>2 DEF Withdrawing, Holds
<1>5. /\ stranded' \in SUBSET Ids /\ stranded \subseteq stranded'
      /\ \A j \in Ids, q \in Importers : Holds(q, j) => j \in stranded'
  BY DEF HostDies, ImportInv, ImportTypes
<1>6. ImportTypes'
  BY <1>1, <1>2, <1>5 DEF ImportInv, ImportTypes
<1>7. Known'
  BY <1>1, <1>2 DEF ImportInv, Known, Holding
<1>8. AwaitedMatches'
  BY <1>3 DEF AwaitedMatches
<1>9. OneHolder' /\ LateUnlessReturned' /\ SealedIsWhole' /\ ReturnedIsQueued' /\ NothingLeftBehind'
  BY <1>1, <1>4, <1>5 DEF ImportInv, OneHolder, LateUnlessReturned, SealedIsWhole, ReturnedIsQueued,
                          NothingLeftBehind
<1> QED BY <1>6, <1>7, <1>8, <1>9 DEF ImportInv

-----------------------------------------------------------------------------
(* The whole.                                                              *)

(* What a step does to the imports, ...                                     *)
LEMMA StepKinds ==
  ASSUME CountsMatch, processed \in Nat, [Next]_vars
  PROVE  \/ UNCHANGED importVars
         \/ \E p \in Importers : ImporterAlone(p)
         \/ \E p \in Importers : Abandon(p)
         \/ EngineStep
         \/ HostDies
<1>1. Batch \in Importers /\ \A n \in 1..Len(Selection) : Selection[n] \in Items
  BY BatchAssumption DEF BatchAssumption
<1>2. CASE Start \/ Stop \/ OwnerChanges
  BY <1>2 DEF Start, Stop, OwnerChanges
<1>3. CASE BatchStep
  <2>1. CASE CheckAtStart \/ CheckBefore \/ CheckAfter \/ Export \/ ExportFailed \/ End
    BY <2>1 DEF CheckAtStart, CheckBefore, CheckAfter, Check, Export, ExportFailed, End
  <2>2. CASE Import
    <3>1. processed + 1 \in 1..Len(Selection)
      BY <2>2, BatchAssumption DEF Import, CountsMatch, Going, BatchAssumption
    <3> QED BY <1>1, <2>2, <3>1 DEF Import, ImporterAlone
  <2>3. CASE Imported
    BY <1>1, <2>3 DEF Imported, ImporterAlone
  <2> QED BY <1>3, <2>1, <2>2, <2>3 DEF BatchStep
<1>4. CASE BatchDies
  BY <1>4 DEF BatchDies
<1>5. CASE OtherStep
  BY <1>5 DEF OtherStep, ImporterAlone
<1>6. CASE \E p \in Importers : ImporterStep(p)
  BY <1>6 DEF ImporterStep, ImporterAlone
<1>7. CASE UNCHANGED vars
  BY <1>7 DEF vars
<1> QED BY <1>2, <1>3, <1>4, <1>5, <1>6, <1>7 DEF Next

LEMMA ImportPreserved ==
  ASSUME ImportInv, CountsMatch, processed \in Nat, [Next]_vars
  PROVE  ImportInv'
<1>1. CASE UNCHANGED importVars
  <2>1. UNCHANGED <<job, issued, port, work, reported, dropped, late, stranded, restarts>>
    BY <1>1, Zenon DEF importVars, history
  <2>2. /\ \A j \in Ids : Withdrawing(j)' <=> Withdrawing(j)
        /\ \A q \in Importers, j \in Ids : Holds(q, j)' <=> Holds(q, j)
    BY <2>1 DEF Withdrawing, Holds
  <2>3. ImportTypes' /\ Known'
    BY <2>1 DEF ImportInv, ImportTypes, Known
  <2>4. AwaitedMatches' /\ SealedIsWhole' /\ ReturnedIsQueued'
    BY <2>1 DEF ImportInv, AwaitedMatches, SealedIsWhole, ReturnedIsQueued
  <2>5. OneHolder' /\ LateUnlessReturned' /\ NothingLeftBehind'
    BY <2>1, <2>2 DEF ImportInv, OneHolder, LateUnlessReturned, NothingLeftBehind
  <2> QED BY <2>3, <2>4, <2>5 DEF ImportInv
<1>2. ASSUME NEW p \in Importers, ImporterAlone(p) PROVE ImportInv'
  <2>1. PICK w \in Works : Local(p, w)
    BY <1>2, AloneIsLocal DEF ImportInv
  <2> QED BY <2>1, LocalKeeps
<1>3. CASE EngineStep
  BY <1>3, ReceiveKeeps, UserKeeps, UploadKeeps, RestartKeeps DEF EngineStep
<1> QED BY <1>1, <1>2, <1>3, AbandonKeeps, HostKeeps, StepKinds

(* ... to the port, to what is sealed, ...                                  *)
LEMMA PortPreserved ==
  ASSUME ImportInv, CountsMatch, processed \in Nat, Len(port) <= PortLimit, [Next]_vars
  PROVE  Len(port') <= PortLimit
<1>1. port \in Seq(Messages) /\ Len(port) \in Nat /\ PortLimit \in Nat
  BY ImportAssumption DEF ImportInv, ImportTypes, ImportAssumption
<1>2. ASSUME NEW p \in Importers, ImporterAlone(p) PROVE Len(port') <= PortLimit
  <2>1. PICK w \in Works : Local(p, w)
    BY <1>2, AloneIsLocal DEF ImportInv
  <2>2. Len(port') = Len(port) \/ (Len(port') = Len(port) + 1 /\ Len(port) < PortLimit)
    BY <1>1, <2>1 DEF Local
  <2> QED BY <1>1, <2>2
<1>3. ASSUME NEW S, port' = Unawaited(S) PROVE Len(port') <= PortLimit
  BY <1>1, <1>3, PortUnawaited
<1>4. CASE EngineStep
  <2>1. CASE Receive
    <3>1. port # <<>> /\ port' = Tail(port)
      BY <2>1 DEF Receive, BeginJob, AppendChunk, SealJob, CancelJob, Answer, Refuse
    <3> QED BY <1>1, <3>1, PortTaken
  <2>2. CASE DaemonRestarts
    BY <1>1, <2>2 DEF DaemonRestarts
  <2>3. CASE \E j \in Ids : UserCancels(j) \/ Uploaded(j)
    BY <2>3 DEF UserCancels, Uploaded
  <2> QED BY <1>4, <2>1, <2>2, <2>3 DEF EngineStep
<1>5. CASE UNCHANGED importVars
  BY <1>5 DEF importVars
<1> QED BY <1>2, <1>3, <1>4, <1>5, StepKinds DEF Abandon, HostDies

SealedStays == \A j \in Ids : job[j].sealed => job'[j].sealed /\ job'[j].item = job[j].item

LEMMA SealedPreserved ==
  ASSUME ImportInv, CountsMatch, processed \in Nat, [Next]_vars
  PROVE  SealedStays
<1>1. job \in [Ids -> Jobs]
  BY DEF ImportInv, ImportTypes
<1>2. UNCHANGED job => SealedStays
  BY DEF SealedStays
<1>3. ASSUME NEW k, NEW r \in Jobs, job' = [job EXCEPT ![k] = r],
             k \in Ids => (job[k].sealed => r.sealed /\ r.item = job[k].item)
      PROVE  SealedStays
  BY <1>1, <1>3 DEF SealedStays
<1>4. ASSUME NEW j \in Ids, Cancel(j) PROVE SealedStays
  <2>1. PICK r \in Jobs : /\ job' = [job EXCEPT ![j] = r]
                          /\ r.item = job[j].item /\ r.sealed = job[j].sealed
    BY <1>4, CancelledIs DEF ImportInv
  <2> QED BY <1>3, <2>1
<1>5. CASE Receive
  <2>1. port # <<>> /\ port' = Tail(port) /\ (m.op # "begin" => m.id \in Ids)
    <3>1. port # <<>> /\ port' = Tail(port) /\ port \in Seq(Messages)
      BY <1>5 DEF Receive, BeginJob, AppendChunk, SealJob, CancelJob, Answer, Refuse, ImportInv, ImportTypes
    <3>2. 1 \in DOMAIN port /\ port[1] = m
      BY <3>1, PortTaken
    <3> QED BY <3>1, <3>2, ImportAssumption
            DEF ImportInv, Known, ImportTypes, Ids, ImportAssumption
  <2>2. CASE BeginJob
    <3>1. CASE UNCHANGED job
      BY <1>2, <3>1
    <3>2. CASE issued < MaxIds /\ job' = [job EXCEPT ![issued + 1] = NewJob(m.item)]
      <4>1. ~job[issued + 1].sealed
        BY <3>2, NewIdIs
      <4> QED BY <1>1, <3>2, <4>1 DEF SealedStays
    <3> QED BY <2>2, <3>1, <3>2 DEF BeginJob
  <2>3. CASE AppendChunk
    <3>1. CASE UNCHANGED job
      BY <1>2, <3>1
    <3>2. CASE \E n \in Nat : job' = [job EXCEPT ![m.id].size[m.file] = @ + n]
      BY <1>1, <3>2 DEF SealedStays, Jobs
    <3>3. Chunk \in Nat /\ 0..Chunk - 1 \subseteq Nat
      BY DEF Chunk
    <3> QED BY <2>3, <3>1, <3>2, <3>3 DEF AppendChunk
  <2>4. CASE SealJob
    <3>1. CASE UNCHANGED job
      BY <1>2, <3>1
    <3>2. CASE job' = [job EXCEPT ![m.id] = [@ EXCEPT !.state = "queued", !.sealed = TRUE]]
      BY <1>1, <3>2 DEF SealedStays, Jobs
    <3>3. CASE job' = [job EXCEPT ![m.id] = Cancelled(@)]
      <4>1. m.id \in Ids /\ job[m.id] \in Jobs
        <5>1. m.op = "seal"
          BY <2>4, Zenon DEF SealJob
        <5> QED BY <1>1, <2>1, <5>1
      <4>2. job' = [job EXCEPT ![m.id] = Ended(job[m.id], "cancelled")]
        BY <1>1, <3>3, <4>1 DEF Cancelled
      <4> QED BY <1>3, <4>1, <4>2, EndedIs
    <3>4. \/ UNCHANGED job
          \/ job' = [job EXCEPT ![m.id] = [@ EXCEPT !.state = "queued", !.sealed = TRUE]]
          \/ job' = [job EXCEPT ![m.id] = Cancelled(@)]
      BY <2>4 DEF SealJob
    <3> QED BY <3>1, <3>2, <3>3, <3>4
  <2>5. CASE CancelJob
    <3>1. m.op = "cancel" /\ (Cancel(m.id) \/ UNCHANGED job)
      BY <2>5, Zenon DEF CancelJob
    <3> QED BY <1>2, <1>4, <2>1, <3>1
  <2> QED BY <1>5, <2>2, <2>3, <2>4, <2>5 DEF Receive
<1>6. ASSUME NEW j \in Ids, Uploaded(j) PROVE SealedStays
  <2>1. PICK state \in {"completed", "cancelled"} : job' = [job EXCEPT ![j] = Ended(job[j], state)]
    BY <1>1, <1>6 DEF Uploaded, Cancelled
  <2> DEFINE r == Ended(job[j], state)
  <2>2. r \in Jobs /\ r.item = job[j].item /\ r.sealed = job[j].sealed
    BY <1>1, EndedIs
  <2> HIDE DEF r
  <2>3. job' = [job EXCEPT ![j] = r]
    BY <2>1 DEF r
  <2> QED BY <1>3, <2>2, <2>3
<1>7. CASE DaemonRestarts
  <2> SUFFICES ASSUME NEW j \in Ids PROVE job'[j].sealed = job[j].sealed /\ job'[j].item = job[j].item
    BY DEF SealedStays
  <2>1. job'[j] = Recovered(job[j]) /\ job[j] \in Jobs
    BY <1>1, <1>7 DEF DaemonRestarts
  <2> QED BY <2>1, EndedIs DEF Recovered, Cancelled
<1>8. CASE EngineStep
  BY <1>4, <1>5, <1>6, <1>7, <1>8 DEF EngineStep, UserCancels
<1>9. ASSUME NEW p \in Importers, ImporterAlone(p) PROVE UNCHANGED job
  BY <1>9 DEF ImporterAlone, Begin, ReadChunk, EndOfFile, ReadFails, GiveUp, Return, others
<1>10. CASE UNCHANGED importVars
  BY <1>2, <1>10 DEF importVars
<1> QED BY <1>2, <1>8, <1>9, <1>10, StepKinds DEF Abandon, HostDies, others

(* ... and to the importer that is the batch queue.                         *)
Steady == /\ work'[Batch].item = work[Batch].item
          /\ work'[Batch].step = "idle" <=> work[Batch].step = "idle"

LEMMA SendSteady ==
  ASSUME work \in [Importers -> Works], NEW p \in Importers, NEW w \in Works, NEW op \in Waiting,
         Send(p, w, op)
  PROVE  work'[p].item = w.item /\ work'[p].step # "idle" /\ \A q \in Importers \ {p} : work'[q] = work[q]
<1> DEFINE v == [w EXCEPT !.step = op]
<1>1. v \in Works /\ v.step = op /\ v.item = w.item
  BY DEF Works, Steps
<1>2. work' = [work EXCEPT ![p] = v] \/ work' = [work EXCEPT ![p] = Failed(v)]
  BY DEF Send
<1> HIDE DEF v
<1>3. Failed(v) \in Works /\ Failed(v).item = w.item /\ Failed(v).step \in {"done", "failed"}
  BY <1>1, FailedIs
<1> QED BY <1>1, <1>2, <1>3 DEF Waiting

LEMMA ImporterSteady ==
  ASSUME ImportTypes, NEW p \in Importers, ImporterStep(p)
  PROVE  Steady
<1>1. work \in [Importers -> Works] /\ work[p] \in Works /\ Batch \in Importers
  BY BatchAssumption DEF ImportTypes, BatchAssumption
<1>2. ASSUME NEW w \in Works, NEW op \in Waiting, Send(p, w, op), w.item = work[p].item,
             work[p].step # "idle"
      PROVE  Steady
  BY <1>1, <1>2, SendSteady DEF Steady
<1>3. ASSUME NEW w \in Works, work' = [work EXCEPT ![p] = w], w.item = work[p].item,
             work[p].step # "idle", w.step # "idle"
      PROVE  Steady
  BY <1>1, <1>3 DEF Steady
<1>4. Failed(work[p]) \in Works /\ Failed(work[p]).item = work[p].item
      /\ Failed(work[p]).step \in {"done", "failed"}
  BY <1>1, FailedIs
<1>5. CASE ReadChunk(p)
  BY <1>1, <1>2, <1>5 DEF ReadChunk, Waiting
<1>6. CASE EndOfFile(p)
  <2> DEFINE next == [work[p] EXCEPT !.file = @ + 1, !.offset = 0]
             first == [work[p] EXCEPT !.file = 1, !.offset = 0]
  <2>1. first \in Works /\ first.item = work[p].item /\ first.step = work[p].step
    BY <1>1 DEF Works
  <2>2. next.item = work[p].item /\ next.step = work[p].step
    BY <1>1 DEF Works
  <2>3. work[p].step = "reading" /\ (work' = [work EXCEPT ![p] = next] \/ Send(p, first, "seal"))
    BY <1>6 DEF EndOfFile, Goto
  <2> HIDE DEF first, next
  <2>4. CASE work' = [work EXCEPT ![p] = next]
    BY <1>1, <2>2, <2>3, <2>4 DEF Steady
  <2> QED BY <1>2, <2>1, <2>3, <2>4 DEF Waiting
<1>7. CASE ReadFails(p)
  BY <1>3, <1>4, <1>7 DEF ReadFails, Goto
<1>8. CASE GiveUp(p)
  BY <1>1, <1>2, <1>8 DEF GiveUp, Waiting
<1>9. CASE Abandon(p)
  <2>1. work' = [work EXCEPT ![p] = Failed(work[p])] /\ work[p].step # "idle"
    BY <1>1, <1>9 DEF Abandon, Waiting
  <2> QED BY <1>3, <1>4, <2>1
<1> QED BY <1>5, <1>6, <1>7, <1>8, <1>9 DEF ImporterStep

LEMMA EngineSteady ==
  ASSUME ImportInv, EngineStep
  PROVE  Steady
<1>1. work \in [Importers -> Works] /\ Batch \in Importers /\ Batch # Nobody /\ work[Batch] \in Works
  BY BatchAssumption, ImportAssumption DEF ImportInv, ImportTypes, BatchAssumption, ImportAssumption
<1>2. CASE Receive
  <2>1. port # <<>> /\ \E id \in {0} \cup Ids : Answer(id) \/ Refuse
    <3>1. port # <<>> /\ port' = Tail(port) /\ port \in Seq(Messages)
      BY <1>2 DEF Receive, BeginJob, AppendChunk, SealJob, CancelJob, Answer, Refuse, ImportInv, ImportTypes
    <3>2. CASE BeginJob
      <4>1. issued < MaxIds => issued + 1 \in {0} \cup Ids
        BY NewIdIs
      <4> QED BY <3>1, <3>2, <4>1 DEF BeginJob
    <3>3. CASE AppendChunk \/ CancelJob
      BY <3>1, <3>3 DEF AppendChunk, CancelJob
    <3>4. CASE SealJob
      <4>1. 1 \in DOMAIN port /\ port[1] = m /\ m.op = "seal"
        <5>1. m.op = "seal"
          BY <3>4, Zenon DEF SealJob
        <5> QED BY <3>1, <5>1, PortTaken
      <4>2. m.id \in 1..issued
        BY <4>1 DEF ImportInv, Known
      <4>3. m.id \in Ids
        BY <4>2, ImportAssumption DEF ImportInv, ImportTypes, Ids, ImportAssumption
      <4>4. Answered(m.id) \in {0} \cup Ids
        BY <4>3, AnsweredIs DEF ImportInv
      <4>5. Answer(Answered(m.id)) \/ Refuse
        BY <3>4, Zenon DEF SealJob
      <4> QED BY <3>1, <4>4, <4>5
    <3> QED BY <1>2, <3>2, <3>3, <3>4 DEF Receive
  <2>2. PICK id \in {0} \cup Ids : Answer(id) \/ Refuse
    BY <2>1
  <2>3. CASE m.from # Batch
    <3>1. work'[Batch] = work[Batch]
      BY <1>1, <2>1, <2>2, <2>3, ReplyIs
    <3> QED BY <3>1 DEF Steady
  <2>4. CASE m.from = Batch
    <3>1. /\ m.op \in Waiting /\ work[Batch].step = m.op
          /\ work[Batch].item = m.item /\ work'[Batch].item = m.item
          /\ m.op \in {"append", "seal"} => work'[Batch].step \in {"reading", "failed", "done"}
          /\ m.op = "cancel" => work'[Batch].step = "done"
          /\ m.op = "begin" => work'[Batch].step \in {"done", "reading"}
      BY <1>1, <2>1, <2>2, <2>4, ReplyIs DEF Messages
    <3> QED BY <3>1 DEF Steady, Waiting
  <2> QED BY <2>3, <2>4
<1>3. CASE \E j \in Ids : UserCancels(j) \/ Uploaded(j)
  BY <1>3 DEF UserCancels, Uploaded, Steady
<1>4. CASE DaemonRestarts
  <2>1. Failed(work[Batch]).item = work[Batch].item /\ Failed(work[Batch]).step \in {"done", "failed"}
    BY <1>1, FailedIs
  <2>2. work'[Batch] = IF work[Batch].step \in Waiting THEN Failed(work[Batch]) ELSE work[Batch]
    BY <1>1, <1>4 DEF DaemonRestarts
  <2> QED BY <2>1, <2>2 DEF Steady, Waiting
<1> QED BY <1>2, <1>3, <1>4 DEF EngineStep

LEMMA OtherSteady ==
  ASSUME ImportTypes, OtherStep
  PROVE  Steady
<1>1. work \in [Importers -> Works] /\ Batch \in Importers
  BY BatchAssumption DEF ImportTypes, BatchAssumption
<1>2. PICK p \in Importers \ {Batch} : Return(p) \/ \E item \in Items : Begin(p, item)
  BY DEF OtherStep
<1>3. work'[Batch] = work[Batch]
  BY <1>1, <1>2 DEF Return, Begin, Goto, Send
<1> QED BY <1>3 DEF Steady

-----------------------------------------------------------------------------
(* The batch.                                                              *)

BatchTypes ==
    /\ {signedIn, current, files} \subseteq BOOLEAN
    /\ stop \in {"", "stopped"} /\ at \in Ats /\ last \in Counts
    /\ processed \in 0..Len(Selection) /\ queued \in Nat /\ failed \in Nat
    /\ processed = queued + failed
    /\ seen \subseteq Needs

OwnInv == BatchTypes /\ ProgressIsCurrent /\ CountsMatch /\ SeenSince

LEMMA CountIs ==
  ASSUME NEW p \in Nat, NEW q \in Nat, NEW f \in Nat, NEW active \in BOOLEAN
  PROVE  LET r == [active |-> active, processed |-> p, queued |-> q, failed |-> f]
         IN  r \in Counts /\ r.active = active /\ r.processed = p /\ r.queued = q
BY DEF Counts

(* The loop is left.                                                        *)
LEMMA LeaveKeeps ==
  ASSUME OwnInv, at # "none", at = "importing" => work'[Batch].step = "idle",
         at # "importing" => UNCHANGED work, Leave, UNCHANGED <<current, last, count>>
  PROVE  OwnInv'
<1>1. UNCHANGED <<processed, queued, failed>>
  BY DEF count
<1>2. BatchTypes'
  BY <1>1 DEF OwnInv, BatchTypes, Leave, Ats
<1>3. ProgressIsCurrent'
  <2>1. at' = "ending" /\ current' = current /\ last' = last
    BY DEF Leave
  <2>2. work'[Batch].step = "idle"
    BY DEF OwnInv, ProgressIsCurrent
  <2>3. current /\ last.active
    BY Zenon DEF OwnInv, ProgressIsCurrent
  <2>4. (last.active <=> current)' /\ (current <=> at # "none")'
    BY <2>1, <2>3
  <2>5. (at = "importing" <=> work[Batch].step # "idle")'
    BY <2>1, <2>2
  <2> QED BY <2>4, <2>5 DEF ProgressIsCurrent
<1>4. CountsMatch' /\ SeenSince'
  BY <1>1 DEF OwnInv, CountsMatch, SeenSince, Leave, Going
<1> QED BY <1>2, <1>3, <1>4 DEF OwnInv

(* What is counted is shown.                                                *)
LEMMA CountedIs ==
  ASSUME OwnInv, at \in Going, NEW isQueued \in BOOLEAN, NEW owners \in SUBSET BOOLEAN,
         Counted(isQueued, owners)
  PROVE  /\ processed' = processed + 1 /\ processed' \in 0..Len(Selection)
         /\ queued' \in Nat /\ failed' \in Nat /\ processed' = queued' + failed'
         /\ queued' = IF isQueued THEN queued + 1 ELSE queued
         /\ last' \in Counts /\ last'.active /\ last'.processed = processed' /\ last'.queued = queued'
         /\ \/ at' = "next" /\ processed' < Len(Selection) /\ files' = FALSE /\ seen' = {}
               /\ signedIn' \in BOOLEAN /\ stop' = stop
            \/ Leave
<1>1. processed < Len(Selection) /\ processed \in Nat /\ Len(Selection) \in Nat
      /\ queued \in Nat /\ failed \in Nat /\ processed = queued + failed
  <2>1. processed \in 0..Len(Selection) /\ queued \in Nat /\ failed \in Nat /\ processed = queued + failed
    BY Zenon DEF OwnInv, BatchTypes
  <2>2. processed < Len(Selection)
    BY DEF OwnInv, CountsMatch
  <2>3. Len(Selection) \in Nat
    BY BatchAssumption DEF BatchAssumption
  <2> QED BY <2>1, <2>2, <2>3
<1>3. /\ processed' = processed + 1
      /\ isQueued => queued' = queued + 1 /\ failed' = failed
      /\ ~isQueued => failed' = failed + 1 /\ queued' = queued
  BY Zenon DEF Counted
<1>2. processed' = processed + 1 /\ processed' \in 0..Len(Selection)
  BY <1>1, <1>3
<1>5. /\ queued' \in Nat /\ failed' \in Nat /\ processed' = queued' + failed'
      /\ queued' = IF isQueued THEN queued + 1 ELSE queued
  <2>1. CASE isQueued
    BY <1>1, <1>2, <1>3, <2>1
  <2>2. CASE ~isQueued
    BY <1>1, <1>2, <1>3, <2>2
  <2> QED BY <2>1, <2>2
<1> DEFINE yes == TRUE
<1>6. last' = [active |-> yes, processed |-> processed', queued |-> queued', failed |-> failed']
  BY DEF Counted, Snapshot
<1>7. last' \in Counts /\ last'.active /\ last'.processed = processed' /\ last'.queued = queued'
  <2>1. yes \in BOOLEAN /\ yes /\ processed' \in Nat
    BY <1>1, <1>2
  <2> HIDE DEF yes
  <2> QED BY <1>5, <1>6, <2>1, CountIs
<1>8. \/ at' = "next" /\ processed' < Len(Selection) /\ files' = FALSE /\ seen' = {}
         /\ signedIn' \in BOOLEAN /\ stop' = stop
      \/ Leave
  BY Zenon DEF Counted, Further
<1> QED BY <1>2, <1>5, <1>7, <1>8

LEMMA CountedKeeps ==
  ASSUME OwnInv, at \in Going, NEW isQueued \in BOOLEAN, NEW owners \in SUBSET BOOLEAN,
         Counted(isQueued, owners), UNCHANGED current, work'[Batch].step = "idle"
  PROVE  OwnInv'
<1>1. /\ processed' = processed + 1 /\ processed' \in 0..Len(Selection)
      /\ queued' \in Nat /\ failed' \in Nat /\ processed' = queued' + failed'
      /\ last' \in Counts /\ last'.active /\ last'.processed = processed' /\ last'.queued = queued'
      /\ \/ at' = "next" /\ processed' < Len(Selection) /\ files' = FALSE /\ seen' = {}
            /\ signedIn' \in BOOLEAN /\ stop' = stop
         \/ Leave
  BY CountedIs
<1>2. current /\ current'
  <2>1. at # "none"
    BY DEF Going
  <2> QED BY <2>1 DEF OwnInv, ProgressIsCurrent
<1>3. at' \in {"next", "ending"}
  BY <1>1 DEF Leave
<1>4. BatchTypes'
  <2>1. signedIn' \in BOOLEAN /\ files' \in BOOLEAN /\ stop' \in {"", "stopped"} /\ seen' = {}
    BY <1>1 DEF Leave, OwnInv, BatchTypes
  <2>2. current' \in BOOLEAN
    BY DEF OwnInv, BatchTypes
  <2> QED BY <1>1, <1>3, <2>1, <2>2 DEF BatchTypes, Ats
<1>5. ProgressIsCurrent'
  <2>1. (last.active <=> current)'
    BY <1>1, <1>2
  <2>2. (current <=> at # "none")'
    BY <1>2, <1>3
  <2>3. (at = "importing" <=> work[Batch].step # "idle")'
    BY <1>3
  <2> QED BY <2>1, <2>2, <2>3 DEF ProgressIsCurrent
<1>6. CountsMatch' /\ SeenSince'
  BY <1>1, <1>3 DEF CountsMatch, SeenSince, Leave, Going
<1> QED BY <1>4, <1>5, <1>6 DEF OwnInv

LEMMA ReservedIs ==
  ASSUME OwnInv
  PROVE  /\ at # "none" => current /\ last.active
         /\ ~current => at = "none"
         /\ at # "importing" => work[Batch].step = "idle"
         /\ processed \in Nat /\ Len(Selection) \in Nat \ {0}
         /\ "" \in {"", "stopped"}
<1>1. /\ at # "none" => current /\ last.active
      /\ ~current => at = "none"
  BY Zenon DEF OwnInv, ProgressIsCurrent
<1>2. at # "importing" => work[Batch].step = "idle"
  BY DEF OwnInv, ProgressIsCurrent
<1>3. processed \in 0..Len(Selection) /\ Len(Selection) \in Nat \ {0}
  <2>1. processed \in 0..Len(Selection)
    BY Zenon DEF OwnInv, BatchTypes
  <2>2. Selection \in Seq(Items) /\ Selection # <<>>
    BY BatchAssumption DEF BatchAssumption
  <2> QED BY <2>1, <2>2, EmptySeq
<1> QED BY <1>1, <1>2, <1>3

(* The batch goes on to another step, and counts nothing.                   *)
LEMMA MovedKeeps ==
  ASSUME OwnInv, at # "none", UNCHANGED <<current, last, count>>, stop' \in {"", "stopped"},
         signedIn' \in BOOLEAN, files' \in BOOLEAN, seen' \subseteq Needs,
         at' \in Ats \ {"none"}, at' \in Going => at \in Going,
         at' = "importing" <=> work'[Batch].step # "idle",
         at' = "importing" => work'[Batch].item = Selection[processed + 1],
         SeenSince'
  PROVE  OwnInv'
<1>1. UNCHANGED <<processed, queued, failed>>
  BY DEF count
<1>2. BatchTypes'
  <2>1. current' \in BOOLEAN /\ last' \in Counts
    BY Zenon DEF OwnInv, BatchTypes
  <2>2. processed \in 0..Len(Selection) /\ queued \in Nat /\ failed \in Nat /\ processed = queued + failed
    BY Zenon DEF OwnInv, BatchTypes
  <2> QED BY <1>1, <2>1, <2>2 DEF BatchTypes
<1>3. ProgressIsCurrent'
  <2>1. (last.active <=> current)' /\ (current <=> at # "none")'
    BY ReservedIs
  <2> QED BY <2>1 DEF ProgressIsCurrent
<1>4. CountsMatch'
  BY <1>1 DEF OwnInv, CountsMatch
<1> QED BY <1>2, <1>3, <1>4 DEF OwnInv

LEMMA NowIs ==
  /\ Now \subseteq Needs
  /\ stop = "" /\ signedIn => Now = Needs
  /\ stop # "" => "going on" \notin Now
BY DEF Now, Needs

(* A new batch, or none: nothing has been counted.                          *)
LEMMA NothingCounted ==
  0 \in Nat /\ 0 = 0 + 0 /\ \A n \in Nat \ {0} : 0 < n /\ 0 \in 0..n
OBVIOUS

LEMMA NewKeeps ==
  ASSUME OwnInv, NEW active \in BOOLEAN, current' = active, stop' = "",
         at' = IF active THEN "starting" ELSE "none",
         processed' = 0 /\ queued' = 0 /\ failed' = 0,
         last' = [active |-> active, processed |-> 0, queued |-> 0, failed |-> 0],
         files' = FALSE, seen' = {}, signedIn' \in BOOLEAN,
         work'[Batch].step = "idle"
  PROVE  OwnInv'
<1>1. last' \in Counts /\ last'.active = active /\ last'.processed = 0 /\ last'.queued = 0
  BY CountIs
<1>2. 0 < Len(Selection) /\ 0 \in 0..Len(Selection) /\ 0 \in Nat /\ 0 = 0 + 0
  <2>1. Len(Selection) \in Nat \ {0}
    BY ReservedIs, Zenon
  <2> QED BY <2>1, NothingCounted, Zenon
<1>3. BatchTypes'
  <2>1. {signedIn', current', files'} \subseteq BOOLEAN
    OBVIOUS
  <2>2. stop' \in {"", "stopped"} /\ at' \in Ats /\ seen' \subseteq Needs
    BY DEF Ats
  <2>3. /\ processed' \in 0..Len(Selection) /\ queued' \in Nat /\ failed' \in Nat
        /\ processed' = queued' + failed'
    BY <1>2
  <2> QED BY <1>1, <2>1, <2>2, <2>3, Zenon DEF BatchTypes
<1>4. ProgressIsCurrent'
  BY <1>1 DEF ProgressIsCurrent
<1>5. CountsMatch' /\ SeenSince'
  BY <1>1, <1>2 DEF CountsMatch, SeenSince, Going
<1> QED BY <1>3, <1>4, <1>5 DEF OwnInv

LEMMA CheckKeeps ==
  ASSUME OwnInv, NEW here \in Going \ {"importing"}, NEW next \in {"next", "export", "import"},
         Check(here, next), next = "import" => here = "exported"
  PROVE  OwnInv'
<1>1. at = here /\ UNCHANGED importVars /\ UNCHANGED <<current, last, count>>
  BY DEF Check
<1>2. UNCHANGED work /\ at # "none" /\ at # "importing"
  BY <1>1 DEF importVars, Going
<1>3. CASE Leave
  BY <1>1, <1>2, <1>3, LeaveKeeps
<1>4. CASE stop = "" /\ signedIn /\ at' = next /\ UNCHANGED <<signedIn, stop, files, seen>>
  <2>1. SeenSince'
    <3>1. next = "import" => seen = Needs
      <4>1. at = "exported" => Now \subseteq seen
        BY DEF OwnInv, SeenSince
      <4>2. seen \subseteq Needs
        BY DEF OwnInv, BatchTypes
      <4>3. Now = Needs
        BY <1>4, NowIs
      <4> QED BY <1>1, <4>1, <4>2, <4>3
    <3> QED BY <1>4, <3>1 DEF SeenSince
  <2>2. signedIn \in BOOLEAN /\ files \in BOOLEAN /\ seen \subseteq Needs /\ stop \in {"", "stopped"}
    BY Zenon DEF OwnInv, BatchTypes
  <2>3. work[Batch].step = "idle"
    BY <1>2, ReservedIs
  <2> HIDE DEF SeenSince
  <2> QED BY <1>1, <1>2, <1>4, <2>1, <2>2, <2>3, MovedKeeps DEF Ats, Going
<1> QED BY <1>3, <1>4, Zenon DEF Check

LEMMA OwnPreserved ==
  ASSUME ImportInv, OwnInv, [Next]_vars
  PROVE  OwnInv'
<1>1. CASE Start
  <2>1. at = "none" /\ work[Batch].step = "idle" /\ UNCHANGED work
    BY <1>1, ReservedIs DEF Start, importVars
  <2> QED BY <1>1, <2>1, NewKeeps DEF Start
<1>2. CASE Stop
  <2>1. at # "none" /\ UNCHANGED work
    BY <1>2, Zenon DEF Stop, importVars, OwnInv, ProgressIsCurrent
  <2>2. SeenSince'
    BY <1>2 DEF Stop, SeenSince, OwnInv, Now, Needs
  <2>3. signedIn \in BOOLEAN /\ files \in BOOLEAN /\ seen \subseteq Needs /\ at \in Ats
    BY Zenon DEF OwnInv, BatchTypes
  <2>4. UNCHANGED processed
    BY <1>2 DEF Stop, count
  <2>5. at = "importing" => work[Batch].item = Selection[processed + 1]
    BY DEF OwnInv, CountsMatch
  <2>6. at = "importing" <=> work[Batch].step # "idle"
    BY Zenon DEF OwnInv, ProgressIsCurrent
  <2> HIDE DEF SeenSince
  <2> QED BY <1>2, <2>1, <2>2, <2>3, <2>4, <2>5, <2>6, MovedKeeps DEF Stop
<1>3. CASE OwnerChanges
  <2>1. UNCHANGED work /\ UNCHANGED <<current, last, stop, at, count, files>> /\ at # "none"
        /\ at # "importing" /\ signedIn' \in BOOLEAN
        /\ seen' = IF at = "exported" THEN seen \cup Now' ELSE seen
    BY <1>3, Zenon DEF OwnerChanges, importVars, batch
  <2>2. signedIn \in BOOLEAN /\ files \in BOOLEAN /\ seen \subseteq Needs /\ at \in Ats
        /\ stop \in {"", "stopped"}
    BY Zenon DEF OwnInv, BatchTypes
  <2>3. seen' \subseteq Needs
    BY <2>1, <2>2 DEF Now
  <2>4. SeenSince'
    BY <2>1 DEF SeenSince, OwnInv
  <2>5. work[Batch].step = "idle"
    BY <2>1, ReservedIs
  <2> HIDE DEF SeenSince
  <2> QED BY <2>1, <2>2, <2>3, <2>4, <2>5, MovedKeeps
<1>4. CASE CheckAtStart \/ CheckBefore \/ CheckAfter
  BY <1>4, CheckKeeps DEF CheckAtStart, CheckBefore, CheckAfter, Going
<1>5. CASE Export
  <2>1. at = "export" /\ UNCHANGED work /\ UNCHANGED current /\ work[Batch].step = "idle"
    BY <1>5, ReservedIs DEF Export, importVars
  <2>2. signedIn \in BOOLEAN /\ stop \in {"", "stopped"}
    BY Zenon DEF OwnInv, BatchTypes
  <2>3. CASE Counted(FALSE, {signedIn})
    BY <2>1, <2>2, <2>3, CountedKeeps DEF Going
  <2>4. CASE Leave /\ UNCHANGED <<count, last>>
    BY <2>1, <2>4, LeaveKeeps
  <2>5. CASE at' = "exported" /\ files' \in BOOLEAN /\ seen' = Now /\ UNCHANGED <<signedIn, stop, count, last>>
    <3>1. SeenSince'
      BY <2>5 DEF SeenSince, Now
    <3> HIDE DEF SeenSince
    <3> QED BY <2>1, <2>2, <2>5, <3>1, NowIs, MovedKeeps DEF Ats, Going
  <2> QED BY <1>5, <2>3, <2>4, <2>5, Zenon DEF Export
<1>6. CASE ExportFailed
  <2>1. at = "import" /\ UNCHANGED work /\ UNCHANGED current /\ work[Batch].step = "idle"
    BY <1>6, ReservedIs DEF ExportFailed, importVars
  <2>2. signedIn \in BOOLEAN
    BY Zenon DEF OwnInv, BatchTypes
  <2>3. CASE Counted(FALSE, {signedIn})
    BY <2>1, <2>2, <2>3, CountedKeeps DEF Going
  <2>4. CASE Leave /\ UNCHANGED <<count, last>>
    BY <2>1, <2>4, LeaveKeeps
  <2> QED BY <1>6, <2>3, <2>4, Zenon DEF ExportFailed
<1>7. CASE Import
  <2>1. work \in [Importers -> Works] /\ Batch \in Importers /\ Selection[processed + 1] \in Items
    <3>1. at = "import" /\ processed \in Nat /\ Selection \in Seq(Items)
      BY <1>7, ReservedIs, BatchAssumption DEF Import, BatchAssumption
    <3>2. processed + 1 \in 1..Len(Selection)
      BY <3>1, ReservedIs DEF OwnInv, CountsMatch, Going
    <3> QED BY <3>1, <3>2, BatchAssumption DEF ImportInv, ImportTypes, BatchAssumption
  <2> DEFINE w == [Idle EXCEPT !.item = Selection[processed + 1]]
  <2>2. w \in Works /\ w.item = Selection[processed + 1]
    BY <2>1, SomeItem DEF Idle, Works, Steps
  <2>3. work'[Batch].item = Selection[processed + 1] /\ work'[Batch].step # "idle"
    <3>1. Send(Batch, w, "begin") \/ Goto(Batch, Done(w, 0))
      BY <1>7 DEF Import, Begin
    <3> HIDE DEF w
    <3>2. CASE Send(Batch, w, "begin")
      BY <2>1, <2>2, <3>2, SendSteady DEF Waiting
    <3>3. CASE Goto(Batch, Done(w, 0))
      BY <2>1, <2>2, <3>3, DoneIs DEF Goto
    <3> QED BY <3>1, <3>2, <3>3
  <2>4. at = "import" /\ at' = "importing" /\ seen' = {} /\ files' = FALSE /\ signedIn' = TRUE
        /\ UNCHANGED <<current, last, stop, count>>
    BY <1>7, Zenon DEF Import
  <2>5. SeenSince'
    BY <2>4 DEF SeenSince
  <2>6. stop \in {"", "stopped"}
    BY Zenon DEF OwnInv, BatchTypes
  <2> HIDE DEF SeenSince
  <2> QED BY <2>3, <2>4, <2>5, <2>6, MovedKeeps DEF Ats, Going
<1>8. CASE Imported
  <2>1. at = "importing" /\ UNCHANGED current /\ work'[Batch].step = "idle"
    <3>1. work' = [work EXCEPT ![Batch] = Idle]
      BY <1>8 DEF Imported, Return, Goto
    <3> QED BY <1>8, <3>1, BatchAssumption DEF Imported, Idle, ImportInv, ImportTypes, BatchAssumption
  <2>2. CASE Counted(TRUE, BOOLEAN)
    BY <2>1, <2>2, CountedKeeps DEF Going
  <2>3. CASE Leave /\ UNCHANGED <<count, last>>
    BY <2>1, <2>3, LeaveKeeps
  <2> QED BY <1>8, <2>2, <2>3, Zenon DEF Imported
<1>9. CASE End
  <2>1. at = "ending" /\ at' = "none" /\ UNCHANGED work /\ work[Batch].step = "idle"
        /\ last' = Snapshot(FALSE) /\ current' = FALSE
    BY <1>9, ReservedIs DEF End, importVars
  <2>2. processed \in Nat /\ queued \in Nat /\ failed \in Nat
    BY ReservedIs, Zenon DEF OwnInv, BatchTypes
  <2> DEFINE no == FALSE
  <2>3. last' = [active |-> no, processed |-> processed, queued |-> queued, failed |-> failed]
    BY <2>1 DEF Snapshot
  <2>4. last' \in Counts /\ ~last'.active
    <3>1. no \in BOOLEAN /\ ~no OBVIOUS
    <3> HIDE DEF no
    <3> QED BY <2>2, <2>3, <3>1, CountIs
  <2>5. BatchTypes'
    <3>1. stop' = "" /\ processed' = 0 /\ queued' = 0 /\ failed' = 0
          /\ files' = FALSE /\ seen' = {} /\ signedIn' = TRUE
      BY <1>9 DEF End
    <3>2. {signedIn', current', files'} \subseteq BOOLEAN
      BY <2>1, <3>1
    <3>3. stop' \in {"", "stopped"} /\ at' \in Ats /\ seen' \subseteq Needs
      BY <2>1, <3>1 DEF Ats
    <3>4. /\ processed' \in 0..Len(Selection) /\ queued' \in Nat /\ failed' \in Nat
          /\ processed' = queued' + failed'
      <4>1. Len(Selection) \in Nat \ {0}
        BY ReservedIs, Zenon
      <4> QED BY <3>1, <4>1, NothingCounted, Zenon
    <3> QED BY <2>4, <3>2, <3>3, <3>4, Zenon DEF BatchTypes
  <2>6. ProgressIsCurrent'
    BY <2>1, <2>4 DEF ProgressIsCurrent
  <2>7. CountsMatch' /\ SeenSince'
    BY <2>1 DEF CountsMatch, SeenSince, Going
  <2> QED BY <2>5, <2>6, <2>7 DEF OwnInv
<1>10. CASE BatchDies
  <2>1. work'[Batch].step = "idle"
    BY <1>10, BatchAssumption DEF BatchDies, HostDies, Idle, BatchAssumption
  <2> QED BY <1>10, <2>1, NewKeeps DEF BatchDies
<1>11. ASSUME Steady, UNCHANGED <<signedIn, batch, seen>> PROVE OwnInv'
  <2>1. UNCHANGED <<signedIn, current, last, stop, at, processed, queued, failed, files, seen>>
    BY <1>11, Zenon DEF batch, count
  <2>2. BatchTypes' /\ SeenSince'
    BY <2>1, Zenon DEF OwnInv, BatchTypes, SeenSince, Now
  <2>3. ProgressIsCurrent'
    <3>1. (last.active <=> current)' /\ (current <=> at # "none")'
      BY <2>1, Zenon DEF OwnInv, ProgressIsCurrent
    <3>2. (at = "importing" <=> work[Batch].step # "idle")'
      BY <1>11, <2>1 DEF OwnInv, ProgressIsCurrent, Steady
    <3> QED BY <3>1, <3>2 DEF ProgressIsCurrent
  <2>4. CountsMatch'
    BY <1>11, <2>1 DEF OwnInv, CountsMatch, Steady
  <2> QED BY <2>2, <2>3, <2>4 DEF OwnInv
<1>12. CASE EngineStep /\ UNCHANGED <<signedIn, batch, seen>>
  BY <1>11, <1>12, EngineSteady
<1>13. CASE OtherStep /\ UNCHANGED <<signedIn, batch, seen>>
  BY <1>11, <1>13, OtherSteady DEF ImportInv
<1>14. CASE (\E p \in Importers : ImporterStep(p)) /\ UNCHANGED <<signedIn, batch, seen>>
  BY <1>11, <1>14, ImporterSteady DEF ImportInv
<1>15. CASE UNCHANGED vars
  <2>1. UNCHANGED work /\ UNCHANGED <<signedIn, batch, seen>>
    BY <1>15, Zenon DEF vars, importVars
  <2> QED BY <1>11, <2>1 DEF Steady
<1> QED BY <1>1, <1>2, <1>3, <1>4, <1>5, <1>6, <1>7, <1>8, <1>9, <1>10, <1>12, <1>13, <1>14, <1>15
        DEF Next, BatchStep

(* What a step shows of the batch.                                          *)
LEMMA LastKinds ==
  ASSUME ImportInv, OwnInv, [Next]_vars
  PROVE  \/ last'.processed = 0 /\ last'.queued = 0
         \/ last'.processed = last.processed /\ last'.queued = last.queued
         \/ last'.processed = last.processed + 1 /\ last'.queued = last.queued
         \/ /\ last'.processed = last.processed + 1 /\ last'.queued = last.queued + 1
            /\ UNCHANGED job
            /\ \E j \in Ids : job[j].sealed /\ job[j].item = Selection[last.processed + 1]
<1>1. at # "none" => last.processed = processed /\ last.queued = queued
  BY DEF OwnInv, CountsMatch
<1>2. ASSUME NEW owners \in SUBSET BOOLEAN, Counted(FALSE, owners), at \in Going
      PROVE  last'.processed = last.processed + 1 /\ last'.queued = last.queued
  BY <1>1, <1>2, CountedIs DEF Going
<1>3. CASE Start \/ BatchDies
  <2>1. last' = [active |-> TRUE, processed |-> 0, queued |-> 0, failed |-> 0]
        \/ last' = [active |-> FALSE, processed |-> 0, queued |-> 0, failed |-> 0]
    BY <1>3 DEF Start, BatchDies
  <2> QED BY <2>1
<1>4. CASE Stop \/ OwnerChanges \/ Import \/ CheckAtStart \/ CheckBefore \/ CheckAfter
  BY <1>4, Zenon DEF Stop, OwnerChanges, batch, Import, CheckAtStart, CheckBefore, CheckAfter, Check
<1>5. CASE Export \/ ExportFailed
  <2>1. signedIn \in BOOLEAN
    BY Zenon DEF OwnInv, BatchTypes
  <2>2. Counted(FALSE, {signedIn}) \/ UNCHANGED last
    BY <1>5, Zenon DEF Export, ExportFailed
  <2>3. at \in Going
    BY <1>5 DEF Export, ExportFailed, Going
  <2> QED BY <1>2, <2>1, <2>2, <2>3
<1>6. CASE Imported
  <2>1. CASE Leave /\ UNCHANGED <<count, last>>
    BY <2>1
  <2>2. CASE Succeeded /\ Counted(TRUE, BOOLEAN)
    <3>1. at = "importing" /\ at \in Going /\ UNCHANGED job /\ work[Batch].step = "done" /\ work[Batch].id # 0
      BY <1>6, <2>2 DEF Imported, Return, others, Succeeded, Going
    <3>2. last'.processed = last.processed + 1 /\ last'.queued = last.queued + 1
      BY <1>1, <2>2, <3>1, CountedIs
    <3>3. work[Batch].id \in Ids /\ work[Batch].item = Selection[last.processed + 1]
      BY <1>1, <3>1, BatchAssumption
         DEF OwnInv, CountsMatch, ImportInv, ImportTypes, Works, BatchAssumption
    <3>4. job[work[Batch].id].sealed /\ job[work[Batch].id].item = work[Batch].item
      BY <3>1, BatchAssumption DEF ImportInv, ReturnedIsQueued, BatchAssumption
    <3> QED BY <3>1, <3>2, <3>3, <3>4
  <2> QED BY <1>6, <2>1, <2>2, Zenon DEF Imported
<1>7. CASE End
  <2>1. last' = [active |-> FALSE, processed |-> processed, queued |-> queued, failed |-> failed]
    BY <1>7 DEF End, Snapshot
  <2>2. at # "none"
    BY <1>7 DEF End
  <2> QED BY <1>1, <2>1, <2>2
<1>8. CASE UNCHANGED last
  BY <1>8
<1>9. CASE UNCHANGED <<signedIn, batch, seen>> \/ UNCHANGED vars
  BY <1>8, <1>9, Zenon DEF batch, vars
<1> QED BY <1>3, <1>4, <1>5, <1>6, <1>7, <1>9 DEF Next, BatchStep

LEMMA CardGrows ==
  ASSUME NEW n \in Nat, NEW k \in Nat, NEW A \in SUBSET (1..n), NEW B \in SUBSET (1..k), A \subseteq B
  PROVE  /\ Cardinality(A) \in Nat /\ Cardinality(B) \in Nat /\ Cardinality(B) >= Cardinality(A)
         /\ \A x \in B : x \notin A => Cardinality(B) >= Cardinality(A) + 1
<1>1. IsFiniteSet(1..n) /\ IsFiniteSet(1..k)
  BY FS_Interval
<1>2. IsFiniteSet(A) /\ IsFiniteSet(B)
  BY <1>1, FS_Subset
<1>3. Cardinality(A) \in Nat /\ Cardinality(B) \in Nat /\ Cardinality(B) >= Cardinality(A)
  BY <1>2, FS_Subset, FS_CardinalityType
<1>4. ASSUME NEW x \in B, x \notin A PROVE Cardinality(B) >= Cardinality(A) + 1
  <2>1. IsFiniteSet(A \cup {x}) /\ Cardinality(A \cup {x}) = Cardinality(A) + 1
    BY <1>2, <1>4, FS_AddElement
  <2>2. A \cup {x} \subseteq B
    OBVIOUS
  <2>3. Cardinality(A \cup {x}) <= Cardinality(B)
    BY <1>2, <2>2, FS_Subset
  <2> QED BY <2>1, <2>3
<1> QED BY <1>3, <1>4

Shown == {n \in 1..last.processed : \E j \in Ids : job[j].sealed /\ job[j].item = Selection[n]}

LEMMA ShownPreserved ==
  ASSUME ImportInv, OwnInv, OwnInv', [Next]_vars, Cardinality(Shown) >= last.queued
  PROVE  Cardinality(Shown)' >= last'.queued
<1>1. /\ last.processed \in Nat /\ last.queued \in Nat
      /\ last'.processed \in Nat /\ last'.queued \in Nat
  BY DEF OwnInv, BatchTypes, Counts
<1>2. SealedStays
  <2>1. processed \in Nat /\ CountsMatch
    BY ReservedIs DEF OwnInv
  <2> QED BY <2>1, SealedPreserved
<1>3. Shown \in SUBSET (1..last.processed) /\ Shown' \in SUBSET (1..last'.processed)
  BY DEF Shown
<1>4. last'.processed >= last.processed => Shown \subseteq Shown'
  BY <1>1, <1>2 DEF Shown, SealedStays
<1>5. Cardinality(Shown) \in Nat /\ Cardinality(Shown') \in Nat
  BY <1>1, <1>3, CardGrows
<1>6. last'.processed >= last.processed =>
        /\ Cardinality(Shown') >= Cardinality(Shown)
        /\ \A x \in Shown' : x \notin Shown => Cardinality(Shown') >= Cardinality(Shown) + 1
  <2> HIDE DEF Shown
  <2> QED BY <1>1, <1>3, <1>4, CardGrows
<1>7. CASE last'.processed = 0 /\ last'.queued = 0
  BY <1>5, <1>7
<1>8. CASE last'.processed \in {last.processed, last.processed + 1} /\ last'.queued = last.queued
  BY <1>1, <1>5, <1>6, <1>8
<1>9. CASE /\ last'.processed = last.processed + 1 /\ last'.queued = last.queued + 1
           /\ UNCHANGED job
           /\ \E j \in Ids : job[j].sealed /\ job[j].item = Selection[last.processed + 1]
  <2>1. last.processed + 1 \in Shown' /\ last.processed + 1 \notin Shown
    BY <1>1, <1>9 DEF Shown
  <2> QED BY <1>1, <1>5, <1>6, <1>9, <2>1
<1> QED BY <1>7, <1>8, <1>9, LastKinds

-----------------------------------------------------------------------------
(* The theorems.                                                           *)

LEMMA Initially == Init => BatchInv
<1> SUFFICES ASSUME Init PROVE BatchInv
  OBVIOUS
<1>1. /\ job = [j \in Ids |-> NoJob] /\ issued = 0 /\ port = <<>>
      /\ work = [p \in Importers |-> Idle]
      /\ reported = {} /\ dropped = {} /\ late = {} /\ stranded = {} /\ restarts = 0
  BY DEF Init, ImportInit
<1>2. /\ Idle \in Works /\ Idle.step = "idle" /\ NoJob \in Jobs
      /\ NoJob.state = "none" /\ ~NoJob.sealed
      /\ port \in Seq(Messages) /\ DOMAIN port = {} /\ Len(port) = 0
      /\ 0 \in 0..MaxIds /\ 0 \in 0..MaxRestarts /\ 0 <= PortLimit /\ Batch \in Importers
  BY <1>1, SomeItem, NoJobIs, ImportAssumption, BatchAssumption
     DEF Idle, Works, Steps, ImportAssumption, BatchAssumption
<1>3. ImportTypes
  BY <1>1, <1>2 DEF ImportTypes
<1>4. ImportInv
  <2>1. /\ \A j \in Ids : ~Withdrawing(j) /\ job[j] = NoJob
        /\ \A p \in Importers : work[p].step = "idle" /\ \A j \in Ids : ~Holds(p, j)
    BY <1>1, <1>2 DEF Withdrawing, Holds
  <2>2. Known /\ AwaitedMatches
    BY <1>1, <1>2, <2>1 DEF Known, AwaitedMatches, Holding
  <2>3. OneHolder /\ LateUnlessReturned /\ SealedIsWhole /\ ReturnedIsQueued /\ NothingLeftBehind
    BY <1>1, <1>2, <2>1
       DEF OneHolder, LateUnlessReturned, SealedIsWhole, ReturnedIsQueued, NothingLeftBehind
  <2> QED BY <1>3, <2>2, <2>3 DEF ImportInv
<1>5. /\ signedIn = TRUE /\ current = FALSE /\ stop = "" /\ at = "none"
      /\ processed = 0 /\ queued = 0 /\ failed = 0 /\ last = Snapshot(FALSE)
      /\ files = FALSE /\ seen = {}
  BY DEF Init
<1> DEFINE no == FALSE
<1>6. last \in Counts /\ ~last.active /\ last.processed = 0 /\ last.queued = 0
  <2>1. last = [active |-> no, processed |-> 0, queued |-> 0, failed |-> 0]
    BY <1>5 DEF Snapshot
  <2>2. no \in BOOLEAN /\ ~no OBVIOUS
  <2> HIDE DEF no
  <2> QED BY <2>1, <2>2, CountIs
<1>7. BatchTypeOK
  <2>1. Len(Selection) \in Nat \ {0}
    <3>1. Selection \in Seq(Items) /\ Selection # <<>>
      BY BatchAssumption DEF BatchAssumption
    <3> QED BY <3>1, EmptySeq
  <2>2. {signedIn, current, files} \subseteq BOOLEAN
    BY <1>5
  <2>3. processed \in 0..Len(Selection) /\ queued \in Nat /\ failed \in Nat /\ processed = queued + failed
    BY <1>5, <2>1, NothingCounted, Zenon
  <2> QED BY <1>2, <1>3, <1>5, <1>6, <2>2, <2>3 DEF BatchTypeOK, Ats
<1>8. ShownIsQueued
  <2>1. ProgressIsCurrent
    BY <1>1, <1>2, <1>5, <1>6 DEF ProgressIsCurrent
  <2>2. Shown \in SUBSET (1..0)
    BY <1>6 DEF Shown
  <2>3. Cardinality(Shown) >= 0
    <3> HIDE DEF Shown
    <3>1. 0 \in Nat /\ Cardinality(Shown) \in Nat
      BY <2>2, CardGrows
    <3> QED BY <3>1
  <2> QED BY <1>6, <2>1, <2>3 DEF ShownIsQueued, Shown
<1>9. CountsMatch /\ SeenSince
  BY <1>5 DEF CountsMatch, SeenSince, Going
<1> QED BY <1>4, <1>7, <1>8, <1>9 DEF BatchInv

LEMMA BatchPreserved == BatchInv /\ [Next]_vars => BatchInv'
<1> SUFFICES ASSUME BatchInv, [Next]_vars PROVE BatchInv'
  OBVIOUS
<1>1. ImportInv /\ OwnInv /\ Len(port) <= PortLimit /\ Cardinality(Shown) >= last.queued
  BY Zenon DEF BatchInv, BatchTypeOK, BatchTypes, OwnInv, ShownIsQueued, Shown
<1>2. CountsMatch /\ processed \in Nat
  BY <1>1, ReservedIs DEF OwnInv
<1>3. ImportInv' /\ OwnInv' /\ Len(port') <= PortLimit
  BY <1>1, <1>2, ImportPreserved, OwnPreserved, PortPreserved
<1>4. Cardinality(Shown)' >= last'.queued
  BY <1>1, <1>3, ShownPreserved
<1>5. BatchTypeOK'
  BY <1>3, Zenon DEF BatchTypeOK, BatchTypes, OwnInv, ImportInv
<1>6. ShownIsQueued'
  BY <1>3, <1>4, Zenon DEF ShownIsQueued, Shown, OwnInv
<1> QED BY <1>3, <1>5, <1>6 DEF BatchInv, OwnInv

LEMMA BatchInvHolds == Spec => []BatchInv
BY Initially, BatchPreserved, PTL DEF Spec

(* Every variable of imports and batches keeps its type, no message is queued *)
(* beyond the port's capacity, and counts add up.                             *)
THEOREM BatchIsTyped == Spec => []BatchTypeOK
<1>1. BatchInv => BatchTypeOK
  BY DEF BatchInv
<1> QED BY <1>1, BatchInvHolds, PTL

(* A job that is queued has all bytes that were declared.                     *)
THEOREM QueuedIsWhole == Spec => []SealedIsWhole
<1>1. BatchInv => SealedIsWhole
  BY DEF BatchInv, ImportInv
<1> QED BY <1>1, BatchInvHolds, PTL

(* What an importer returned was queued, and is not withdrawn by it but when  *)
(* the answer to the seal came too late.                                      *)
THEOREM ReturnedStaysQueued == Spec => []ReturnedIsKept
<1>1. BatchInv => ReturnedIsKept
  BY DEF BatchInv, ImportInv, LateUnlessReturned, ReturnedIsKept
<1> QED BY <1>1, BatchInvHolds, PTL

(* An import that fails leaves no job that nobody accounts for.               *)
THEOREM FailureLeavesNothing == Spec => []NothingLeftBehind
<1>1. BatchInv => NothingLeftBehind
  BY DEF BatchInv, ImportInv
<1> QED BY <1>1, BatchInvHolds, PTL

(* As many originals are queued as the progress of a batch shows.             *)
THEOREM ProgressIsTrue == Spec => []ShownIsQueued
<1>1. BatchInv => ShownIsQueued
  BY DEF BatchInv
<1> QED BY <1>1, BatchInvHolds, PTL

LEMMA ImportIsSeen ==
  ASSUME BatchInv, [Next]_vars
  PROVE  work[Batch].step = "idle" /\ work'[Batch].step # "idle" => seen = Needs
<1> SUFFICES ASSUME work[Batch].step = "idle", work'[Batch].step # "idle" PROVE seen = Needs
  OBVIOUS
<1>1. ImportInv /\ SeenSince /\ Batch \in Importers
  BY BatchAssumption DEF BatchInv, BatchAssumption
<1>2. ~Steady
  BY DEF Steady
<1>3. ~UNCHANGED work
  OBVIOUS
<1>4. CASE Import
  BY <1>1, <1>4 DEF Import, SeenSince
<1>5. CASE Imported
  <2>1. work' = [work EXCEPT ![Batch] = Idle]
    BY <1>5 DEF Imported, Return, Goto
  <2> QED BY <1>1, <2>1 DEF Idle, ImportInv, ImportTypes
<1>6. CASE BatchDies
  BY <1>1, <1>6 DEF BatchDies, HostDies, Idle
<1>7. ~EngineStep /\ ~OtherStep /\ ~\E p \in Importers : ImporterStep(p)
  BY <1>1, <1>2, EngineSteady, OtherSteady, ImporterSteady DEF ImportInv
<1>8. CASE Start \/ Stop \/ OwnerChanges
  BY <1>3, <1>8 DEF Start, Stop, OwnerChanges, importVars
<1>9. CASE CheckAtStart \/ CheckBefore \/ CheckAfter \/ Export \/ ExportFailed \/ End
  BY <1>3, <1>9 DEF CheckAtStart, CheckBefore, CheckAfter, Check, Export, ExportFailed, End, importVars
<1>10. CASE UNCHANGED vars
  BY <1>3, <1>10 DEF vars, importVars
<1> QED BY <1>4, <1>5, <1>6, <1>7, <1>8, <1>9, <1>10 DEF Next, BatchStep

(* No original goes to the engine unless, since its export, the batch was     *)
(* still going on and its account signed in.                                  *)
THEOREM OwnerIsHeeded == Spec => ImportHeedsOwner
<1>1. BatchInv /\ [Next]_vars =>
        [work[Batch].step = "idle" /\ work'[Batch].step # "idle" => seen = Needs]_vars
  BY ImportIsSeen
<1> QED BY <1>1, BatchInvHolds, PTL DEF Spec, ImportHeedsOwner

-----------------------------------------------------------------------------
(* Importing looks atomic.  First the life of a job.                       *)

(* What a step makes of a job.                                              *)
Becomes(a, b) ==
    \/ b = a
    \/ a.state = "none" /\ b.state = "importing" /\ ~b.sealed /\ ~b.cancelRequested
    \/ /\ b.item = a.item
       /\ \/ /\ a.state = "importing" /\ b.state = "importing"
             /\ b.sealed = a.sealed /\ b.cancelRequested = a.cancelRequested
          \/ a.state = "importing" /\ b.state = "queued" /\ b.sealed
          \/ a.state \in Live /\ b.state = "cancelled" /\ b.sealed = a.sealed
          \/ a.state = "queued" /\ b.state = "queued" /\ b.sealed = a.sealed
          \/ a.state = "queued" /\ b.state = "completed" /\ b.sealed = a.sealed

LEMMA LifeOfAll ==
  ASSUME LifeInv, \A j \in Ids : Becomes(job[j], job'[j]), late \in SUBSET Ids,
         \A j \in late' \ late : job'[j].state \notin {"none", "importing"}
  PROVE  LifeInv'
<1>1. ASSUME NEW j \in Ids
      PROVE  /\ job'[j].state \in {"none", "importing"} => ~job'[j].sealed
             /\ job'[j].state = "importing" => ~job'[j].cancelRequested
             /\ job'[j].state \in {"queued", "completed"} => job'[j].sealed
  BY <1>1 DEF LifeInv, Becomes, Live
<1>2. ASSUME NEW j \in late PROVE job'[j].state \notin {"none", "importing"}
  BY <1>2 DEF LifeInv, Becomes, Live
<1> QED BY <1>1, <1>2 DEF LifeInv

LEMMA LifeOfOne ==
  ASSUME LifeInv, ImportTypes, NEW k \in Ids, NEW r \in Jobs, job' = [job EXCEPT ![k] = r],
         Becomes(job[k], r),
         late' = late \/ (late' = late \cup {k} /\ r.state \notin {"none", "importing"})
  PROVE  LifeInv'
<1>1. job'[k] = r /\ \A j \in Ids \ {k} : job'[j] = job[j]
  BY SetJob DEF ImportTypes
<1>2. \A j \in Ids : Becomes(job[j], job'[j])
  BY <1>1 DEF Becomes
<1> QED BY <1>1, <1>2, LifeOfAll DEF ImportTypes

(* What the cancellation of a job makes of it.                              *)
LEMMA CancelBecomes ==
  ASSUME ImportTypes, NEW j \in Ids, Cancellable(j), Cancel(j)
  PROVE  \E r \in Jobs :
           /\ job' = [job EXCEPT ![j] = r] /\ Becomes(job[j], r)
           /\ r.item = job[j].item /\ r.sealed = job[j].sealed
           /\ r.state = "cancelled" \/ (r.state = "queued" /\ r.cancelRequested)
<1>1. job \in [Ids -> Jobs] /\ job[j] \in Jobs
  BY DEF ImportTypes
<1>2. CASE job' = [job EXCEPT ![j] = Cancelled(@)]
  <2> DEFINE r == Ended(job[j], "cancelled")
  <2>1. job' = [job EXCEPT ![j] = r]
    BY <1>1, <1>2 DEF Cancelled
  <2>2. r \in Jobs /\ r.state = "cancelled" /\ r.item = job[j].item /\ r.sealed = job[j].sealed
    BY <1>1, EndedIs
  <2> HIDE DEF r
  <2>3. Becomes(job[j], r)
    BY <2>2 DEF Becomes, Cancellable, Live
  <2> QED BY <2>1, <2>2, <2>3
<1>3. CASE job[j].state # "importing" /\ job' = [job EXCEPT ![j].cancelRequested = TRUE]
  <2> DEFINE r == [job[j] EXCEPT !.cancelRequested = TRUE]
  <2>1. job' = [job EXCEPT ![j] = r]
    BY <1>1, <1>3
  <2>2. r \in Jobs /\ r.cancelRequested /\ r.state = job[j].state /\ r.item = job[j].item
        /\ r.sealed = job[j].sealed
    BY <1>1, RequestedIs
  <2> HIDE DEF r
  <2>3. job[j].state = "queued"
    BY <1>3 DEF Cancellable
  <2>4. Becomes(job[j], r)
    BY <2>2, <2>3 DEF Becomes
  <2> QED BY <2>1, <2>2, <2>3, <2>4
<1> QED BY <1>2, <1>3 DEF Cancel

LEMMA UploadBecomes ==
  ASSUME ImportTypes, NEW j \in Ids, Uploaded(j)
  PROVE  \E r \in Jobs :
           /\ job' = [job EXCEPT ![j] = r] /\ Becomes(job[j], r) /\ job[j].state = "queued"
           /\ r.item = job[j].item /\ r.sealed = job[j].sealed
           /\ r.state = "completed" \/ (r.state = "cancelled" /\ job[j].cancelRequested)
<1>1. job \in [Ids -> Jobs] /\ job[j] \in Jobs
  BY DEF ImportTypes
<1>2. PICK state \in {"completed", "cancelled"} :
        /\ job' = [job EXCEPT ![j] = Ended(job[j], state)]
        /\ state = "cancelled" => job[j].cancelRequested
  BY <1>1 DEF Uploaded, Cancelled
<1> DEFINE r == Ended(job[j], state)
<1>3. r \in Jobs /\ r.state = state /\ r.item = job[j].item /\ r.sealed = job[j].sealed
  BY <1>1, EndedIs
<1>4. job' = [job EXCEPT ![j] = r] /\ job[j].state = "queued"
  BY <1>2 DEF Uploaded
<1> HIDE DEF r
<1>5. Becomes(job[j], r)
  BY <1>3, <1>4 DEF Becomes, Live
<1> QED BY <1>2, <1>3, <1>4, <1>5

(* The messages but seal and cancel: they leave what is sealed alone.       *)
LEMMA BeginBecomes ==
  ASSUME ImportInv, port # <<>>, BeginJob
  PROVE  /\ UNCHANGED <<late, dropped>>
         /\ \/ UNCHANGED job
            \/ \E j \in Ids, r \in Jobs :
                  /\ job' = [job EXCEPT ![j] = r] /\ Becomes(job[j], r)
                  /\ ~job[j].sealed /\ ~r.sealed
<1>1. CASE issued < MaxIds /\ job' = [job EXCEPT ![issued + 1] = NewJob(m.item)]
  <2> DEFINE j == issued + 1
             r == NewJob(m.item)
  <2>1. j \in Ids /\ job[j].state = "none" /\ ~job[j].sealed
    BY <1>1, NewIdIs
  <2>2. m.item \in Items
    <3>1. port' = Tail(port) /\ port \in Seq(Messages)
      BY DEF BeginJob, Answer, Refuse, ImportInv, ImportTypes
    <3> QED BY <3>1, PortTaken DEF Messages
  <2>3. r \in Jobs /\ r.state = "importing" /\ ~r.sealed /\ ~r.cancelRequested
    BY <2>2, NewJobIs
  <2>4. job' = [job EXCEPT ![j] = r]
    BY <1>1
  <2> HIDE DEF j, r
  <2>5. Becomes(job[j], r)
    BY <2>1, <2>3 DEF Becomes
  <2> QED BY <2>1, <2>3, <2>4, <2>5 DEF BeginJob
<1> QED BY <1>1, Zenon DEF BeginJob

LEMMA AppendBecomes ==
  ASSUME ImportInv, LifeInv, port # <<>>, AppendChunk
  PROVE  /\ UNCHANGED <<late, dropped>>
         /\ \/ UNCHANGED job
            \/ \E j \in Ids, r \in Jobs :
                  /\ job' = [job EXCEPT ![j] = r] /\ Becomes(job[j], r)
                  /\ ~job[j].sealed /\ ~r.sealed
<1>0. UNCHANGED <<late, dropped>>
  BY DEF AppendChunk, history
<1>1. ASSUME Fits, NEW n \in Nat, job' = [job EXCEPT ![m.id].size[m.file] = @ + n]
      PROVE  \E j \in Ids, r \in Jobs :
                  /\ job' = [job EXCEPT ![j] = r] /\ Becomes(job[j], r)
                  /\ ~job[j].sealed /\ ~r.sealed
  <2>1. m.id \in Ids /\ job \in [Ids -> Jobs] /\ job[m.id] \in Jobs
    <3>1. port' = Tail(port) /\ m.op = "append" /\ port \in Seq(Messages)
      BY DEF AppendChunk, Answer, Refuse, ImportInv, ImportTypes
    <3>2. m.id \in 1..issued
      BY <3>1, PortTaken DEF ImportInv, Known
    <3> QED BY <3>1, <3>2, ImportAssumption DEF ImportInv, ImportTypes, ImportAssumption, Ids
  <2> DEFINE size == [job[m.id].size EXCEPT ![m.file] = @ + n]
             r == [job[m.id] EXCEPT !.size = size]
  <2>2. size \in Seq(Nat)
    BY <2>1, WrittenIs DEF Jobs
  <2>3. job' = [job EXCEPT ![m.id] = r]
    BY <1>1, <2>1
  <2> HIDE DEF size
  <2>4. /\ r \in Jobs /\ r.state = job[m.id].state /\ r.item = job[m.id].item
        /\ r.sealed = job[m.id].sealed /\ r.cancelRequested = job[m.id].cancelRequested
    BY <2>1, <2>2, GrownIs
  <2> HIDE DEF r
  <2>5. job[m.id].state = "importing" /\ ~job[m.id].sealed
    BY <1>1, <2>1 DEF Fits, LifeInv
  <2>6. Becomes(job[m.id], r)
    BY <2>4, <2>5 DEF Becomes
  <2> QED BY <2>1, <2>3, <2>4, <2>5, <2>6
<1>2. Chunk \in Nat /\ 0..Chunk - 1 \subseteq Nat
  BY DEF Chunk
<1>3. \/ UNCHANGED job
      \/ Fits /\ \E n \in Nat : job' = [job EXCEPT ![m.id].size[m.file] = @ + n]
  BY <1>2 DEF AppendChunk
<1> QED BY <1>0, <1>1, <1>3

-----------------------------------------------------------------------------
(* The abstract calls and jobs.                                            *)

LEMMA RecordsOf ==
  /\ \A phase, item, id : /\ Atomic!Call(phase, item, id).phase = phase
                          /\ Atomic!Call(phase, item, id).item = item
                          /\ Atomic!Call(phase, item, id).id = id
  /\ \A state, item : /\ Atomic!Entry(state, item).state = state
                      /\ Atomic!Entry(state, item).item = item
BY DEF Atomic!Call, Atomic!Entry

LEMMA CallIs ==
  ASSUME NEW w \in Works
  PROVE  /\ CallOf(w) \in Atomic!Calls
         /\ w.step = "idle" => CallOf(w) = Atomic!NoCall
         /\ w.step = "done" => CallOf(w) = Atomic!Call("returned", w.item, w.id)
         /\ w.step \notin {"idle", "done"} => CallOf(w) = Atomic!Call("asked", w.item, 0)
<1>1. w.item \in Items /\ w.id \in {0} \cup Ids /\ NoJob.item \in Items
  BY SomeItem DEF Works
<1>2. CASE w.step = "idle"
  BY <1>1, <1>2 DEF CallOf, Atomic!Calls, Atomic!NoCall, Atomic!Call
<1>3. CASE w.step = "done"
  BY <1>1, <1>3 DEF CallOf, Atomic!Calls, Atomic!Call
<1>4. CASE w.step \notin {"idle", "done"}
  BY <1>1, <1>4 DEF CallOf, Atomic!Calls, Atomic!Call
<1> QED BY <1>2, <1>3, <1>4

LEMMA EntryIs ==
  ASSUME NEW r \in Jobs
  PROVE  /\ ~r.sealed => EntryOf(r) = Atomic!NoEntry
         /\ r.sealed => /\ EntryOf(r) = Atomic!Entry(EntryOf(r).state, r.item)
                        /\ EntryOf(r).item = r.item
                        /\ EntryOf(r).state = IF r.state = "queued" /\ r.cancelRequested
                                              THEN "stopping" ELSE r.state
BY DEF EntryOf, Atomic!NoEntry, Atomic!Entry, Jobs

(* An importer from its call to the return.                                 *)
Asked == {"reading", "failed"} \cup Waiting

(* An importer goes on, or ends without a job; a new one begins.            *)
Continues(a, b) ==
    /\ a.step \in Asked /\ b.item = a.item
    /\ b.step \in Asked \/ (b.step = "done" /\ b.id = 0)

Starts(a, b) ==
    /\ a.step = "idle" /\ b.item \in Items
    /\ b.step \in Asked \/ (b.step = "done" /\ b.id = 0)

LEMMA CallMoves ==
  ASSUME work \in [Importers -> Works], work' \in [Importers -> Works], NEW p \in Importers
  PROVE  /\ work'[p] = work[p] => Atomic!Stays(p)
         /\ Continues(work[p], work'[p]) => Atomic!Stays(p) \/ Atomic!Fails(p)
         /\ Starts(work[p], work'[p]) => Atomic!Asks(p)
         /\ work'[p].step = "idle" => Atomic!Ends(p)
<1>1. work[p] \in Works /\ work'[p] \in Works
  OBVIOUS
<1>2. ASSUME NEW w \in Works, w.step \in Asked
      PROVE  CallOf(w) = Atomic!Call("asked", w.item, 0)
  <2>1. w.step \notin {"idle", "done"}
    BY <1>2 DEF Asked, Waiting
  <2> QED BY <2>1, CallIs
<1>3. ASSUME NEW w \in Works, w.step = "done", w.id = 0
      PROVE  CallOf(w) = Atomic!Call("returned", w.item, 0)
  BY <1>3, CallIs
<1>4. work'[p] = work[p] => Atomic!Stays(p)
  BY DEF Atomic!Stays
<1>5. ASSUME Continues(work[p], work'[p]) PROVE Atomic!Stays(p) \/ Atomic!Fails(p)
  <2>1. CallOf(work[p]) = Atomic!Call("asked", work[p].item, 0)
    BY <1>1, <1>2, <1>5 DEF Continues
  <2>2. \/ CallOf(work'[p]) = Atomic!Call("asked", work[p].item, 0)
        \/ CallOf(work'[p]) = Atomic!Call("returned", work[p].item, 0)
    <3>1. work'[p].step \in Asked => CallOf(work'[p]) = Atomic!Call("asked", work'[p].item, 0)
      BY <1>1, <1>2
    <3>2. work'[p].step = "done" /\ work'[p].id = 0 =>
            CallOf(work'[p]) = Atomic!Call("returned", work'[p].item, 0)
      BY <1>1, <1>3
    <3> QED BY <1>5, <3>1, <3>2 DEF Continues
  <2>3. CallOf(work[p]).phase = "asked" /\ CallOf(work[p]).item = work[p].item
    BY <2>1, RecordsOf
  <2> QED BY <2>1, <2>2, <2>3 DEF Atomic!Stays, Atomic!Fails, Atomic!Returns
<1>6. ASSUME Starts(work[p], work'[p]) PROVE Atomic!Asks(p)
  <2>1. CallOf(work[p]) = Atomic!NoCall
    BY <1>1, <1>6, CallIs DEF Starts
  <2>2. \E phase \in {"asked", "returned"} :
          CallOf(work'[p]) = Atomic!Call(phase, work'[p].item, 0)
    <3>1. work'[p].step \in Asked => CallOf(work'[p]) = Atomic!Call("asked", work'[p].item, 0)
      BY <1>1, <1>2
    <3>2. work'[p].step = "done" /\ work'[p].id = 0 =>
            CallOf(work'[p]) = Atomic!Call("returned", work'[p].item, 0)
      BY <1>1, <1>3
    <3> QED BY <1>6, <3>1, <3>2 DEF Starts
  <2> QED BY <1>6, <2>1, <2>2 DEF Atomic!Asks, Starts
<1>7. work'[p].step = "idle" => Atomic!Ends(p)
  BY <1>1, CallIs DEF Atomic!Ends
<1> QED BY <1>4, <1>5, <1>6, <1>7

(* The abstract jobs stay, and so do the records about them.                *)
Quiet ==
    /\ \A j \in Ids : EntryOf(job'[j]) = EntryOf(job[j])
    /\ \A j \in Ids : j \in late' /\ job'[j].sealed <=> j \in late /\ job[j].sealed
    /\ UNCHANGED dropped

LEMMA QuietIs ==
  ASSUME ImportTypes, ImportTypes', Quiet
  PROVE  /\ [j \in Ids |-> EntryOf(job'[j])] = [j \in Ids |-> EntryOf(job[j])]
         /\ {j \in late' : job'[j].sealed} = {j \in late : job[j].sealed}
<1>1. late \subseteq Ids /\ late' \subseteq Ids
  BY DEF ImportTypes
<1>2. {j \in late' : job'[j].sealed} = {j \in late : job[j].sealed}
  BY <1>1 DEF Quiet
<1> QED BY <1>2 DEF Quiet

LEMMA CallsMoveIs ==
  ASSUME ImportTypes, ImportTypes', Quiet,
         \A p \in Importers : \/ Atomic!Stays(p) \/ Atomic!Asks(p) \/ Atomic!Fails(p)
                              \/ Atomic!Finds(p) \/ Atomic!Ends(p)
  PROVE  Atomic!CallsMove
<1>1. \A p \in Importers : CallOf(work'[p]) \in Atomic!Calls
  BY CallIs DEF ImportTypes
<1>2. [p \in Importers |-> CallOf(work'[p])] \in [Importers -> Atomic!Calls]
  BY <1>1
<1>3. UNCHANGED dropped
  BY DEF Quiet
<1> QED BY <1>2, <1>3, QuietIs DEF Atomic!CallsMove

(* What leaves the jobs alone, or what is sealed of them.                   *)
LEMMA QuietJobs ==
  ASSUME ImportTypes, UNCHANGED <<late, dropped>>,
         \/ UNCHANGED job
         \/ \E j \in Ids, r \in Jobs : job' = [job EXCEPT ![j] = r] /\ ~job[j].sealed /\ ~r.sealed
  PROVE  Quiet
<1>1. CASE UNCHANGED job
  BY <1>1 DEF Quiet
<1>2. ASSUME NEW j \in Ids, NEW r \in Jobs, job' = [job EXCEPT ![j] = r], ~job[j].sealed, ~r.sealed
      PROVE  Quiet
  <2>1. job'[j] = r /\ \A k \in Ids \ {j} : job'[k] = job[k]
    BY <1>2, SetJob DEF ImportTypes
  <2>2. EntryOf(r) = EntryOf(job[j])
    BY <1>2, EntryIs DEF ImportTypes
  <2> QED BY <1>2, <2>1, <2>2 DEF Quiet
<1> QED BY <1>1, <1>2

(* One abstract job moves.                                                  *)
LEMMA OneEntry ==
  ASSUME job \in [Ids -> Jobs], NEW j \in Ids, NEW r \in Jobs, job' = [job EXCEPT ![j] = r]
  PROVE  [k \in Ids |-> EntryOf(job'[k])] =
           [[k \in Ids |-> EntryOf(job[k])] EXCEPT ![j] = EntryOf(r)]
<1>1. job'[j] = r /\ \A k \in Ids \ {j} : job'[k] = job[k]
  BY SetJob
<1> QED BY <1>1

LEMMA MovedIs ==
  ASSUME ImportTypes, NEW j \in Ids, NEW r \in Jobs, job' = [job EXCEPT ![j] = r],
         job[j].sealed, r.sealed, r.item = job[j].item, job[j].state = "queued"
  PROVE  /\ r.state = "cancelled" \/ (r.state = "queued" /\ r.cancelRequested) => Atomic!Stops(j)
         /\ r.state = "completed" \/ (r.state = "cancelled" /\ job[j].cancelRequested)
              => Atomic!Uploads(j)
<1> DEFINE a == EntryOf(job[j])
           b == EntryOf(r)
<1>1. job \in [Ids -> Jobs] /\ job[j] \in Jobs
  BY DEF ImportTypes
<1>2. /\ a.item = job[j].item /\ a.state \in {"queued", "stopping"}
      /\ job[j].cancelRequested => a.state = "stopping"
  BY <1>1, EntryIs
<1>3. /\ b = Atomic!Entry(b.state, job[j].item)
      /\ b.state = IF r.state = "queued" /\ r.cancelRequested THEN "stopping" ELSE r.state
  BY EntryIs
<1>4. [k \in Ids |-> EntryOf(job'[k])] = [[k \in Ids |-> EntryOf(job[k])] EXCEPT ![j] = b]
  BY <1>1, OneEntry
<1>5. [k \in Ids |-> EntryOf(job[k])][j] = a
  OBVIOUS
<1> HIDE DEF a, b
<1>6. ASSUME NEW from, a.state \in from PROVE Atomic!Move(j, from, b.state)
  <2>1. [k \in Ids |-> EntryOf(job'[k])] =
          [[k \in Ids |-> EntryOf(job[k])] EXCEPT
              ![j] = Atomic!Entry(b.state, [k \in Ids |-> EntryOf(job[k])][j].item)]
    BY <1>2, <1>3, <1>4, <1>5, Zenon
  <2>2. [k \in Ids |-> EntryOf(job[k])][j].state \in from
    BY <1>5, <1>6, Zenon
  <2> QED BY <2>1, <2>2, Zenon DEF Atomic!Move
<1>7. ASSUME r.state = "cancelled" \/ (r.state = "queued" /\ r.cancelRequested)
      PROVE  Atomic!Stops(j)
  <2>1. b.state \in {"stopping", "cancelled"}
    BY <1>3, <1>7
  <2> QED BY <1>2, <1>6, <2>1, Zenon DEF Atomic!Stops
<1>8. CASE r.state = "completed"
  <2>1. b.state = "completed"
    BY <1>3, <1>8
  <2>2. Atomic!Move(j, {"queued", "stopping"}, b.state)
    BY <1>2, <1>6
  <2> QED BY <1>8, <1>7, <2>1, <2>2 DEF Atomic!Uploads
<1>9. CASE r.state = "cancelled" /\ job[j].cancelRequested
  <2>1. b.state = "cancelled"
    BY <1>3, <1>9
  <2>2. Atomic!Move(j, {"stopping"}, b.state)
    BY <1>2, <1>6, <1>9
  <2> QED BY <1>7, <2>1, <2>2 DEF Atomic!Uploads
<1> QED BY <1>7, <1>8, <1>9

(* The importers by themselves.                                             *)
LEMMA SendMoves ==
  ASSUME work \in [Importers -> Works], NEW p \in Importers, NEW w \in Works, NEW op \in Waiting,
         Send(p, w, op)
  PROVE  /\ \A q \in Importers \ {p} : work'[q] = work[q]
         /\ work'[p].item = w.item
         /\ work'[p].step \in Asked \/ (work'[p].step = "done" /\ work'[p].id = 0)
<1> DEFINE v == [w EXCEPT !.step = op]
<1>1. v \in Works /\ v.step = op /\ v.item = w.item
  BY DEF Works, Steps
<1>2. work' = [work EXCEPT ![p] = v] \/ work' = [work EXCEPT ![p] = Failed(v)]
  BY DEF Send
<1> HIDE DEF v
<1>3. /\ Failed(v).item = w.item
      /\ Failed(v).step = "failed" \/ (Failed(v).step = "done" /\ Failed(v).id = 0)
  BY <1>1, FailedIs
<1> QED BY <1>1, <1>2, <1>3 DEF Asked

LEMMA AloneMoves ==
  ASSUME ImportTypes, NEW p \in Importers, ImporterAlone(p) \/ Abandon(p)
  PROVE  /\ \A q \in Importers \ {p} : work'[q] = work[q]
         /\ \/ Continues(work[p], work'[p]) \/ Starts(work[p], work'[p])
            \/ work'[p].step = "idle"
         /\ UNCHANGED <<job, late, dropped>>
<1> DEFINE Goal == /\ \A q \in Importers \ {p} : work'[q] = work[q]
                   /\ \/ Continues(work[p], work'[p]) \/ Starts(work[p], work'[p])
                      \/ work'[p].step = "idle"
<1>1. work \in [Importers -> Works] /\ work[p] \in Works
  BY DEF ImportTypes
<1>2. ASSUME NEW w \in Works, NEW op \in Waiting, Send(p, w, op), w.item = work[p].item,
             work[p].step \in Asked
      PROVE  Goal
  BY <1>1, <1>2, SendMoves DEF Continues
<1>3. ASSUME NEW w, work' = [work EXCEPT ![p] = w], w.item = work[p].item,
             work[p].step \in Asked, w.step \in Asked \/ (w.step = "done" /\ w.id = 0)
      PROVE  Goal
  BY <1>1, <1>3 DEF Continues
<1>4. /\ Failed(work[p]).item = work[p].item
      /\ Failed(work[p]).step = "failed" \/ (Failed(work[p]).step = "done" /\ Failed(work[p]).id = 0)
  BY <1>1, FailedIs
<1>5. ASSUME NEW item \in Items, Begin(p, item) PROVE Goal
  <2> DEFINE w == [Idle EXCEPT !.item = item]
  <2>1. w \in Works /\ w.item = item
    BY SomeItem DEF Idle, Works, Steps
  <2>2. work[p].step = "idle" /\ (Send(p, w, "begin") \/ work' = [work EXCEPT ![p] = Done(w, 0)])
    BY <1>5 DEF Begin, Goto
  <2> HIDE DEF w
  <2>3. Done(w, 0).step = "done" /\ Done(w, 0).id = 0 /\ Done(w, 0).item = item
    BY <2>1, DoneIs
  <2>4. CASE Send(p, w, "begin")
    BY <1>1, <2>1, <2>2, <2>4, SendMoves DEF Starts, Waiting
  <2>5. CASE work' = [work EXCEPT ![p] = Done(w, 0)]
    BY <1>1, <2>2, <2>3, <2>5 DEF Starts
  <2> QED BY <2>2, <2>4, <2>5
<1>6. ASSUME ReadChunk(p) PROVE Goal
  BY <1>1, <1>2, <1>6 DEF ReadChunk, Waiting, Asked
<1>7. ASSUME EndOfFile(p) PROVE Goal
  <2> DEFINE next == [work[p] EXCEPT !.file = @ + 1, !.offset = 0]
             first == [work[p] EXCEPT !.file = 1, !.offset = 0]
  <2>1. first \in Works /\ first.item = work[p].item /\ first.step = work[p].step
    BY <1>1 DEF Works
  <2>2. next.item = work[p].item /\ next.step = work[p].step
    BY <1>1 DEF Works
  <2>3. work[p].step = "reading" /\ (work' = [work EXCEPT ![p] = next] \/ Send(p, first, "seal"))
    BY <1>7 DEF EndOfFile, Goto
  <2> HIDE DEF first, next
  <2>4. work[p].step \in Asked /\ "seal" \in Waiting
    BY <2>3 DEF Asked, Waiting
  <2> QED BY <1>2, <1>3, <2>1, <2>2, <2>3, <2>4
<1>8. ASSUME ReadFails(p) PROVE Goal
  BY <1>3, <1>4, <1>8 DEF ReadFails, Goto, Asked
<1>9. ASSUME GiveUp(p) PROVE Goal
  BY <1>1, <1>2, <1>9 DEF GiveUp, Waiting, Asked
<1>10. ASSUME Return(p) PROVE Goal
  <2>1. work' = [work EXCEPT ![p] = Idle] /\ Idle.step = "idle"
    BY <1>10 DEF Return, Goto, Idle
  <2> QED BY <1>1, <2>1
<1>11. ASSUME Abandon(p) PROVE Goal
  <2>1. work' = [work EXCEPT ![p] = Failed(work[p])] /\ work[p].step \in Asked
    BY <1>1, <1>11 DEF Abandon, Asked
  <2> QED BY <1>3, <1>4, <2>1 DEF Asked
<1>12. UNCHANGED others
  BY Zenon DEF ImporterAlone, Abandon, Begin, ReadChunk, EndOfFile, ReadFails, GiveUp, Return
<1>13. Goal
  BY <1>5, <1>6, <1>7, <1>8, <1>9, <1>10, <1>11 DEF ImporterAlone
<1> QED BY <1>12, <1>13 DEF others

LEMMA AloneIsAtomic ==
  ASSUME ImportTypes, ImportTypes', NEW p \in Importers, ImporterAlone(p) \/ Abandon(p)
  PROVE  Atomic!CallsMove
<1>1. /\ \A q \in Importers \ {p} : work'[q] = work[q]
      /\ \/ Continues(work[p], work'[p]) \/ Starts(work[p], work'[p])
         \/ work'[p].step = "idle"
      /\ UNCHANGED <<job, late, dropped>>
  BY AloneMoves
<1>2. Quiet
  BY <1>1, QuietJobs
<1>3. work \in [Importers -> Works] /\ work' \in [Importers -> Works]
  BY DEF ImportTypes
<1>4. ASSUME NEW q \in Importers
      PROVE  \/ Atomic!Stays(q) \/ Atomic!Asks(q) \/ Atomic!Fails(q) \/ Atomic!Finds(q)
             \/ Atomic!Ends(q)
  BY <1>1, <1>3, CallMoves
<1> QED BY <1>2, <1>4, CallsMoveIs

LEMMA HostIsAtomic ==
  ASSUME ImportTypes, ImportTypes', HostDies
  PROVE  Atomic!CallsMove
<1>1. work \in [Importers -> Works] /\ work' \in [Importers -> Works]
  BY DEF ImportTypes
<1>2. \A p \in Importers : work'[p].step = "idle"
  BY DEF HostDies, Idle
<1>3. UNCHANGED <<job, late, dropped>>
  BY DEF HostDies
<1>4. Quiet
  BY <1>3, QuietJobs
<1>5. \A p \in Importers : Atomic!Ends(p)
  BY <1>1, <1>2, CallMoves
<1> QED BY <1>4, <1>5, CallsMoveIs

LEMMA RestartIsAtomic ==
  ASSUME ImportTypes, ImportTypes', LifeInv, DaemonRestarts
  PROVE  /\ Atomic!CallsMove
         /\ \A j \in Ids : Becomes(job[j], job'[j])
<1>1. /\ work \in [Importers -> Works] /\ work' \in [Importers -> Works]
      /\ job \in [Ids -> Jobs] /\ job' \in [Ids -> Jobs]
  BY DEF ImportTypes
<1>2. UNCHANGED <<late, dropped>>
  BY DEF DaemonRestarts
<1>3. ASSUME NEW j \in Ids
      PROVE  /\ job'[j].sealed = job[j].sealed
             /\ EntryOf(job'[j]) = EntryOf(job[j])
             /\ Becomes(job[j], job'[j])
  <2>1. job'[j] = Recovered(job[j])
    BY DEF DaemonRestarts
  <2>2. CASE job[j].state = "importing"
    <3>1. job'[j] = Ended(job[j], "cancelled")
      BY <2>1, <2>2 DEF Recovered, Cancelled
    <3>2. /\ job'[j].sealed = job[j].sealed /\ job'[j].item = job[j].item
          /\ job'[j].state = "cancelled"
      BY <1>1, <3>1, EndedIs
    <3>3. ~job[j].sealed /\ ~job'[j].sealed
      BY <2>2, <3>2 DEF LifeInv
    <3>4. EntryOf(job'[j]) = EntryOf(job[j])
      BY <1>1, <3>3, EntryIs
    <3> QED BY <2>2, <3>2, <3>4 DEF Becomes, Live
  <2>3. CASE job[j].state # "importing"
    BY <2>1, <2>3 DEF Recovered, Becomes
  <2> QED BY <2>2, <2>3
<1>4. Quiet
  BY <1>2, <1>3 DEF Quiet
<1>5. ASSUME NEW p \in Importers PROVE Atomic!Stays(p) \/ Atomic!Fails(p)
  <2>1. CASE work[p].step \in Waiting
    <3>1. work'[p] = Failed(work[p])
      BY <2>1 DEF DaemonRestarts
    <3>2. /\ Failed(work[p]).item = work[p].item
          /\ Failed(work[p]).step = "failed" \/ (Failed(work[p]).step = "done" /\ Failed(work[p]).id = 0)
      BY <1>1, FailedIs
    <3>3. Continues(work[p], work'[p])
      BY <2>1, <3>1, <3>2 DEF Continues, Asked
    <3> QED BY <1>1, <3>3, CallMoves
  <2>2. CASE work[p].step \notin Waiting
    <3>1. work'[p] = work[p]
      BY <2>2 DEF DaemonRestarts
    <3> QED BY <1>1, <3>1, CallMoves
  <2> QED BY <2>1, <2>2
<1> QED BY <1>3, <1>4, <1>5, CallsMoveIs

(* The messages.                                                            *)
LEMMA ReplyMoves ==
  ASSUME ImportInv, port # <<>>, NEW id \in {0} \cup Ids, Refuse \/ (Answer(id) /\ m.op # "seal")
  PROVE  \A q \in Importers : Atomic!Stays(q) \/ Atomic!Fails(q)
<1>1. /\ m.from # Nobody =>
             /\ m.from \in Importers
             /\ work[m.from].step = m.op /\ work[m.from].item = m.item
             /\ work'[m.from].item = m.item
             /\ m.op = "append" => work'[m.from].step \in {"reading", "failed"}
             /\ m.op = "cancel" => work'[m.from].step = "done" /\ work'[m.from].id = 0
             /\ m.op = "begin" => \/ work'[m.from].step = "done" /\ work'[m.from].id = 0
                                  \/ work'[m.from].step = "reading"
      /\ m.op \in Waiting
      /\ \A q \in Importers : q # m.from => work'[q] = work[q]
  <2>1. m \in Messages
    BY ReplyIs
  <2>2. m.op \in Waiting
    BY <2>1 DEF Messages
  <2> QED BY <2>2, ReplyIs
<1>2. work \in [Importers -> Works] /\ work' \in [Importers -> Works]
  BY ReplyIs DEF ImportInv, ImportTypes
<1>3. ASSUME m.from # Nobody, m.op = "seal" PROVE work'[m.from].step = "failed"
  <2>1. work' = [work EXCEPT ![m.from] = Failed(work[m.from])]
    BY <1>3 DEF Refuse
  <2>2. Failed(work[m.from]).step = "failed"
    BY <1>1, <1>2, <1>3, FailedIs
  <2> QED BY <1>1, <1>2, <1>3, <2>1, <2>2
<1>4. m.from # Nobody => Continues(work[m.from], work'[m.from])
  BY <1>1, <1>3 DEF Continues, Asked, Waiting
<1>5. ASSUME NEW q \in Importers PROVE Atomic!Stays(q) \/ Atomic!Fails(q)
  <2>1. q # Nobody
    BY ImportAssumption DEF ImportAssumption
  <2>2. work'[q] = work[q] \/ Continues(work[q], work'[q])
    BY <1>1, <1>4, <2>1
  <2> QED BY <1>2, <2>2, CallMoves
<1> QED BY <1>5

(* Jobs that calls may return.                                              *)
LEMMA LiveIs ==
  ASSUME ImportTypes, LifeInv, NEW item
  PROVE  Atomic!Live(item) =
           {j \in Ids : job[j].sealed /\ job[j].state # "cancelled" /\ job[j].item = item}
<1> DEFINE e == [j \in Ids |-> EntryOf(job[j])]
<1>1. ASSUME NEW j \in Ids
      PROVE  e[j].state \notin {"none", "cancelled"} /\ e[j].item = item <=>
             job[j].sealed /\ job[j].state # "cancelled" /\ job[j].item = item
  <2>1. e[j] = EntryOf(job[j])
    OBVIOUS
  <2>2. job[j] \in Jobs /\ (job[j].sealed => job[j].state # "none")
    BY DEF ImportTypes, LifeInv
  <2>3. ~job[j].sealed => EntryOf(job[j]).state = "none"
    BY <2>2, EntryIs DEF Atomic!NoEntry, Atomic!Entry
  <2>4. job[j].sealed => /\ EntryOf(job[j]).item = job[j].item
                         /\ EntryOf(job[j]).state =
                              IF job[j].state = "queued" /\ job[j].cancelRequested
                              THEN "stopping" ELSE job[j].state
    BY <2>2, EntryIs
  <2> HIDE DEF e
  <2> QED BY <2>1, <2>2, <2>3, <2>4
<1>2. Atomic!Live(item) = {j \in Ids : e[j].state \notin {"none", "cancelled"} /\ e[j].item = item}
  BY Zenon DEF Atomic!Live
<1> HIDE DEF e
<1> QED BY <1>1, <1>2

LEMMA SameIsLive ==
  ASSUME ImportTypes, LifeInv, NEW j \in Ids, ~job[j].sealed
  PROVE  /\ Same(j) = Atomic!Live(job[j].item)
         /\ Same(j) # {} => Answered(j) \in Same(j)
<1>1. Same(j) = {k \in Ids : job[k].sealed /\ job[k].state # "cancelled" /\ job[k].item = job[j].item}
  <2>1. \A k \in Ids : job[k].sealed => job[k].state # "none" /\ k # j
    BY DEF LifeInv
  <2> QED BY <2>1 DEF Same, Listed
<1>2. ASSUME Same(j) # {} PROVE Answered(j) \in Same(j)
  <2>1. Answered(j) \in Ids /\ Answered(j) # j /\ job[Answered(j)].sealed
        /\ job[Answered(j)].item = job[j].item
    BY <1>2, AnsweredIs
  <2>2. Same(j) \in SUBSET Nat
    BY ImportAssumption DEF Same, Listed, Ids, ImportAssumption
  <2>3. \E k \in Same(j) : \A i \in Same(j) : k <= i
    BY <1>2, <2>2, LeastOf
  <2>4. Answered(j) = CHOOSE k \in Same(j) : \A i \in Same(j) : k <= i
    BY <1>2 DEF Answered
  <2> HIDE DEF Same
  <2> QED BY <2>3, <2>4, Zenon
<1> QED BY <1>1, <1>2, LiveIs

LEMMA BeginIsAtomic ==
  ASSUME ImportInv, ImportTypes', LifeInv, port # <<>>, BeginJob \/ AppendChunk
  PROVE  Atomic!CallsMove /\ LifeInv'
<1>1. /\ UNCHANGED <<late, dropped>>
      /\ \/ UNCHANGED job
         \/ \E j \in Ids, r \in Jobs :
               /\ job' = [job EXCEPT ![j] = r] /\ Becomes(job[j], r)
               /\ ~job[j].sealed /\ ~r.sealed
  BY BeginBecomes, AppendBecomes
<1>2. \E id \in {0} \cup Ids : Refuse \/ (Answer(id) /\ m.op # "seal")
  <2>1. issued < MaxIds => issued + 1 \in Ids
    BY NewIdIs
  <2> QED BY <2>1 DEF BeginJob, AppendChunk
<1>3. \A q \in Importers : Atomic!Stays(q) \/ Atomic!Fails(q)
  BY <1>2, ReplyMoves
<1>4. ImportTypes
  BY DEF ImportInv
<1>5. Quiet
  BY <1>1, <1>4, QuietJobs
<1>6. LifeInv'
  <2>1. CASE UNCHANGED job
    BY <1>1, <2>1, Zenon DEF LifeInv
  <2> QED BY <1>1, <1>4, <2>1, LifeOfOne
<1> QED BY <1>3, <1>4, <1>5, <1>6, CallsMoveIs

(* The job of a message that names one.                                     *)
LEMMA NamedIs ==
  ASSUME ImportInv, port # <<>>, SealJob \/ CancelJob
  PROVE  /\ m.id \in Ids /\ job[m.id] \in Jobs /\ job \in [Ids -> Jobs]
         /\ m \in Messages /\ 0 \in {0} \cup Ids
<1>1. port' = Tail(port) /\ m.op # "begin" /\ port \in Seq(Messages)
  BY DEF SealJob, CancelJob, Answer, Refuse, ImportInv, ImportTypes
<1>2. m.id \in 1..issued /\ m \in Messages
  BY <1>1, PortTaken DEF ImportInv, Known
<1> QED BY <1>2, ImportAssumption DEF ImportInv, ImportTypes, ImportAssumption, Ids

LEMMA CancelIsAtomic ==
  ASSUME ImportInv, ImportTypes', LifeInv, port # <<>>, CancelJob
  PROVE  Atomic!AtomicNext /\ LifeInv'
<1>1. /\ m.id \in Ids /\ job[m.id] \in Jobs /\ job \in [Ids -> Jobs]
      /\ 0 \in {0} \cup Ids /\ ImportTypes
  BY NamedIs DEF ImportInv
<1>2. (Answer(0) \/ Refuse) /\ m.op = "cancel" /\ late' = late
  BY DEF CancelJob
<1>3. \A q \in Importers : Atomic!Stays(q) \/ Atomic!Fails(q)
  BY <1>1, <1>2, ReplyMoves
<1>4. CASE Cancellable(m.id) /\ Cancel(m.id)
           /\ dropped' = IF job[m.id].sealed THEN dropped \cup {m.id} ELSE dropped
  <2>1. PICK r \in Jobs :
           /\ job' = [job EXCEPT ![m.id] = r] /\ Becomes(job[m.id], r)
           /\ r.item = job[m.id].item /\ r.sealed = job[m.id].sealed
           /\ r.state = "cancelled" \/ (r.state = "queued" /\ r.cancelRequested)
    BY <1>1, <1>4, CancelBecomes
  <2>2. LifeInv'
    BY <1>1, <1>2, <2>1, LifeOfOne
  <2>3. CASE ~job[m.id].sealed
    <3>1. Quiet
      BY <1>1, <1>2, <1>4, <2>1, <2>3, QuietJobs
    <3>2. Atomic!CallsMove
      BY <1>1, <1>3, <3>1, CallsMoveIs
    <3> QED BY <2>2, <3>2 DEF Atomic!AtomicNext
  <2>4. CASE job[m.id].sealed
    <3>1. job[m.id].state = "queued"
      BY <1>1, <1>4, <2>4 DEF Cancellable, LifeInv
    <3>2. Atomic!Stops(m.id)
      BY <1>1, <2>1, <2>4, <3>1, MovedIs
    <3>3. m.id \in late
      <4>1. Withdrawing(m.id)
        BY <1>1, <1>2, ReplyAwaited
      <4> QED BY <1>1, <2>4, <4>1 DEF ImportInv, LateUnlessReturned
    <3>4. {j \in late' : job'[j].sealed} = {j \in late : job[j].sealed}
      <4>1. \A j \in Ids : job'[j].sealed = job[j].sealed
        BY <1>1, <2>1, SetJob
      <4> QED BY <1>1, <1>2, <4>1 DEF ImportTypes
    <3>5. m.id \in {j \in late : job[j].sealed}
      BY <2>4, <3>3
    <3>6. [p \in Importers |-> CallOf(work'[p])] \in [Importers -> Atomic!Calls]
      BY CallIs DEF ImportTypes
    <3>7. dropped' = dropped \cup {m.id}
      BY <1>4, <2>4
    <3>8. Atomic!Withdraw(m.id)
      BY <1>3, <3>2, <3>4, <3>5, <3>6, <3>7, Zenon DEF Atomic!Withdraw
    <3> QED BY <1>1, <2>2, <3>8 DEF Atomic!AtomicNext
  <2> QED BY <2>3, <2>4
<1>5. CASE UNCHANGED <<job, dropped>>
  <2>1. Quiet
    BY <1>1, <1>2, <1>5, QuietJobs
  <2>2. LifeInv'
    BY <1>2, <1>5, Zenon DEF LifeInv
  <2> QED BY <1>1, <1>3, <2>1, <2>2, CallsMoveIs DEF Atomic!AtomicNext
<1> QED BY <1>4, <1>5 DEF CancelJob

(* A seal that succeeds returns to whoever waited for it.                   *)
LEMMA SealReturns ==
  ASSUME ImportInv, port # <<>>, m.op = "seal", NEW id \in Ids, Answer(id), m.from # Nobody
  PROVE  /\ m.from \in Importers
         /\ [p \in Importers |-> CallOf(work[p])][m.from].item = job[m.id].item
         /\ Atomic!Returns(m.from, id)
         /\ \A q \in Importers \ {m.from} : Atomic!Stays(q)
<1> DEFINE p == m.from
<1>1. /\ p \in Importers /\ work[p].step = "seal" /\ work[p].item = m.item /\ work[p].id = m.id
      /\ work'[p].step = "done" /\ work'[p].id = id /\ work'[p].item = m.item
      /\ \A q \in Importers : q # p => work'[q] = work[q]
      /\ work' \in [Importers -> Works]
  BY ReplyIs
<1>2. work \in [Importers -> Works]
  BY DEF ImportInv, ImportTypes
<1>3. job[m.id].item = m.item
  BY <1>1 DEF ImportInv, Known, Holding
<1> HIDE DEF p
<1>4. CallOf(work[p]) = Atomic!Call("asked", m.item, 0)
  BY <1>1, <1>2, CallIs
<1>5. CallOf(work'[p]) = Atomic!Call("returned", m.item, id)
  BY <1>1, CallIs
<1>6. CallOf(work[p]).phase = "asked" /\ CallOf(work[p]).item = m.item
  BY <1>4, RecordsOf
<1>7. Atomic!Returns(p, id)
  BY <1>1, <1>5, <1>6 DEF Atomic!Returns
<1>8. \A q \in Importers \ {p} : Atomic!Stays(q)
  BY <1>1, <1>2, CallMoves
<1> QED BY <1>1, <1>3, <1>6, <1>7, <1>8 DEF p

(* The answer to a seal that finds a job of the same original.              *)
LEMMA DuplicateIsAtomic ==
  ASSUME ImportInv, ImportTypes', LifeInv, port # <<>>, SealJob, Whole, Same(m.id) # {},
         Answer(Answered(m.id)), late' \subseteq late \cup {m.id}, late \subseteq late',
         UNCHANGED dropped, job' = [job EXCEPT ![m.id] = Cancelled(@)]
  PROVE  Atomic!CallsMove /\ LifeInv'
<1>1. /\ m.id \in Ids /\ job[m.id] \in Jobs /\ job \in [Ids -> Jobs]
      /\ m.op = "seal" /\ ImportTypes
  BY NamedIs DEF ImportInv, SealJob
<1> DEFINE r == Ended(job[m.id], "cancelled")
<1>2. r \in Jobs /\ r.state = "cancelled" /\ r.item = job[m.id].item /\ r.sealed = job[m.id].sealed
  BY <1>1, EndedIs
<1>3. job' = [job EXCEPT ![m.id] = r]
  BY <1>1 DEF Cancelled
<1> HIDE DEF r
<1>4. job[m.id].state = "importing" /\ ~job[m.id].sealed /\ ~r.sealed
  BY <1>1, <1>2 DEF Whole, LifeInv
<1>5. job'[m.id] = r /\ \A k \in Ids \ {m.id} : job'[k] = job[k]
  BY <1>1, <1>2, <1>3, SetJob
<1>6. Quiet
  <2>1. EntryOf(r) = EntryOf(job[m.id])
    BY <1>1, <1>2, <1>4, EntryIs
  <2> QED BY <1>4, <1>5, <2>1 DEF Quiet
<1>7. LifeInv'
  <2>1. Becomes(job[m.id], r)
    BY <1>2, <1>4 DEF Becomes, Live
  <2>2. late' = late \/ late' = late \cup {m.id}
    OBVIOUS
  <2> QED BY <1>1, <1>2, <1>3, <2>1, <2>2, LifeOfOne
<1>8. ASSUME NEW q \in Importers PROVE Atomic!Stays(q) \/ Atomic!Finds(q)
  <2>1. CASE m.from = Nobody
    <3>1. work' = work
      BY <2>1 DEF Answer
    <3> QED BY <3>1 DEF Atomic!Stays
  <2>2. CASE m.from # Nobody
    <3>1. Answered(m.id) \in Ids
      BY <1>1, AnsweredIs
    <3>2. Answered(m.id) \in Atomic!Live(job[m.id].item)
      BY <1>1, <1>4, SameIsLive
    <3>3. /\ [p \in Importers |-> CallOf(work[p])][m.from].item = job[m.id].item
          /\ Atomic!Returns(m.from, Answered(m.id))
          /\ \A p \in Importers \ {m.from} : Atomic!Stays(p)
      BY <1>1, <2>2, <3>1, SealReturns
    <3>4. Atomic!Finds(m.from)
      BY <3>2, <3>3, Zenon DEF Atomic!Finds
    <3> QED BY <3>3, <3>4
  <2> QED BY <2>1, <2>2
<1> QED BY <1>1, <1>6, <1>7, <1>8, CallsMoveIs

(* A seal that succeeds queues the job.                                     *)
LEMMA QueuedIsAtomic ==
  ASSUME ImportInv, ImportTypes', LifeInv, port # <<>>, SealJob, Whole, Same(m.id) = {},
         Answer(m.id), late' = IF m.from = Nobody THEN late \cup {m.id} ELSE late,
         UNCHANGED dropped,
         job' = [job EXCEPT ![m.id] = [@ EXCEPT !.state = "queued", !.sealed = TRUE]]
  PROVE  Atomic!AtomicNext /\ LifeInv'
<1>1. /\ m.id \in Ids /\ job[m.id] \in Jobs /\ job \in [Ids -> Jobs]
      /\ m.op = "seal" /\ ImportTypes
  BY NamedIs DEF ImportInv, SealJob
<1> DEFINE r == [job[m.id] EXCEPT !.state = "queued", !.sealed = TRUE]
           item == job[m.id].item
           e == [k \in Ids |-> EntryOf(job[k])]
<1>2. /\ r \in Jobs /\ r.state = "queued" /\ r.item = item /\ r.sealed
      /\ r.cancelRequested = job[m.id].cancelRequested
  BY <1>1 DEF Jobs
<1>3. job' = [job EXCEPT ![m.id] = r]
  BY <1>1
<1> HIDE DEF r
<1>4. /\ job[m.id].state = "importing" /\ ~job[m.id].sealed /\ ~job[m.id].cancelRequested
      /\ m.id \notin late
  BY <1>1 DEF Whole, LifeInv
<1>5. job'[m.id] = r /\ \A k \in Ids \ {m.id} : job'[k] = job[k]
  BY <1>1, <1>2, <1>3, SetJob
<1>6. LifeInv'
  <2>1. Becomes(job[m.id], r)
    BY <1>2, <1>4 DEF Becomes
  <2> QED BY <1>1, <1>2, <1>3, <2>1, LifeOfOne
<1>7. Atomic!Queues(m.id, item)
  <2>1. [k \in Ids |-> EntryOf(job'[k])] = [e EXCEPT ![m.id] = EntryOf(r)]
    BY <1>1, <1>2, <1>3, OneEntry
  <2>2. EntryOf(r) = Atomic!Entry("queued", item)
    BY <1>2, <1>4, EntryIs
  <2>3. e[m.id] = Atomic!NoEntry
    BY <1>1, <1>4, EntryIs
  <2>4. Atomic!Live(item) = {}
    BY <1>1, <1>4, SameIsLive
  <2> HIDE DEF item
  <2> QED BY <2>1, <2>2, <2>3, <2>4, Zenon DEF Atomic!Queues
<1>8. item \in Items
  BY <1>1 DEF Jobs
<1>9. CASE m.from = Nobody
  <2>1. late' = late \cup {m.id} /\ late \subseteq Ids
    BY <1>1, <1>9 DEF ImportTypes
  <2>2. {j \in late' : job'[j].sealed} = {j \in late : job[j].sealed} \cup {m.id}
    BY <1>2, <1>4, <1>5, <2>1
  <2>3. UNCHANGED work
    BY <1>9 DEF Answer
  <2>4. PICK i \in Items : i = item
    BY <1>8
  <2>5. Atomic!Queues(m.id, i)
    BY <1>7, <2>4
  <2>6. Atomic!ComeLate(m.id, i)
    BY <2>2, <2>3, <2>5, Zenon DEF Atomic!ComeLate
  <2> QED BY <1>1, <1>6, <2>6, Zenon DEF Atomic!AtomicNext
<1>10. CASE m.from # Nobody
  <2>1. late' = late /\ late \subseteq Ids
    BY <1>1, <1>10 DEF ImportTypes
  <2>2. {j \in late' : job'[j].sealed} = {j \in late : job[j].sealed}
    BY <1>4, <1>5, <2>1
  <2>3. /\ m.from \in Importers
        /\ [p \in Importers |-> CallOf(work[p])][m.from].item = item
        /\ Atomic!Returns(m.from, m.id)
        /\ \A q \in Importers \ {m.from} : Atomic!Stays(q)
    BY <1>1, <1>10, SealReturns
  <2>4. [p \in Importers |-> CallOf(work'[p])] \in [Importers -> Atomic!Calls]
    BY CallIs DEF ImportTypes
  <2>5. Atomic!Accept(m.from, m.id)
    <3> HIDE DEF item
    <3> QED BY <1>7, <2>2, <2>3, <2>4, Zenon DEF Atomic!Accept
  <2> QED BY <1>1, <1>6, <2>3, <2>5 DEF Atomic!AtomicNext
<1> QED BY <1>9, <1>10

LEMMA SealIsAtomic ==
  ASSUME ImportInv, ImportTypes', LifeInv, port # <<>>, SealJob
  PROVE  Atomic!AtomicNext /\ LifeInv'
<1>1. /\ m.id \in Ids /\ job \in [Ids -> Jobs] /\ 0 \in {0} \cup Ids /\ ImportTypes
  BY NamedIs DEF ImportInv
<1>2. UNCHANGED dropped
  BY DEF SealJob
<1>3. CASE /\ Whole /\ Answer(Answered(m.id))
           /\ IF m.from = Nobody
                THEN late' = late \cup {m.id} /\ UNCHANGED reported
                ELSE reported' = reported \cup {Answered(m.id)} /\ UNCHANGED late
           /\ job' = [job EXCEPT ![m.id] =
                          IF Same(m.id) = {} THEN [@ EXCEPT !.state = "queued", !.sealed = TRUE]
                          ELSE Cancelled(@)]
  <2>1. late' = IF m.from = Nobody THEN late \cup {m.id} ELSE late
    BY <1>3, Zenon
  <2>2. late \subseteq late' /\ late' \subseteq late \cup {m.id}
    BY <2>1
  <2>3. CASE Same(m.id) = {}
    <3>1. Answered(m.id) = m.id
      BY <1>1, <2>3, AnsweredIs
    <3>2. job' = [job EXCEPT ![m.id] = [@ EXCEPT !.state = "queued", !.sealed = TRUE]]
      BY <1>3, <2>3
    <3>3. Whole /\ Answer(m.id)
      BY <1>3, <3>1
    <3> QED BY <1>2, <2>1, <2>3, <3>2, <3>3, QueuedIsAtomic
  <2>4. CASE Same(m.id) # {}
    <3>1. job' = [job EXCEPT ![m.id] = Cancelled(@)]
      BY <1>3, <2>4
    <3> QED BY <1>2, <1>3, <2>2, <2>4, <3>1, DuplicateIsAtomic DEF Atomic!AtomicNext
  <2> QED BY <2>3, <2>4
<1>4. CASE Refuse /\ UNCHANGED <<job, late>>
  <2>1. Quiet
    BY <1>1, <1>2, <1>4, QuietJobs
  <2>2. \A q \in Importers : Atomic!Stays(q) \/ Atomic!Fails(q)
    BY <1>1, <1>4, ReplyMoves
  <2>3. LifeInv'
    BY <1>4, Zenon DEF LifeInv
  <2> QED BY <1>1, <2>1, <2>2, <2>3, CallsMoveIs DEF Atomic!AtomicNext
<1> QED BY <1>3, <1>4, Zenon DEF SealJob

(* The panel and the uploads.                                               *)
LEMMA JobIsAtomic ==
  ASSUME ImportInv, ImportTypes', LifeInv, NEW j \in Ids, UserCancels(j) \/ Uploaded(j)
  PROVE  Atomic!AtomicNext /\ LifeInv'
<1>1. ImportTypes /\ job \in [Ids -> Jobs] /\ UNCHANGED <<work, late, dropped>>
  BY DEF ImportInv, ImportTypes, UserCancels, Uploaded, history
<1>2. PICK r \in Jobs :
         /\ job' = [job EXCEPT ![j] = r] /\ Becomes(job[j], r)
         /\ r.item = job[j].item /\ r.sealed = job[j].sealed
         /\ \/ UserCancels(j) /\ (r.state = "cancelled" \/ (r.state = "queued" /\ r.cancelRequested))
            \/ /\ job[j].state = "queued"
               /\ r.state = "completed" \/ (r.state = "cancelled" /\ job[j].cancelRequested)
  <2>1. CASE UserCancels(j)
    <3>1. Cancellable(j) /\ Cancel(j)
      BY <2>1 DEF UserCancels
    <3> QED BY <1>1, <2>1, <3>1, CancelBecomes
  <2>2. CASE Uploaded(j)
    BY <1>1, <2>2, UploadBecomes
  <2> QED BY <2>1, <2>2
<1>3. LifeInv'
  BY <1>1, <1>2, LifeOfOne
<1>4. CASE ~job[j].sealed
  <2>1. Quiet
    BY <1>1, <1>2, <1>4, QuietJobs
  <2>2. \A p \in Importers : Atomic!Stays(p)
    BY <1>1 DEF Atomic!Stays
  <2> QED BY <1>1, <1>3, <2>1, <2>2, CallsMoveIs DEF Atomic!AtomicNext
<1>5. CASE job[j].sealed
  <2>1. job[j].state = "queued"
    BY <1>2, <1>5 DEF UserCancels, Cancellable, LifeInv
  <2>2. Atomic!Stops(j) \/ Atomic!Uploads(j)
    BY <1>1, <1>2, <1>5, <2>1, MovedIs
  <2>3. \A k \in Ids : job'[k].sealed = job[k].sealed
    BY <1>1, <1>2, SetJob
  <2>4. {k \in late' : job'[k].sealed} = {k \in late : job[k].sealed}
    BY <1>1, <2>3 DEF ImportTypes
  <2>5. Atomic!JobMoves(j)
    BY <1>1, <2>2, <2>4, Zenon DEF Atomic!JobMoves
  <2> QED BY <1>3, <2>5 DEF Atomic!AtomicNext
<1> QED BY <1>4, <1>5

LEMMA EngineIsAtomic ==
  ASSUME ImportInv, ImportTypes', LifeInv, EngineStep
  PROVE  Atomic!AtomicNext /\ LifeInv'
<1>1. CASE Receive
  <2>1. CASE BeginJob \/ AppendChunk
    <3>1. Atomic!CallsMove /\ LifeInv'
      BY <1>1, <2>1, BeginIsAtomic DEF Receive
    <3> QED BY <3>1 DEF Atomic!AtomicNext
  <2> QED BY <1>1, <2>1, SealIsAtomic, CancelIsAtomic DEF Receive
<1>2. CASE DaemonRestarts
  <2>1. ImportTypes /\ late \in SUBSET Ids /\ late' = late
    BY <1>2 DEF ImportInv, ImportTypes, DaemonRestarts
  <2>2. Atomic!CallsMove /\ \A j \in Ids : Becomes(job[j], job'[j])
    BY <1>2, <2>1, RestartIsAtomic
  <2>3. LifeInv'
    BY <2>1, <2>2, LifeOfAll
  <2> QED BY <2>2, <2>3 DEF Atomic!AtomicNext
<1> QED BY <1>1, <1>2, JobIsAtomic DEF EngineStep

LEMMA StepIsAtomic ==
  ASSUME BatchInv, BatchInv', LifeInv, [Next]_vars
  PROVE  [Atomic!AtomicNext]_(Atomic!atomicVars) /\ LifeInv'
<1>1. ImportInv /\ ImportTypes /\ ImportTypes' /\ CountsMatch /\ processed \in Nat
  <2>1. Len(Selection) \in Nat
    BY BatchAssumption DEF BatchAssumption
  <2>2. 0..Len(Selection) \subseteq Nat
    BY <2>1
  <2> QED BY <2>2, Zenon DEF BatchInv, ImportInv, BatchTypeOK
<1>2. UNCHANGED <<job, late>> => LifeInv'
  BY Zenon DEF LifeInv
<1>3. CASE UNCHANGED importVars
  <2>1. UNCHANGED <<job, work, late, dropped>>
    BY <1>3, Zenon DEF importVars, history
  <2>2. UNCHANGED Atomic!atomicVars
    BY <2>1, Zenon DEF Atomic!atomicVars
  <2> QED BY <1>2, <2>1, <2>2
<1>4. ASSUME NEW p \in Importers, ImporterAlone(p) \/ Abandon(p)
      PROVE  Atomic!AtomicNext /\ LifeInv'
  <2>1. UNCHANGED <<job, late>>
    BY <1>1, <1>4, AloneMoves
  <2>2. Atomic!CallsMove
    BY <1>1, <1>4, AloneIsAtomic
  <2> QED BY <1>2, <2>1, <2>2 DEF Atomic!AtomicNext
<1>5. CASE HostDies
  <2>1. UNCHANGED <<job, late>>
    BY <1>5 DEF HostDies
  <2>2. Atomic!CallsMove
    BY <1>1, <1>5, HostIsAtomic
  <2> QED BY <1>2, <2>1, <2>2 DEF Atomic!AtomicNext
<1> QED BY <1>1, <1>3, <1>4, <1>5, EngineIsAtomic, StepKinds

LEMMA InitIsAtomic == Init => Atomic!AtomicInit /\ LifeInv
<1> SUFFICES ASSUME Init PROVE Atomic!AtomicInit /\ LifeInv
  OBVIOUS
<1>1. /\ job = [j \in Ids |-> NoJob] /\ work = [p \in Importers |-> Idle]
      /\ late = {} /\ dropped = {}
  BY DEF Init, ImportInit
<1>2. /\ NoJob \in Jobs /\ NoJob.state = "none" /\ ~NoJob.sealed /\ Idle \in Works
      /\ Idle.step = "idle"
  BY NoJobIs, SomeItem DEF Idle, Works, Steps
<1>3. EntryOf(NoJob) = Atomic!NoEntry /\ CallOf(Idle) = Atomic!NoCall
  BY <1>2, EntryIs, CallIs
<1>4. \A j \in Ids : job[j] = NoJob
  BY <1>1
<1>5. LifeInv
  BY <1>1, <1>2, <1>4 DEF LifeInv
<1>6. [j \in Ids |-> EntryOf(job[j])] = [j \in Ids |-> Atomic!NoEntry]
  BY <1>3, <1>4
<1>7. [p \in Importers |-> CallOf(work[p])] = [p \in Importers |-> Atomic!NoCall]
  BY <1>1, <1>3
<1>8. {j \in late : job[j].sealed} = {}
  BY <1>1
<1> QED BY <1>1, <1>5, <1>6, <1>7, <1>8 DEF Atomic!AtomicInit

(* Whatever requests and answers are lost or late, and whoever dies: seen     *)
(* from outside, an import is one step, which queues a job with its original, *)
(* finds the one there is, or leaves the queue alone; and nothing withdraws a *)
(* job that somebody was told to be queued (GSImportFiles, seal).             *)
THEOREM ImportingIsAtomic == Spec => ImportsAreAtomic
<1>1. Init => Atomic!AtomicInit /\ LifeInv
  BY InitIsAtomic
<1>2. BatchInv /\ BatchInv' /\ LifeInv /\ [Next]_vars =>
        LifeInv' /\ [Atomic!AtomicNext]_(Atomic!atomicVars)
  BY StepIsAtomic
<1> QED BY <1>1, <1>2, BatchInvHolds, PTL DEF Spec, ImportsAreAtomic, Atomic!AtomicSpec

(* What AtomicImport promises holds here, too.                              *)
Safe == INSTANCE AtomicImportProofs WITH
    Callers <- Importers,
    Jobs <- Ids,
    Nothing <- NoJob.item,
    call <- [p \in Importers |-> CallOf(work[p])],
    entry <- [j \in Ids |-> EntryOf(job[j])],
    late <- {j \in late : job[j].sealed},
    withdrawn <- dropped

(* No original is uploaded twice: of two sealed jobs with it one is always    *)
(* cancelled, whoever imports it at once (seal).                              *)
Uploads(j) == job[j].sealed /\ job[j].state # "cancelled"

OneUpload == \A j, k \in Ids : Uploads(j) /\ Uploads(k) /\ job[j].item = job[k].item => j = k

THEOREM NoOriginalTwice == Spec => []OneUpload
<1>1. Atomic!AtomicInit => Safe!AtomicInit
  BY Zenon DEF Atomic!AtomicInit, Safe!AtomicInit, Atomic!NoCall, Safe!NoCall, Atomic!NoEntry,
         Safe!NoEntry, Atomic!Call, Safe!Call, Atomic!Entry, Safe!Entry
<1>2. Atomic!CallsMove => Safe!CallsMove
  BY Zenon DEF Atomic!CallsMove, Safe!CallsMove, Atomic!Stays, Safe!Stays, Atomic!Asks, Safe!Asks,
         Atomic!Fails, Safe!Fails, Atomic!Finds, Safe!Finds, Atomic!Ends, Safe!Ends,
         Atomic!Returns, Safe!Returns, Atomic!Live, Safe!Live, Atomic!NoCall, Safe!NoCall,
         Atomic!Call, Safe!Call, Atomic!Calls, Safe!Calls
<1>3. ASSUME NEW j \in Ids, Atomic!JobMoves(j) PROVE Safe!JobMoves(j)
  BY <1>3, Zenon DEF Atomic!JobMoves, Safe!JobMoves, Atomic!Stops, Safe!Stops, Atomic!Uploads, Safe!Uploads,
         Atomic!Move, Safe!Move, Atomic!Entry, Safe!Entry
<1>4. ASSUME NEW j \in Ids, Atomic!Withdraw(j) PROVE Safe!Withdraw(j)
  BY <1>4, Zenon DEF Atomic!Withdraw, Safe!Withdraw, Atomic!Stops, Safe!Stops, Atomic!Move, Safe!Move,
         Atomic!Entry, Safe!Entry, Atomic!Stays, Safe!Stays, Atomic!Fails, Safe!Fails,
         Atomic!Returns, Safe!Returns, Atomic!Call, Safe!Call, Atomic!Calls, Safe!Calls
<1>5. ASSUME NEW j \in Ids, NEW item \in Items, Atomic!ComeLate(j, item) PROVE Safe!ComeLate(j, item)
  BY <1>5, Zenon DEF Atomic!ComeLate, Safe!ComeLate, Atomic!Queues, Safe!Queues, Atomic!Live, Safe!Live,
         Atomic!NoEntry, Safe!NoEntry, Atomic!Entry, Safe!Entry
<1>6. ASSUME NEW j \in Ids, NEW p \in Importers, Atomic!Accept(p, j) PROVE Safe!Accept(p, j)
  BY <1>6, Zenon DEF Atomic!Accept, Safe!Accept, Atomic!Returns, Safe!Returns, Atomic!Stays, Safe!Stays,
         Atomic!Queues, Safe!Queues, Atomic!Live, Safe!Live, Atomic!NoEntry, Safe!NoEntry,
         Atomic!Entry, Safe!Entry, Atomic!Call, Safe!Call, Atomic!Calls, Safe!Calls
<1>7. Atomic!AtomicNext => Safe!AtomicNext
  BY <1>2, <1>3, <1>4, <1>5, <1>6, Zenon DEF Atomic!AtomicNext, Safe!AtomicNext
<1>8. UNCHANGED Atomic!atomicVars => UNCHANGED Safe!atomicVars
  BY Zenon DEF Atomic!atomicVars, Safe!atomicVars
<1>9. Safe!AtomicSpec => []Safe!AtomicInv
  BY Safe!AtomicImportIsSafe
<1>10. Init => LifeInv
  BY InitIsAtomic
<1>11. BatchInv /\ BatchInv' /\ LifeInv /\ [Next]_vars => LifeInv'
  BY StepIsAtomic
<1>12. ASSUME BatchInv, LifeInv, Safe!AtomicInv PROVE OneUpload
  <2>1. ImportTypes
    BY <1>12 DEF BatchInv, ImportInv
  <2>2. ASSUME NEW item \in Items, NEW j \in Atomic!Live(item), NEW k \in Atomic!Live(item)
        PROVE  j = k
    <3>1. Safe!OneJobPerOriginal
      BY <1>12 DEF Safe!AtomicInv
    <3>2. j \in Safe!Live(item) /\ k \in Safe!Live(item)
      BY <2>2, Zenon DEF Atomic!Live, Safe!Live
    <3> QED BY <3>1, <3>2, Zenon DEF Safe!OneJobPerOriginal
  <2>3. ASSUME NEW j \in Ids, NEW k \in Ids, job[j].sealed, job[j].state # "cancelled",
               job[k].sealed, job[k].state # "cancelled", job[j].item = job[k].item
        PROVE  j = k
    <3>1. PICK item \in Items : item = job[j].item
      BY <2>1 DEF ImportTypes, Jobs
    <3>2. j \in Atomic!Live(item) /\ k \in Atomic!Live(item)
      BY <1>12, <2>1, <2>3, <3>1, LiveIs
    <3> QED BY <2>2, <3>2
  <2> QED BY <2>3 DEF OneUpload, Uploads
<1> QED BY <1>1, <1>7, <1>8, <1>9, <1>10, <1>11, <1>12, BatchInvHolds, ImportingIsAtomic, PTL
        DEF Spec, ImportsAreAtomic, Atomic!AtomicSpec, Safe!AtomicSpec
=============================================================================
