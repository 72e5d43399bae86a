-------------------------- MODULE NativeRelayProofs --------------------------
(***************************************************************************)
(* Machine-checked proofs about the relay of native authorization, for     *)
(* every value of the constants that the assumptions allow.                *)
(***************************************************************************)
EXTENDS NativeRelayProperties, SequenceTheorems, TLAPS

-----------------------------------------------------------------------------
(* The relay queue and the port.                                           *)

LEMMA AppendTask ==
  ASSUME lane \in Seq(Tasks), NEW t \in Tasks
  PROVE  /\ Append(lane, t) \in Seq(Tasks) /\ Append(lane, t) # <<>>
         /\ Len(Append(lane, t)) = Len(lane) + 1
         /\ lane # <<>> => Head(Append(lane, t)) = Head(lane)
BY AppendProperties

LEMMA HeadTask ==
  ASSUME lane \in Seq(Tasks), lane # <<>>
  PROVE  Head(lane) \in Tasks /\ Tail(lane) \in Seq(Tasks)
BY HeadTailProperties

LEMMA SetTask ==
  ASSUME lane \in Seq(Tasks), lane # <<>>, NEW id \in Identities \cup {NoIdentity}
  PROVE  /\ [lane EXCEPT ![1].id = id] \in Seq(Tasks)
         /\ Len([lane EXCEPT ![1].id = id]) = Len(lane)
         /\ [lane EXCEPT ![1].id = id] # <<>>
         /\ DOMAIN [lane EXCEPT ![1].id = id] = DOMAIN lane
         /\ \A i \in DOMAIN lane :
              /\ [lane EXCEPT ![1].id = id][i].who = lane[i].who
              /\ i # 1 => [lane EXCEPT ![1].id = id][i] = lane[i]
<1> DEFINE new == [lane EXCEPT ![1].id = id]
<1>1. 1 \in DOMAIN lane /\ lane[1] \in Tasks /\ DOMAIN lane = 1..Len(lane) /\ Len(lane) \in Nat
  OBVIOUS
<1>2. [lane[1] EXCEPT !.id = id] \in Tasks /\ [lane[1] EXCEPT !.id = id].who = lane[1].who
  BY <1>1 DEF Tasks
<1>3. new = [i \in 1..Len(lane) |-> IF i = 1 THEN [lane[1] EXCEPT !.id = id] ELSE lane[i]]
  BY <1>1
<1>4. \A i \in 1..Len(lane) : new[i] \in Tasks
  BY <1>2, <1>3
<1>5. new \in Seq(Tasks) /\ Len(new) = Len(lane)
  BY <1>1, <1>3, <1>4
<1> QED
  BY <1>1, <1>2, <1>3, <1>5

LEMMA UnawaitedPort ==
  ASSUME port \in Seq(Messages)
  PROVE  /\ Unawaited \in Seq(Messages) /\ Len(Unawaited) = Len(port)
         /\ DOMAIN Unawaited = DOMAIN port
         /\ \A i \in DOMAIN port :
              /\ Unawaited[i].op = port[i].op /\ Unawaited[i].id = port[i].id
              /\ Unawaited[i].owner = port[i].owner /\ ~Unawaited[i].awaited
         /\ port # <<>> => Unawaited # <<>> /\ Head(Unawaited).op = Head(port).op
<1>1. DOMAIN port = 1..Len(port) /\ Len(port) \in Nat
  OBVIOUS
<1>2. \A i \in DOMAIN port :
        port[i] \in Messages /\ [port[i] EXCEPT !.awaited = FALSE] \in Messages
  <2> SUFFICES ASSUME NEW i \in DOMAIN port
      PROVE  port[i] \in Messages /\ [port[i] EXCEPT !.awaited = FALSE] \in Messages
    OBVIOUS
  <2>1. port[i] \in Messages
    BY <1>1
  <2> QED
    BY <2>1 DEF Messages
<1>3. Unawaited \in Seq(Messages) /\ Len(Unawaited) = Len(port) /\ DOMAIN Unawaited = DOMAIN port
  BY <1>1, <1>2 DEF Unawaited
<1>4. \A i \in DOMAIN port :
        /\ Unawaited[i].op = port[i].op /\ Unawaited[i].id = port[i].id
        /\ Unawaited[i].owner = port[i].owner /\ ~Unawaited[i].awaited
  BY <1>1, <1>2 DEF Unawaited, Messages
<1>5. ASSUME port # <<>> PROVE Unawaited # <<>> /\ Head(Unawaited).op = Head(port).op
  <2>1. 1 \in DOMAIN port /\ Head(port) = port[1]
    BY <1>1, <1>5
  <2>2. Unawaited # <<>> /\ Head(Unawaited) = Unawaited[1]
    BY <1>1, <1>3, <2>1
  <2> QED
    BY <1>4, <2>1, <2>2
<1> QED
  BY <1>3, <1>4, <1>5

-----------------------------------------------------------------------------
(* Types, and whose bearer is on its way where.                            *)

OwnBearers ==
  /\ step \in {"authorizing", "sending"} => bearer = Head(lane).id /\ bearer # NoIdentity
  /\ \A i \in DOMAIN port :
       port[i].op \in {"account_native", "native_bearer"} =>
         port[i].id \in Identities /\ port[i].owner = port[i].id
  /\ slot.owner = slot.id
  /\ BearerIsOwn

Base ==
  /\ Types /\ OwnBearers
  /\ step # "idle" => lane # <<>>
  /\ verifying => port # <<>> /\ Head(port).op = "account_native"

LEMMA UpsertedType ==
  ASSUME accounts \in AccountRecords, NEW e \in Emails, NEW c \in Credentials
  PROVE  Upserted(e, c) \subseteq AccountRecords
BY DEF Upserted, AccountRecords

LEMMA BaseInit == Init => Base
<1> SUFFICES ASSUME Init PROVE Base
  OBVIOUS
<1>1. accounts \in AccountRecords /\ stored \in AccountRecords
  BY DEF Init, StoreInit, AccountRecords, Credentials
<1>2. slot \in Slots /\ slot.owner = slot.id
  BY DEF Init, StoreInit, EmptySlot, Slots
<1>3. lane \in Seq(Tasks) /\ port \in Seq(Messages) /\ DOMAIN port = {} /\ Len(port) <= PortLimit + 1
  <2>1. lane = <<>> /\ port = <<>>
    BY DEF Init
  <2>2. Len(<<>>) = 0 /\ DOMAIN <<>> = {}
    OBVIOUS
  <2>3. 0 <= PortLimit + 1
    BY RelayAssumption DEF RelayAssumption
  <2> QED
    BY <2>1, <2>2, <2>3, EmptySeq
<1>4. 0 \in 0..MaxRestarts
  BY RelayAssumption DEF RelayAssumption
<1>5. /\ verifying = FALSE /\ jobs = {} /\ doubtful = FALSE /\ used = {}
      /\ viewing \in Identities \cup {NoIdentity} /\ calls = {}
      /\ step = "idle" /\ bearer = NoIdentity /\ answer = "none"
      /\ connecting = FALSE /\ connected = FALSE /\ connectionID = NoIdentity
      /\ attempt = "none" /\ refreshing = "no" /\ validated = {} /\ restarts = 0
  BY DEF Init, StoreInit
<1>6. Types
  BY <1>1, <1>2, <1>3, <1>4, <1>5 DEF Types, Steps
<1> QED
  BY <1>2, <1>3, <1>5, <1>6 DEF Base, OwnBearers, BearerIsOwn

(* Base depends on the relay's task, the port and the daemon alone. *)
LEMMA BaseKept ==
  ASSUME Base, UNCHANGED <<daemon, step, bearer, answer, port>>,
         viewing' \in Identities \cup {NoIdentity},
         calls' \subseteq Tasks, lane' \in Seq(Tasks),
         step # "idle" => lane' # <<>> /\ Head(lane') = Head(lane),
         connecting' \in BOOLEAN, connected' \in BOOLEAN,
         connectionID' \in Identities \cup {NoIdentity},
         attempt' \in {"none", "ok", "failed"}, refreshing' \in {"no", "yes", "over"},
         validated' \subseteq Identities, restarts' \in 0..MaxRestarts
  PROVE  Base'
<1>1. Types'
  BY DEF Base, Types, daemon, store
<1>2. OwnBearers'
  BY DEF Base, OwnBearers, BearerIsOwn, daemon, store
<1> QED
  BY <1>1, <1>2 DEF Base, daemon

(* Steps of the host that do not touch the daemon or its messages. *)
LEMMA BaseHost ==
  ASSUME Base,
         \/ AccountChanges \/ RefreshTick \/ LoseAccount
         \/ \E foreground \in BOOLEAN : Connect(foreground)
         \/ Reconnect \/ ConnectEnds \/ RefreshEnds
         \/ \E who \in Callers : Call(who)
  PROVE  Base'
<1> DEFINE Tick == Task("timer", NoIdentity)
<1>0. Tick \in Tasks /\ \A id \in Identities, who \in Callers : Task(who, id) \in Tasks
  BY DEF Tasks, Task, Callers
<1> HIDE DEF Tick
<1>1. /\ viewing \in Identities \cup {NoIdentity} /\ calls \subseteq Tasks
      /\ lane \in Seq(Tasks) /\ (step # "idle" => lane # <<>>)
      /\ connecting \in BOOLEAN /\ connected \in BOOLEAN
      /\ connectionID \in Identities \cup {NoIdentity}
      /\ attempt \in {"none", "ok", "failed"} /\ refreshing \in {"no", "yes", "over"}
      /\ validated \subseteq Identities /\ restarts \in 0..MaxRestarts
  BY DEF Base, Types
<1>2. CASE AccountChanges
  BY <1>1, <1>2, BaseKept DEF AccountChanges, task, connection
<1>3. ASSUME Refresh
      PROVE  /\ lane' \in Seq(Tasks) /\ refreshing' \in {"no", "yes", "over"}
             /\ step # "idle" => lane' # <<>> /\ Head(lane') = Head(lane)
  BY <1>0, <1>1, <1>3, AppendTask DEF Refresh, Tick
<1>4. CASE RefreshTick
  BY <1>1, <1>3, <1>4, BaseKept DEF RefreshTick, connection
<1>5. CASE LoseAccount
  <2>1. lane' \in Seq(Tasks) /\ refreshing' \in {"no", "yes", "over"}
        /\ (step # "idle" => lane' # <<>> /\ Head(lane') = Head(lane))
    BY <1>1, <1>3, <1>5 DEF LoseAccount
  <2> QED
    BY <1>1, <1>5, <2>1, BaseKept DEF LoseAccount
<1>6. CASE \E foreground \in BOOLEAN : Connect(foreground)
  BY <1>0, <1>1, <1>6, BaseKept DEF Connect, task, Callers
<1>7. CASE Reconnect
  BY <1>0, <1>1, <1>7, BaseKept DEF Reconnect, task, connection, Callers
<1>8. CASE ConnectEnds
  BY <1>1, <1>8, BaseKept DEF ConnectEnds, StillViewing, task
<1>9. CASE RefreshEnds
  BY <1>1, <1>9, BaseKept DEF RefreshEnds, task, connection
<1>10. CASE \E who \in Callers : Call(who)
  BY <1>1, <1>10, AppendTask, BaseKept DEF Call, connection
<1> QED
  BY <1>2, <1>4, <1>5, <1>6, <1>7, <1>8, <1>9, <1>10

(* Steps of the running task that send nothing. *)
LEMMA BaseTask ==
  ASSUME Base,
         Take \/ ReadAccount \/ Asked \/ FetchBegins \/ FetchTimesOut \/ FetchEnds \/ Answered
         \/ Return \/ Abandon
  PROVE  Base'
<1>0. /\ viewing \in Identities \cup {NoIdentity} /\ lane \in Seq(Tasks)
      /\ (step # "idle" => lane # <<>>) /\ bearer \in Identities \cup {NoIdentity}
      /\ port \in Seq(Messages) /\ Len(port) <= PortLimit + 1
  BY DEF Base, Types
<1>1. ASSUME UNCHANGED <<daemon, viewing, calls, validated, restarts, port,
                         connecting, connected, connectionID>>,
             lane' \in Seq(Tasks), step' \in Steps, bearer' \in Identities \cup {NoIdentity},
             answer' \in {"none", "ok", "other", "failed"},
             attempt' \in {"none", "ok", "failed"}, refreshing' \in {"no", "yes", "over"},
             step' # "idle" => lane' # <<>>,
             step' \in {"authorizing", "sending"} =>
               bearer' = Head(lane').id /\ bearer' # NoIdentity
      PROVE  Base'
  <2>1. Types'
    BY <1>1 DEF Base, Types, daemon, store
  <2>2. OwnBearers'
    BY <1>1 DEF Base, OwnBearers, BearerIsOwn, daemon, store
  <2> QED
    BY <1>1, <2>1, <2>2 DEF Base, daemon
<1>2. answer \in {"none", "ok", "other", "failed"} /\ attempt \in {"none", "ok", "failed"}
      /\ refreshing \in {"no", "yes", "over"}
  BY DEF Base, Types
<1>3. CASE Take
  BY <1>0, <1>1, <1>2, <1>3 DEF Take, Goto, elsewhere, connection, Steps
<1>4. CASE ReadAccount
  BY <1>0, <1>1, <1>2, <1>4, SetTask DEF ReadAccount, Goto, elsewhere, connection, Steps
<1>5. CASE Asked
  BY <1>0, <1>1, <1>2, <1>5 DEF Asked, Mismatch, Goto, elsewhere, connection, Steps
<1>6. CASE FetchBegins
  BY <1>0, <1>1, <1>2, <1>6 DEF FetchBegins, Goto, elsewhere, connection, Steps
<1>7. CASE FetchTimesOut
  BY <1>0, <1>1, <1>2, <1>7 DEF FetchTimesOut, Goto, elsewhere, connection, Steps
<1>8. CASE FetchEnds
  BY <1>0, <1>1, <1>2, <1>8 DEF FetchEnds, Goto, elsewhere, connection, Steps, Base, OwnBearers
<1>9. CASE Answered
  BY <1>0, <1>1, <1>2, <1>9 DEF Answered, Goto, elsewhere, connection, Steps
<1>10. CASE Return
  BY <1>0, <1>1, <1>2, <1>10, HeadTask DEF Return, Goto, Steps
<1>11. CASE Abandon
  <2>1. /\ UNCHANGED <<daemon, viewing, calls, connection, refreshing, validated, restarts,
                       lane, step, bearer>>
        /\ answer' = "failed" /\ port' = Unawaited
    BY <1>11 DEF Abandon, elsewhere
  <2>2. Types'
    BY <1>0, <2>1, UnawaitedPort DEF Base, Types, daemon, store, connection
  <2>3. OwnBearers'
    BY <1>0, <2>1, UnawaitedPort DEF Base, OwnBearers, BearerIsOwn, daemon, store
  <2> QED
    BY <1>0, <2>1, <2>2, <2>3, UnawaitedPort DEF Base, daemon
<1> QED
  BY <1>3, <1>4, <1>5, <1>6, <1>7, <1>8, <1>9, <1>10, <1>11

(* A request that is queued for the daemon, or not. *)
LEMMA BaseSend ==
  ASSUME Base, Ask \/ SendBearer \/ SendClear
  PROVE  Base'
<1>0. /\ port \in Seq(Messages) /\ lane \in Seq(Tasks) /\ bearer \in Identities \cup {NoIdentity}
      /\ (step # "idle" => lane # <<>>) /\ answer \in {"none", "ok", "other", "failed"}
      /\ Len(port) <= PortLimit + 1 /\ PortLimit \in Nat
  BY RelayAssumption DEF Base, Types, RelayAssumption
<1>1. PICK op \in Operations, next \in Waiting :
        /\ step # "idle" /\ Request(op, next)
        /\ op \in {"account_native", "native_bearer"} =>
             Head(lane).id = bearer /\ bearer \in Identities
  BY <1>0 DEF Ask, SendBearer, SendClear, Operations, Waiting, Base, OwnBearers
<1> DEFINE m == [op |-> op, id |-> Head(lane).id, owner |-> bearer, awaited |-> TRUE]
<1>2. m \in Messages
  BY <1>0, <1>1, HeadTask DEF Messages, Tasks
<1>3. /\ UNCHANGED <<daemon, viewing, calls, lane, bearer, connection, refreshing,
                     validated, restarts>>
      /\ step' = next /\ answer' \in {"none", "ok", "other", "failed"}
      /\ \/ UNCHANGED port
         \/ Len(port) <= PortLimit /\ port' = Append(port, m)
  BY <1>0, <1>1 DEF Request, HasRoom, Goto, elsewhere
<1> HIDE DEF m
<1>4. /\ port' \in Seq(Messages) /\ Len(port') <= PortLimit + 1
      /\ port # <<>> => port' # <<>> /\ Head(port') = Head(port)
  BY <1>0, <1>2, <1>3, AppendProperties
<1>5. \A i \in DOMAIN port' : port'[i] = m \/ (i \in DOMAIN port /\ port'[i] = port[i])
  <2> SUFFICES ASSUME NEW i \in DOMAIN port', port' = Append(port, m)
      PROVE  port'[i] = m \/ (i \in DOMAIN port /\ port'[i] = port[i])
    BY <1>3
  <2>1. DOMAIN port' = 1..Len(port') /\ Len(port') = Len(port) + 1 /\ Len(port) \in Nat
        /\ DOMAIN port = 1..Len(port)
    <3>1. DOMAIN port' = 1..Len(port') /\ DOMAIN port = 1..Len(port) /\ Len(port) \in Nat
      BY <1>0, <1>4
    <3>2. Len(port') = Len(port) + 1
      BY <1>0, <1>2, AppendProperties
    <3> QED
      BY <3>1, <3>2
  <2>2. CASE i = Len(port) + 1
    <3>1. Append(port, m)[Len(port) + 1] = m
      BY <1>0, <1>2, AppendProperties
    <3>2. port'[i] = m
      BY <2>2, <3>1, Zenon
    <3> QED
      BY <3>2
  <2>3. CASE i \in 1..Len(port)
    BY <1>0, <1>2, <2>1, <2>3, AppendProperties
  <2> QED
    BY <2>1, <2>2, <2>3
<1>6. Types'
  BY <1>3, <1>4 DEF Base, Types, daemon, store, connection, Waiting, Steps
<1>7. m.op \in {"account_native", "native_bearer"} => m.id \in Identities /\ m.owner = m.id
  BY <1>1 DEF m
<1>8. OwnBearers'
  BY <1>3, <1>5, <1>7 DEF Base, OwnBearers, BearerIsOwn, daemon, Waiting
<1> QED
  BY <1>0, <1>1, <1>3, <1>4, <1>6, <1>8 DEF Base, daemon

-----------------------------------------------------------------------------
(* Steps of the daemon.                                                    *)

LEMMA StoreStepTypes ==
  ASSUME accounts \in AccountRecords, stored \in AccountRecords, doubtful \in BOOLEAN,
         NEW next \in AccountRecords, Saved(next) \/ NotSaved(next)
  PROVE  accounts' \in AccountRecords /\ stored' \in AccountRecords /\ doubtful' \in BOOLEAN
BY DEF Saved, NotSaved

(* Base depends on the daemon's state in these respects. *)
LEMMA BaseStore ==
  ASSUME Base, UNCHANGED <<host, port, validated, restarts>>,
         accounts' \in AccountRecords, stored' \in AccountRecords, doubtful' \in BOOLEAN,
         slot' \in Slots, slot'.owner = slot'.id, verifying' = verifying,
         jobs' \subseteq Emails, used' \subseteq Identities \X Identities, BearerIsOwn'
  PROVE  Base'
<1>1. Types'
  BY DEF Base, Types, host, task, connection
<1>2. OwnBearers'
  BY DEF Base, OwnBearers, host, task
<1> QED
  BY <1>1, <1>2 DEF Base, host, task

LEMMA SlotTypes ==
  /\ \A id \in Identities : [id |-> id, owner |-> id, fresh |-> TRUE] \in Slots
  /\ EmptySlot \in Slots /\ EmptySlot.owner = EmptySlot.id
BY DEF Slots, EmptySlot

LEMMA BaseStoreStep ==
  ASSUME Base, StoreStep, UNCHANGED <<host, port, validated, restarts>>
  PROVE  Base'
<1>0. /\ accounts \in AccountRecords /\ stored \in AccountRecords /\ doubtful \in BOOLEAN
      /\ slot \in Slots /\ slot.owner = slot.id /\ jobs \subseteq Emails
      /\ used \subseteq Identities \X Identities /\ BearerIsOwn
      /\ UsedEmails \subseteq Emails
  BY AccountAssumption DEF Base, Types, OwnBearers, AccountAssumption
<1>1. ASSUME UNCHANGED used PROVE BearerIsOwn'
  BY <1>0, <1>1 DEF BearerIsOwn
<1>2. ASSUME NEW e \in UsedEmails, AddAccount(e) PROVE Base'
  <2>1. Legacy \in Credentials
    BY DEF Credentials
  <2>2. PICK next \in AccountRecords : Saved(next) \/ NotSaved(next)
    BY <1>0, <1>2, <2>1, UpsertedType DEF AddAccount
  <2> QED
    BY <1>0, <1>1, <1>2, <2>2, StoreStepTypes, BaseStore DEF AddAccount
<1>3. ASSUME NEW e \in UsedEmails, SelectAccount(e) PROVE Base'
  <2>1. [accounts EXCEPT !.selected = e] \in AccountRecords
    BY <1>0 DEF AccountRecords
  <2> QED
    BY <1>0, <1>1, <1>3, <2>1, StoreStepTypes, BaseStore DEF SelectAccount
<1>4. ASSUME NEW e \in UsedEmails, RemoveAccount(e) PROVE Base'
  <2> DEFINE next == [bound |-> [accounts.bound EXCEPT ![e] = Absent],
                      selected |-> IF accounts.selected = e THEN NoEmail
                                                            ELSE accounts.selected]
  <2>1. next \in AccountRecords
    BY <1>0 DEF AccountRecords, Credentials
  <2>2. (Saved(next) \/ NotSaved(next)) /\ (Clear \/ UNCHANGED slot)
        /\ UNCHANGED <<verifying, jobs, used>>
    BY <1>4 DEF RemoveAccount
  <2>3. slot' \in Slots /\ slot'.owner = slot'.id
    BY <1>0, <2>2, SlotTypes DEF Clear
  <2> QED
    BY <1>0, <1>1, <2>1, <2>2, <2>3, StoreStepTypes, BaseStore
<1>5. ASSUME NEW e \in UsedEmails, BeginJob(e) \/ EndJob(e) PROVE Base'
  <2>1. jobs' \subseteq Emails /\ UNCHANGED <<store, slot, verifying, used>>
    BY <1>0, <1>5 DEF BeginJob, EndJob
  <2> QED
    BY <1>0, <1>1, <2>1, BaseStore DEF store
<1>6. ASSUME NEW id \in Identities, UseBearer(id) PROVE Base'
  <2>1. slot.owner = id /\ used' = used \cup {<<id, id>>}
        /\ UNCHANGED <<store, slot, verifying, jobs>>
    BY <1>0, <1>6 DEF UseBearer, Gets
  <2>2. used' \subseteq Identities \X Identities /\ BearerIsOwn'
    BY <1>0, <2>1 DEF BearerIsOwn
  <2> QED
    BY <1>0, <2>1, <2>2, BaseStore DEF store
<1>7. CASE BearerExpires
  <2>1. slot' \in Slots /\ slot'.owner = slot'.id
    BY <1>0, <1>7 DEF BearerExpires, Slots
  <2> QED
    BY <1>0, <1>1, <1>7, <2>1, BaseStore DEF BearerExpires, store
<1> QED
  BY <1>2, <1>3, <1>4, <1>5, <1>6, <1>7 DEF StoreStep

(* What is left in the port once its first message has been dealt with. *)
LEMMA TailPort ==
  ASSUME port \in Seq(Messages), port # <<>>
  PROVE  /\ Head(port) \in Messages /\ Head(port) = port[1] /\ 1 \in DOMAIN port
         /\ Tail(port) \in Seq(Messages) /\ Len(Tail(port)) = Len(port) - 1
         /\ \A i \in DOMAIN Tail(port) : i + 1 \in DOMAIN port /\ Tail(port)[i] = port[i + 1]
<1>1. DOMAIN port = 1..Len(port) /\ Len(port) \in Nat \ {0} /\ Head(port) = port[1]
  BY EmptySeq
<1>2. Tail(port) \in Seq(Messages) /\ Len(Tail(port)) = Len(port) - 1
      /\ \A i \in 1..Len(Tail(port)) : Tail(port)[i] = port[i + 1]
  BY HeadTailProperties
<1>3. DOMAIN Tail(port) = 1..Len(Tail(port))
  BY <1>2
<1> QED
  BY <1>1, <1>2, <1>3, HeadTailProperties

LEMMA BaseReceive ==
  ASSUME Base, Receive
  PROVE  Base'
<1>0. /\ port \in Seq(Messages) /\ port # <<>> /\ ~verifying /\ Len(port) <= PortLimit + 1
      /\ PortLimit \in Nat /\ slot \in Slots /\ slot.owner = slot.id
      /\ answer \in {"none", "ok", "other", "failed"}
  BY RelayAssumption DEF Base, Types, OwnBearers, Receive, RelayAssumption
<1> DEFINE m == Head(port)
<1>1. m \in Messages /\ Tail(port) \in Seq(Messages) /\ Len(Tail(port)) <= PortLimit + 1
  BY <1>0, TailPort
<1>2. m.op \in {"account_native", "native_bearer"} => m.id \in Identities /\ m.owner = m.id
  BY <1>0, TailPort DEF Base, OwnBearers
<1> HIDE DEF m
<1>3. UNCHANGED <<store, viewing, calls, lane, step, bearer, connection, refreshing,
                  validated, restarts, jobs>>
  BY DEF Receive, TryBearer, daemon
<1>4. answer' \in {"none", "ok", "other", "failed"}
  BY <1>0 DEF Receive, Reply
<1>5. CASE m.op = "account_native"
  <2>1. /\ slot' = [id |-> m.id, owner |-> m.id, fresh |-> TRUE] /\ verifying' = TRUE
        /\ used' = used \cup {<<m.id, m.id>>} /\ UNCHANGED port
    BY <1>2, <1>5 DEF Receive, TryBearer, Put, m
  <2>2. slot' \in Slots /\ slot'.owner = slot'.id
    BY <1>2, <1>5, <2>1, SlotTypes
  <2>3. used' \subseteq Identities \X Identities /\ BearerIsOwn'
    BY <1>2, <1>5, <2>1 DEF Base, Types, OwnBearers, BearerIsOwn
  <2>4. Types'
    BY <1>3, <1>4, <2>1, <2>2, <2>3 DEF Base, Types, store, connection
  <2>5. OwnBearers'
    BY <1>3, <2>1, <2>2, <2>3 DEF Base, OwnBearers
  <2> QED
    BY <1>0, <1>3, <1>5, <2>1, <2>4, <2>5 DEF Base, m
<1>6. CASE m.op # "account_native"
  <2>1. /\ port' = Tail(port) /\ UNCHANGED <<verifying, used>>
        /\ \/ UNCHANGED slot
           \/ m.op = "native_bearer" /\ Put(m.id, m.owner)
           \/ Clear
    BY <1>6 DEF Receive, RenewBearer, daemon, m
  <2>2. slot' \in Slots /\ slot'.owner = slot'.id
    BY <1>0, <1>2, <2>1, SlotTypes DEF Put, Clear
  <2>3. Types'
    BY <1>1, <1>3, <1>4, <2>1, <2>2 DEF Base, Types, store, connection
  <2>4. OwnBearers'
    BY <1>0, <1>3, <2>1, <2>2, TailPort DEF Base, OwnBearers, BearerIsOwn
  <2> QED
    BY <1>0, <1>3, <2>1, <2>3, <2>4 DEF Base
<1> QED
  BY <1>5, <1>6

LEMMA BaseVerifyEnds ==
  ASSUME Base, VerifyEnds
  PROVE  Base'
<1>0. /\ port \in Seq(Messages) /\ port # <<>> /\ verifying /\ Len(port) <= PortLimit + 1
      /\ PortLimit \in Nat /\ slot \in Slots /\ slot.owner = slot.id
      /\ Head(port).op = "account_native" /\ validated \subseteq Identities
      /\ answer \in {"none", "ok", "other", "failed"}
      /\ accounts \in AccountRecords /\ stored \in AccountRecords /\ doubtful \in BOOLEAN
  BY RelayAssumption DEF Base, Types, OwnBearers, VerifyEnds, RelayAssumption
<1> DEFINE id == Head(port).id
<1>1. id \in Identities /\ Tail(port) \in Seq(Messages) /\ Len(Tail(port)) <= PortLimit + 1
  BY <1>0, TailPort DEF Base, OwnBearers
<1> HIDE DEF id
<1>2. Email[id] \in Emails /\ id \in Credentials
  BY <1>1, AccountAssumption DEF AccountAssumption, Credentials
<1>3. Upserted(Email[id], id) \subseteq AccountRecords
  BY <1>0, <1>2, UpsertedType
<1>4. /\ UNCHANGED <<viewing, calls, lane, step, bearer, connection, refreshing, restarts,
                     jobs, used>>
      /\ port' = Tail(port) /\ verifying' = FALSE
      /\ answer' \in {"none", "ok", "other", "failed"}
  BY <1>0 DEF VerifyEnds, BearerAccepted, BearerRefused, Reply
<1>5. /\ validated' \subseteq Identities /\ slot' \in Slots /\ slot'.owner = slot'.id
      /\ accounts' \in AccountRecords /\ stored' \in AccountRecords /\ doubtful' \in BOOLEAN
  <2>1. CASE BearerAccepted(id) /\ validated' = validated \cup {id}
    <3>1. PICK next \in AccountRecords : Saved(next)
      BY <1>3, <2>1 DEF BearerAccepted
    <3> QED
      BY <1>0, <1>1, <2>1, <3>1 DEF BearerAccepted, Saved
  <2>2. CASE BearerRefused(id) /\ UNCHANGED validated
    <3>1. slot' = EmptySlot
      BY <2>2 DEF BearerRefused, Clear
    <3>2. CASE UNCHANGED store
      BY <1>0, <2>2, <3>1, <3>2, SlotTypes DEF store
    <3>3. CASE \E next \in Upserted(Email[id], id) : NotSaved(next)
      <4>1. PICK next \in AccountRecords : NotSaved(next)
        BY <1>3, <3>3
      <4> QED
        BY <1>0, <2>2, <3>1, <4>1, SlotTypes, StoreStepTypes
    <3> QED
      BY <2>2, <3>2, <3>3 DEF BearerRefused
  <2> QED
    BY <2>1, <2>2 DEF VerifyEnds, id
<1>6. Types'
  BY <1>1, <1>4, <1>5 DEF Base, Types, connection
<1>7. OwnBearers'
  BY <1>0, <1>4, <1>5, TailPort DEF Base, OwnBearers, BearerIsOwn
<1> QED
  BY <1>4, <1>6, <1>7 DEF Base

LEMMA BaseRestart ==
  ASSUME Base, DaemonRestarts \/ HostRestarts
  PROVE  Base'
<1>0. restarts \in Nat /\ (restarts < MaxRestarts => restarts + 1 \in 0..MaxRestarts)
  BY RelayAssumption DEF Base, Types, RelayAssumption
<1>1. CASE DaemonRestarts
  <2>1. /\ UNCHANGED <<stored, jobs, doubtful, used, viewing, calls, lane, step, bearer,
                       connection, refreshing, validated>>
        /\ accounts' = stored /\ slot' = EmptySlot /\ verifying' = FALSE /\ port' = <<>>
        /\ restarts' \in 0..MaxRestarts /\ answer' \in {answer, "failed"}
    BY <1>0, <1>1 DEF DaemonRestarts, Reloaded, Clear
  <2>2. port' \in Seq(Messages) /\ DOMAIN port' = {} /\ Len(port') <= PortLimit + 1
    <3>1. Len(<<>>) = 0 /\ DOMAIN <<>> = {} /\ 0 <= PortLimit + 1
      BY RelayAssumption DEF RelayAssumption
    <3> QED
      BY <2>1, <3>1, EmptySeq
  <2>3. Types'
    BY <2>1, <2>2, SlotTypes DEF Base, Types, connection
  <2>4. OwnBearers'
    BY <2>1, <2>2, SlotTypes DEF Base, OwnBearers, BearerIsOwn
  <2> QED
    BY <2>1, <2>3, <2>4 DEF Base
<1>2. CASE HostRestarts
  <2>1. /\ UNCHANGED <<daemon, viewing, validated>> /\ port' = Unawaited
        /\ calls' = {} /\ lane' = <<>> /\ step' = "idle" /\ bearer' = NoIdentity
        /\ answer' = "none" /\ connecting' = FALSE /\ connected' = FALSE
        /\ connectionID' = NoIdentity /\ attempt' = "none" /\ refreshing' = "no"
        /\ restarts' \in 0..MaxRestarts
    BY <1>0, <1>2 DEF HostRestarts
  <2>2. lane' \in Seq(Tasks)
    BY <2>1, EmptySeq
  <2>3. Types'
    BY <2>1, <2>2, UnawaitedPort DEF Base, Types, Steps, daemon, store
  <2>4. OwnBearers'
    BY <2>1, UnawaitedPort DEF Base, Types, OwnBearers, BearerIsOwn, daemon
  <2> QED
    BY <2>1, <2>3, <2>4, UnawaitedPort DEF Base, Types, daemon
<1> QED
  BY <1>1, <1>2

LEMMA BaseNext == Base /\ [Next]_vars => Base'
<1> SUFFICES ASSUME Base, [Next]_vars PROVE Base'
  OBVIOUS
<1>1. CASE UNCHANGED vars
  BY <1>1 DEF vars, host, task, connection, daemon, store, Base, Types, OwnBearers, BearerIsOwn
<1>2. CASE Next
  BY <1>2, BaseHost, BaseTask, BaseSend, BaseStoreStep, BaseReceive, BaseVerifyEnds, BaseRestart
  DEF Next, TaskStep
<1> QED
  BY <1>1, <1>2

THEOREM BaseInvariant == Spec => []Base
BY BaseInit, BaseNext, PTL DEF Spec

-----------------------------------------------------------------------------
(* No caller has two tasks.                                                *)

(* A connection that has ended, but not on the main queue, has no task left. *)
Solitary == OnePerCaller /\ (attempt # "none" => ~Pending("connection"))

LEMMA AppendElements ==
  ASSUME lane \in Seq(Tasks), NEW t \in Tasks, lane' = Append(lane, t)
  PROVE  \A i \in DOMAIN lane' :
           \/ i \in DOMAIN lane /\ lane'[i] = lane[i]
           \/ i = Len(lane) + 1 /\ i \notin DOMAIN lane /\ lane'[i] = t
<1>1. DOMAIN lane' = 1..Len(lane') /\ DOMAIN lane = 1..Len(lane) /\ Len(lane) \in Nat
      /\ Len(lane') = Len(lane) + 1
  BY AppendProperties
<1>2. Append(lane, t)[Len(lane) + 1] = t /\ \A i \in 1..Len(lane) : Append(lane, t)[i] = lane[i]
  BY AppendProperties
<1> QED
  BY <1>1, <1>2

LEMMA AppendDomain ==
  ASSUME lane \in Seq(Tasks), NEW t \in Tasks, lane' = Append(lane, t)
  PROVE  /\ \A i \in DOMAIN lane : i \in DOMAIN lane' /\ lane'[i] = lane[i]
         /\ Len(lane) + 1 \in DOMAIN lane' /\ lane'[Len(lane) + 1] = t
<1>1. DOMAIN Append(lane, t) = 1..Len(lane) + 1 /\ DOMAIN lane = 1..Len(lane) /\ Len(lane) \in Nat
  BY AppendProperties
<1>2. Append(lane, t)[Len(lane) + 1] = t /\ \A i \in 1..Len(lane) : Append(lane, t)[i] = lane[i]
  BY AppendProperties
<1> QED
  BY <1>1, <1>2

LEMMA TailElements ==
  ASSUME lane \in Seq(Tasks), lane # <<>>, lane' = Tail(lane)
  PROVE  /\ \A i \in DOMAIN lane' : i + 1 \in DOMAIN lane /\ i + 1 # 1 /\ lane'[i] = lane[i + 1]
         /\ \A i \in DOMAIN lane : i = 1 \/ (i - 1 \in DOMAIN lane' /\ lane'[i - 1] = lane[i])
         /\ 1 \in DOMAIN lane /\ Head(lane) = lane[1]
         /\ DOMAIN lane \subseteq Int /\ DOMAIN lane' \subseteq Int
<1>1. DOMAIN lane = 1..Len(lane) /\ Len(lane) \in Nat \ {0} /\ Head(lane) = lane[1]
  BY EmptySeq
<1>2. Len(Tail(lane)) = Len(lane) - 1 /\ DOMAIN Tail(lane) = 1..Len(Tail(lane))
      /\ \A i \in 1..Len(Tail(lane)) : Tail(lane)[i] = lane[i + 1]
  BY HeadTailProperties
<1> QED
  BY <1>1, <1>2

(* A task of a caller who has none joins the relay queue. *)
LEMMA SolitaryAppend ==
  ASSUME lane \in Seq(Tasks), NEW t \in Tasks, lane' = Append(lane, t), UNCHANGED calls
  PROVE  /\ \A who : Pending(who)' <=> Pending(who) \/ who = t.who
         /\ ~Pending(t.who) /\ OnePerCaller =>
              /\ \A i, k \in DOMAIN lane' : lane'[i].who = lane'[k].who => i = k
              /\ \A c \in calls', i \in DOMAIN lane' : c.who # lane'[i].who
<1>1. ASSUME NEW who PROVE Pending(who)' <=> Pending(who) \/ who = t.who
  BY AppendElements, AppendDomain DEF Pending
<1>2. ASSUME ~Pending(t.who), OnePerCaller
      PROVE  /\ \A i, k \in DOMAIN lane' : lane'[i].who = lane'[k].who => i = k
             /\ \A c \in calls', i \in DOMAIN lane' : c.who # lane'[i].who
  BY <1>2, AppendElements DEF Pending, OnePerCaller
<1> QED
  BY <1>1, <1>2

LEMMA SolitaryInit == Init => Solitary
<1> SUFFICES ASSUME Init PROVE Solitary
  OBVIOUS
<1>1. lane = <<>> /\ DOMAIN <<>> = {} /\ calls = {} /\ ~connecting /\ attempt = "none"
      /\ refreshing = "no"
  BY DEF Init
<1> QED
  BY <1>1 DEF Solitary, OnePerCaller, Pending

LEMMA SolitaryKept ==
  ASSUME Solitary,
         UNCHANGED <<calls, lane, connecting, connectionID, attempt, refreshing>>
  PROVE  Solitary'
BY DEF Solitary, OnePerCaller, Pending

LEMMA SolitaryRefresh ==
  ASSUME Solitary, lane \in Seq(Tasks), Refresh,
         UNCHANGED <<calls, connecting, attempt>>,
         connecting => UNCHANGED connectionID
  PROVE  Solitary'
<1>1. CASE UNCHANGED <<refreshing, lane>>
  BY <1>1 DEF Solitary, OnePerCaller, Pending
<1> DEFINE t == Task("timer", NoIdentity)
<1>2. CASE refreshing = "no" /\ refreshing' = "yes" /\ lane' = Append(lane, t)
  <2>1. t \in Tasks /\ t.who = "timer"
    BY DEF Task, Tasks, Callers
  <2> HIDE DEF t
  <2>2. ~Pending("timer")
    BY <1>2 DEF Solitary, OnePerCaller
  <2>3. /\ \A who : Pending(who)' <=> Pending(who) \/ who = "timer"
        /\ \A i, k \in DOMAIN lane' : lane'[i].who = lane'[k].who => i = k
        /\ \A c \in calls', i \in DOMAIN lane' : c.who # lane'[i].who
    BY <1>2, <2>1, <2>2, SolitaryAppend DEF Solitary
  <2>4. "timer" # "connection"
    OBVIOUS
  <2> QED
    BY <1>2, <2>2, <2>3, <2>4 DEF Solitary, OnePerCaller
<1> QED
  BY <1>1, <1>2 DEF Refresh

(* A caller without a task makes one for a thread of its own. *)
LEMMA SolitaryCalls ==
  ASSUME Solitary, NEW t, calls' = calls \cup {t}, UNCHANGED lane, ~Pending(t.who)
  PROVE  /\ \A who : Pending(who)' <=> Pending(who) \/ who = t.who
         /\ \A c, d \in calls' : c.who = d.who => c = d
         /\ \A i, k \in DOMAIN lane' : lane'[i].who = lane'[k].who => i = k
         /\ \A c \in calls', i \in DOMAIN lane' : c.who # lane'[i].who
BY DEF Solitary, OnePerCaller, Pending

LEMMA SolitaryHost ==
  ASSUME Base, Solitary,
         \/ AccountChanges \/ RefreshTick \/ LoseAccount
         \/ \E foreground \in BOOLEAN : Connect(foreground)
         \/ Reconnect \/ ConnectEnds \/ RefreshEnds
         \/ \E who \in Callers : Call(who)
  PROVE  Solitary'
<1>0. lane \in Seq(Tasks) /\ calls \subseteq Tasks
  BY DEF Base, Types
<1>1. CASE AccountChanges
  BY <1>1, SolitaryKept DEF AccountChanges, task, connection
<1>2. CASE RefreshTick
  BY <1>0, <1>2, SolitaryRefresh DEF RefreshTick, connection
<1>3. CASE LoseAccount
  <2>1. ~connecting /\ UNCHANGED <<calls, connecting, attempt>>
        /\ (Refresh \/ UNCHANGED <<refreshing, lane>>)
    BY <1>3 DEF LoseAccount, MayConnect
  <2>2. CASE Refresh
    BY <1>0, <2>1, <2>2, SolitaryRefresh
  <2>3. CASE UNCHANGED <<refreshing, lane>>
    BY <2>1, <2>3 DEF Solitary, OnePerCaller, Pending
  <2> QED
    BY <2>1, <2>2, <2>3
<1>4. CASE \E foreground \in BOOLEAN : Connect(foreground)
  <2> DEFINE t == Task("connection", viewing)
  <2>1. /\ ~connecting /\ connecting' = TRUE /\ connectionID' # NoIdentity
        /\ calls' = calls \cup {t} /\ UNCHANGED <<lane, attempt, refreshing>>
    BY <1>4 DEF Connect, MayConnect, task
  <2>2. t.who = "connection"
    BY DEF Task
  <2> HIDE DEF t
  <2>3. ~Pending("connection") /\ attempt = "none"
    BY <2>1 DEF Solitary, OnePerCaller
  <2>4. /\ \A who : Pending(who)' <=> Pending(who) \/ who = "connection"
        /\ \A c, d \in calls' : c.who = d.who => c = d
        /\ \A i, k \in DOMAIN lane' : lane'[i].who = lane'[k].who => i = k
        /\ \A c \in calls', i \in DOMAIN lane' : c.who # lane'[i].who
    BY <2>1, <2>2, <2>3, SolitaryCalls
  <2>5. "timer" # "connection"
    OBVIOUS
  <2> QED
    BY <2>1, <2>3, <2>4, <2>5 DEF Solitary, OnePerCaller
<1>5. CASE Reconnect
  <2> DEFINE t == Task("panel", viewing)
  <2>1. ~Pending("panel") /\ calls' = calls \cup {t}
        /\ UNCHANGED <<lane, connecting, connectionID, attempt, refreshing>>
    BY <1>5 DEF Reconnect, task, connection
  <2>2. t.who = "panel"
    BY DEF Task
  <2> HIDE DEF t
  <2>3. /\ \A who : Pending(who)' <=> Pending(who) \/ who = "panel"
        /\ \A c, d \in calls' : c.who = d.who => c = d
        /\ \A i, k \in DOMAIN lane' : lane'[i].who = lane'[k].who => i = k
        /\ \A c \in calls', i \in DOMAIN lane' : c.who # lane'[i].who
    BY <2>1, <2>2, SolitaryCalls
  <2>4. "panel" # "connection" /\ "panel" # "timer"
    OBVIOUS
  <2> QED
    BY <2>1, <2>3, <2>4 DEF Solitary, OnePerCaller
<1>6. CASE ConnectEnds
  <2>1. attempt # "none" /\ attempt' = "none" /\ connecting' = FALSE
        /\ UNCHANGED <<calls, lane, refreshing>>
    BY <1>6 DEF ConnectEnds, task
  <2> QED
    BY <2>1 DEF Solitary, OnePerCaller, Pending
<1>7. CASE RefreshEnds
  <2>1. refreshing = "over" /\ refreshing' = "no"
        /\ UNCHANGED <<calls, lane, connecting, connectionID, attempt>>
    BY <1>7 DEF RefreshEnds, task, connection
  <2> QED
    BY <2>1 DEF Solitary, OnePerCaller, Pending
<1>8. CASE \E who \in Callers : Call(who)
  <2>1. PICK t \in calls : calls' = calls \ {t} /\ lane' = Append(lane, t)
                          /\ UNCHANGED <<connecting, connectionID, attempt, refreshing>>
    BY <1>8 DEF Call, connection
  <2>2. t \in Tasks
    BY <1>0, <2>1
  <2>3. \A c \in calls \ {t} : c.who # t.who
    BY <2>1 DEF Solitary, OnePerCaller
  <2>4. \A i \in DOMAIN lane : t.who # lane[i].who
    BY <2>1 DEF Solitary, OnePerCaller
  <2>5. \A who : Pending(who)' <=> Pending(who)
    BY <1>0, <2>1, <2>2, AppendElements, AppendDomain DEF Pending
  <2>6. \A i, k \in DOMAIN lane' : lane'[i].who = lane'[k].who => i = k
    BY <1>0, <2>1, <2>2, <2>4, AppendElements DEF Solitary, OnePerCaller
  <2>7. \A c \in calls', i \in DOMAIN lane' : c.who # lane'[i].who
    BY <1>0, <2>1, <2>2, <2>3, AppendElements DEF Solitary, OnePerCaller
  <2> QED
    BY <2>1, <2>5, <2>6, <2>7 DEF Solitary, OnePerCaller
<1> QED
  BY <1>1, <1>2, <1>3, <1>4, <1>5, <1>6, <1>7, <1>8

LEMMA SolitaryRest ==
  ASSUME Base, Solitary,
         \/ TaskStep \/ FetchEnds \/ Receive \/ VerifyEnds \/ DaemonRestarts \/ HostRestarts
         \/ UNCHANGED host
  PROVE  Solitary'
<1>0. lane \in Seq(Tasks) /\ (step # "idle" => lane # <<>>) /\ viewing \in Identities \cup {NoIdentity}
  BY DEF Base, Types
<1>1. CASE Take \/ Ask \/ Asked \/ FetchBegins \/ FetchTimesOut \/ FetchEnds \/ SendBearer
           \/ SendClear \/ Answered \/ Abandon
  <2>1. UNCHANGED <<calls, lane, connecting, connectionID, attempt, refreshing>>
    BY <1>1 DEF Take, Ask, Asked, FetchBegins, FetchTimesOut, FetchEnds, SendBearer, SendClear,
                Answered, Abandon, Request, elsewhere, connection
  <2> QED
    BY <2>1, SolitaryKept
<1>2. CASE Receive \/ VerifyEnds \/ DaemonRestarts
  BY <1>2, SolitaryKept DEF Receive, VerifyEnds, DaemonRestarts, connection
<1>3. CASE UNCHANGED host
  BY <1>3, SolitaryKept DEF host, task, connection
<1>4. CASE HostRestarts
  <2>1. lane' = <<>> /\ DOMAIN <<>> = {} /\ calls' = {} /\ ~connecting' /\ attempt' = "none"
        /\ refreshing' = "no"
    BY <1>4 DEF HostRestarts
  <2> QED
    BY <2>1 DEF Solitary, OnePerCaller, Pending
<1>5. CASE ReadAccount
  <2>1. /\ UNCHANGED <<calls, connecting, connectionID, attempt, refreshing>>
        /\ lane # <<>> /\ lane' = [lane EXCEPT ![1].id = viewing]
    BY <1>0, <1>5 DEF ReadAccount, elsewhere, connection
  <2>2. DOMAIN lane' = DOMAIN lane /\ \A i \in DOMAIN lane : lane'[i].who = lane[i].who
    BY <1>0, <2>1, SetTask
  <2> QED
    BY <2>1, <2>2 DEF Solitary, OnePerCaller, Pending
<1>6. CASE Return
  <2>0. PICK who : who = Head(lane).who
    OBVIOUS
  <2>1. /\ lane # <<>> /\ lane' = Tail(lane) /\ UNCHANGED <<calls, connecting, connectionID>>
        /\ IF who = "connection" THEN attempt' # "none" ELSE UNCHANGED attempt
        /\ refreshing' = IF who = "timer" THEN "over" ELSE refreshing
    BY <1>0, <1>6, <2>0 DEF Return
  <2>2. \A i \in DOMAIN lane' : lane'[i].who # who
    BY <1>0, <2>0, <2>1, TailElements DEF Solitary, OnePerCaller
  <2>3. \A c \in calls : c.who # who
    BY <1>0, <2>0, <2>1, TailElements DEF Solitary, OnePerCaller
  <2>4. Pending(who) /\ ~Pending(who)'
    BY <1>0, <2>0, <2>1, <2>2, <2>3, TailElements DEF Pending
  <2>5. \A w : w # who => (Pending(w)' <=> Pending(w))
    <3>1. /\ \A i \in DOMAIN lane' : i + 1 \in DOMAIN lane /\ lane'[i] = lane[i + 1]
          /\ \A i \in DOMAIN lane :
               lane[i].who = who \/ (i - 1 \in DOMAIN lane' /\ lane'[i - 1] = lane[i])
      BY <1>0, <2>0, <2>1, TailElements
    <3> QED
      BY <2>1, <3>1 DEF Pending
  <2>6. \A i, k \in DOMAIN lane' : lane'[i].who = lane'[k].who => i = k
    <3> SUFFICES ASSUME NEW i \in DOMAIN lane', NEW k \in DOMAIN lane', lane'[i].who = lane'[k].who
        PROVE  i = k
      OBVIOUS
    <3>1. i + 1 = k + 1
      BY <1>0, <2>1, TailElements DEF Solitary, OnePerCaller
    <3>2. i \in Int /\ k \in Int
      BY <1>0, <2>1, TailElements
    <3> QED
      BY <3>1, <3>2
  <2>7. \A c \in calls', i \in DOMAIN lane' : c.who # lane'[i].who
    BY <1>0, <2>1, TailElements DEF Solitary, OnePerCaller
  <2>8. "timer" # "connection"
    OBVIOUS
  <2> QED
    BY <2>1, <2>4, <2>5, <2>6, <2>7, <2>8 DEF Solitary, OnePerCaller
<1> QED
  BY <1>1, <1>2, <1>3, <1>4, <1>5, <1>6 DEF TaskStep

LEMMA SolitaryNext == Base /\ Solitary /\ [Next]_vars => Solitary'
<1> SUFFICES ASSUME Base, Solitary, [Next]_vars PROVE Solitary'
  OBVIOUS
<1>1. CASE UNCHANGED vars
  BY <1>1, SolitaryRest DEF vars
<1>2. CASE Next
  BY <1>2, SolitaryHost, SolitaryRest DEF Next
<1> QED
  BY <1>1, <1>2

THEOREM SolitaryInvariant == Spec => []Solitary
<1>1. Base /\ Solitary /\ Base' /\ [Next]_vars => Solitary'
  BY SolitaryNext
<1> QED
  BY <1>1, SolitaryInit, BaseInvariant, PTL DEF Spec

(* Every variable keeps its type, and no caller waits for two tasks at once. *)
THEOREM RelayTypeCorrect == Spec => []RelayTypeOK
<1>1. Base /\ Solitary => RelayTypeOK
  BY DEF Base, Solitary, RelayTypeOK
<1> QED
  BY <1>1, BaseInvariant, SolitaryInvariant, PTL

(* A bearer is only ever used for the account it was made for. *)
THEOREM BearersAreOwn == Spec => []BearerIsOwn
<1>1. Base => BearerIsOwn
  BY DEF Base, OwnBearers
<1> QED
  BY <1>1, BaseInvariant, PTL

-----------------------------------------------------------------------------
(* Accounts with unfinished jobs.                                          *)

(* Memory and file agree unless a save failed after its rename. *)
KeepsAccounts ==
  doubtful \/ (stored = accounts /\ \A e \in jobs : accounts.bound[e] # Absent)

LEMMA SaveKeepsAccounts ==
  ASSUME Base, KeepsAccounts, UNCHANGED jobs, NEW next \in AccountRecords,
         \A e \in jobs : accounts.bound[e] # Absent => next.bound[e] # Absent,
         Saved(next) \/ NotSaved(next)
  PROVE  KeepsAccounts'
BY DEF KeepsAccounts, Saved, NotSaved

LEMMA UpsertKeepsAccounts ==
  ASSUME Base, KeepsAccounts, UNCHANGED jobs,
         NEW email \in Emails, NEW credential \in Credentials \ {Absent},
         NEW next \in Upserted(email, credential), Saved(next) \/ NotSaved(next)
  PROVE  KeepsAccounts'
<1>1. next \in AccountRecords
  BY UpsertedType DEF Base, Types
<1>2. next.bound = [accounts.bound EXCEPT ![email] = credential]
  BY DEF Upserted
<1>3. \A e \in jobs : accounts.bound[e] # Absent => next.bound[e] # Absent
  BY <1>2 DEF Base, Types, AccountRecords
<1> QED
  BY <1>1, <1>3, SaveKeepsAccounts

LEMMA KeepsAccountsNext == Base /\ KeepsAccounts /\ [Next]_vars => KeepsAccounts'
<1> SUFFICES ASSUME Base, KeepsAccounts, [Next]_vars PROVE KeepsAccounts'
  OBVIOUS
<1>0. ASSUME UNCHANGED <<accounts, stored, doubtful, jobs>> PROVE KeepsAccounts'
  BY <1>0 DEF KeepsAccounts
<1>1. CASE UNCHANGED vars
  BY <1>0, <1>1 DEF vars, daemon, store
<1>2. ASSUME NEW e \in UsedEmails, AddAccount(e) PROVE KeepsAccounts'
  <2>1. e \in Emails /\ Legacy \in Credentials \ {Absent}
    BY AccountAssumption DEF AccountAssumption, Credentials
  <2> QED
    BY <1>2, <2>1, UpsertKeepsAccounts DEF AddAccount
<1>3. ASSUME NEW e \in UsedEmails, SelectAccount(e) PROVE KeepsAccounts'
  <2> DEFINE next == [accounts EXCEPT !.selected = e]
  <2>1. next \in AccountRecords /\ next.bound = accounts.bound
    BY AccountAssumption DEF Base, Types, AccountRecords, AccountAssumption
  <2>2. (Saved(next) \/ NotSaved(next)) /\ UNCHANGED jobs
    BY <1>3 DEF SelectAccount
  <2> QED
    BY <2>1, <2>2, SaveKeepsAccounts
<1>4. ASSUME NEW e \in UsedEmails, RemoveAccount(e) PROVE KeepsAccounts'
  <2> DEFINE next == [bound |-> [accounts.bound EXCEPT ![e] = Absent],
                      selected |-> IF accounts.selected = e THEN NoEmail
                                                            ELSE accounts.selected]
  <2>1. next \in AccountRecords
    BY AccountAssumption DEF Base, Types, AccountRecords, Credentials, AccountAssumption
  <2>2. e \notin jobs /\ UNCHANGED jobs /\ (Saved(next) \/ NotSaved(next))
    BY <1>4 DEF RemoveAccount, Removable
  <2>3. \A d \in jobs : accounts.bound[d] # Absent => next.bound[d] # Absent
    BY <2>2 DEF Base, Types, AccountRecords
  <2> QED
    BY <2>1, <2>2, <2>3, SaveKeepsAccounts
<1>5. ASSUME NEW e \in UsedEmails, BeginJob(e) \/ EndJob(e) PROVE KeepsAccounts'
  BY <1>5 DEF BeginJob, EndJob, KeepsAccounts, store
<1>6. ASSUME (\E id \in Identities : UseBearer(id)) \/ BearerExpires PROVE KeepsAccounts'
  BY <1>0, <1>6 DEF UseBearer, BearerExpires, store
<1>7. CASE StoreStep
  BY <1>2, <1>3, <1>4, <1>5, <1>6, <1>7 DEF StoreStep
<1>8. CASE Receive
  BY <1>0, <1>8 DEF Receive, TryBearer, daemon, store
<1>9. CASE VerifyEnds
  <2> DEFINE id == Head(port).id
  <2>1. verifying /\ UNCHANGED jobs
    BY <1>9 DEF VerifyEnds, BearerAccepted, BearerRefused
  <2>2. id \in Identities
    BY <2>1, TailPort DEF Base, Types, OwnBearers
  <2>3. Email[id] \in Emails /\ id \in Credentials \ {Absent}
    BY <2>2, AccountAssumption DEF AccountAssumption, Credentials
  <2>4. \/ \E next \in Upserted(Email[id], id) : Saved(next) \/ NotSaved(next)
        \/ UNCHANGED store
    BY <1>9 DEF VerifyEnds, BearerAccepted, BearerRefused
  <2> HIDE DEF id
  <2>5. CASE UNCHANGED store
    BY <1>0, <2>1, <2>5 DEF store
  <2> QED
    BY <2>1, <2>3, <2>4, <2>5, UpsertKeepsAccounts
<1>10. CASE DaemonRestarts
  BY <1>10 DEF DaemonRestarts, Reloaded, KeepsAccounts
<1>11. ASSUME UNCHANGED daemon PROVE KeepsAccounts'
  BY <1>0, <1>11 DEF daemon, store
<1>12. CASE Next
  BY <1>7, <1>8, <1>9, <1>10, <1>11, <1>12
  DEF Next, TaskStep, AccountChanges, RefreshTick, LoseAccount, Connect, Reconnect, ConnectEnds,
      RefreshEnds, Call, Take, ReadAccount, Ask, Asked, FetchBegins, FetchTimesOut, FetchEnds,
      SendBearer, SendClear, Answered, Abandon, Return, HostRestarts, Request, elsewhere
<1> QED
  BY <1>1, <1>12

(* An account with unfinished jobs keeps its credential, restarts included,  *)
(* unless a save of credentials.json has failed after its rename.            *)
THEOREM AccountsOutliveJobs == Spec => []JobsKeepAccounts
<1>1. Init => KeepsAccounts
  BY DEF Init, StoreInit, KeepsAccounts
<1>2. Base /\ KeepsAccounts /\ [Next]_vars => KeepsAccounts'
  BY KeepsAccountsNext
<1>3. KeepsAccounts => JobsKeepAccounts
  BY DEF KeepsAccounts, JobsKeepAccounts
<1> QED
  BY <1>1, <1>2, <1>3, BaseInvariant, PTL DEF Spec

-----------------------------------------------------------------------------
(* What "ok" tells a connection.                                           *)

(* The tasks of a connection are for its identity. *)
ForConnection ==
  /\ \A c \in calls : c.who = "connection" => c.id = connectionID
  /\ \A i \in DOMAIN lane : lane[i].who = "connection" => lane[i].id = connectionID
  /\ step \in {"reading", "asking", "asked"} => Head(lane).who = "timer"

(* At most one message is waited for, and it is that of the running task. *)
OneAwaited ==
  /\ \A i \in DOMAIN port : port[i].awaited =>
       /\ step \in Waiting /\ answer = "none"
       /\ step = "sent" /\ Head(lane).who # "timer" =>
            port[i].op = "account_native" /\ port[i].id = Head(lane).id
       /\ \A k \in DOMAIN port : port[k].awaited => i = k
  /\ step \notin Waiting \cup {"returning"} => answer = "none"

OkIsBound ==
  /\ step \in {"sent", "returning"} /\ answer = "ok" /\ Head(lane).who # "timer" =>
       Head(lane).id \in validated
  /\ attempt = "ok" => connectionID \in validated

Told == ForConnection /\ OneAwaited /\ OkIsBound

LEMMA ToldInit == Init => Told
<1> SUFFICES ASSUME Init PROVE Told
  OBVIOUS
<1>1. lane = <<>> /\ port = <<>> /\ DOMAIN <<>> = {} /\ calls = {} /\ step = "idle"
      /\ answer = "none" /\ attempt = "none"
  BY DEF Init
<1> QED
  BY <1>1 DEF Told, ForConnection, OneAwaited, OkIsBound

LEMMA ToldKept ==
  ASSUME Told,
         UNCHANGED <<calls, lane, step, answer, port, connectionID, attempt, validated>>
  PROVE  Told'
BY DEF Told, ForConnection, OneAwaited, OkIsBound

(* The host connects, and tasks join the relay queue. *)
LEMMA ToldHost ==
  ASSUME Base, Solitary, Told,
         \/ AccountChanges \/ RefreshTick \/ LoseAccount
         \/ \E foreground \in BOOLEAN : Connect(foreground)
         \/ Reconnect \/ ConnectEnds \/ RefreshEnds
         \/ \E who \in Callers : Call(who)
  PROVE  Told'
<1>0. lane \in Seq(Tasks) /\ calls \subseteq Tasks /\ (step # "idle" => lane # <<>>)
  BY DEF Base, Types
<1>1. CASE AccountChanges \/ RefreshEnds
  BY <1>1, ToldKept DEF AccountChanges, RefreshEnds, task, connection
(* A task at the end of the lane leaves the running one alone. *)
<1>2. ASSUME NEW t \in Tasks, lane' = Append(lane, t),
             UNCHANGED <<step, answer, port, attempt, validated>>,
             t.who = "connection" => t.id = connectionID',
             \A c \in calls' : c.who = "connection" => c.id = connectionID',
             \A i \in DOMAIN lane : lane[i].who = "connection" => lane[i].id = connectionID',
             attempt # "ok" \/ UNCHANGED connectionID
      PROVE  Told'
  <2>1. step # "idle" => Head(lane') = Head(lane)
    BY <1>0, <1>2, AppendTask
  <2>2. \A i \in DOMAIN lane' : lane'[i].who = "connection" => lane'[i].id = connectionID'
    BY <1>0, <1>2, AppendElements
  <2> QED
    BY <1>2, <2>1, <2>2 DEF Told, ForConnection, OneAwaited, OkIsBound, Waiting
<1>3. CASE RefreshTick
  <2> DEFINE t == Task("timer", NoIdentity)
  <2>1. t \in Tasks /\ t.who # "connection"
    BY DEF Task, Tasks, Callers
  <2>2. /\ lane' = Append(lane, t)
        /\ UNCHANGED <<calls, step, answer, port, attempt, connectionID, validated>>
    BY <1>3 DEF RefreshTick, Refresh, connection
  <2> HIDE DEF t
  <2> QED
    BY <1>2, <2>1, <2>2 DEF Told, ForConnection
<1>4. CASE LoseAccount
  <2> DEFINE t == Task("timer", NoIdentity)
  <2>1. t \in Tasks /\ t.who # "connection"
    BY DEF Task, Tasks, Callers
  <2>2. /\ ~connecting /\ UNCHANGED <<calls, step, answer, port, attempt, validated>>
        /\ (UNCHANGED lane \/ lane' = Append(lane, t))
    BY <1>4 DEF LoseAccount, MayConnect, Refresh
  <2> HIDE DEF t
  <2>3. attempt = "none" /\ ~Pending("connection")
    BY <2>2 DEF Solitary, OnePerCaller
  <2>4. /\ \A c \in calls : c.who # "connection"
        /\ \A i \in DOMAIN lane : lane[i].who # "connection"
    BY <2>3 DEF Pending
  <2>5. CASE UNCHANGED lane
    BY <2>2, <2>3, <2>4, <2>5 DEF Told, ForConnection, OneAwaited, OkIsBound
  <2> QED
    BY <1>2, <2>1, <2>2, <2>3, <2>4, <2>5
<1>5. CASE \E foreground \in BOOLEAN : Connect(foreground)
  <2>1. /\ ~connecting /\ connectionID' = viewing
        /\ calls' = calls \cup {Task("connection", viewing)}
        /\ UNCHANGED <<lane, step, answer, port, attempt, validated>>
    BY <1>5 DEF Connect, MayConnect, task
  <2>2. attempt = "none" /\ ~Pending("connection")
    BY <2>1 DEF Solitary, OnePerCaller
  <2>3. /\ \A c \in calls' : c.who = "connection" => c.id = connectionID'
        /\ \A i \in DOMAIN lane : lane[i].who # "connection"
    BY <2>1, <2>2 DEF Pending, Task
  <2> QED
    BY <2>1, <2>2, <2>3 DEF Told, ForConnection, OneAwaited, OkIsBound
<1>6. CASE Reconnect
  <2>1. calls' = calls \cup {Task("panel", viewing)}
        /\ UNCHANGED <<lane, step, answer, port, connectionID, attempt, validated>>
    BY <1>6 DEF Reconnect, task, connection
  <2>2. Task("panel", viewing).who # "connection"
    BY DEF Task
  <2> QED
    BY <2>1, <2>2 DEF Told, ForConnection, OneAwaited, OkIsBound
<1>7. CASE ConnectEnds
  <2>1. attempt # "none" /\ attempt' = "none"
        /\ UNCHANGED <<calls, lane, step, answer, port, validated>>
    BY <1>7 DEF ConnectEnds, task
  <2>2. /\ \A c \in calls : c.who # "connection"
        /\ \A i \in DOMAIN lane : lane[i].who # "connection"
    BY <2>1 DEF Solitary, Pending
  <2> QED
    BY <2>1, <2>2 DEF Told, ForConnection, OneAwaited, OkIsBound
<1>8. CASE \E who \in Callers : Call(who)
  <2>1. PICK t \in calls :
          /\ calls' = calls \ {t} /\ lane' = Append(lane, t)
          /\ UNCHANGED <<step, answer, port, connectionID, attempt, validated>>
    BY <1>8 DEF Call, connection
  <2> QED
    BY <1>0, <1>2, <2>1 DEF Told, ForConnection
<1> QED
  BY <1>1, <1>3, <1>4, <1>5, <1>6, <1>7, <1>8

LEMMA ToldTask ==
  ASSUME Base, Solitary, Told,
         Take \/ ReadAccount \/ Asked \/ FetchBegins \/ FetchTimesOut \/ FetchEnds \/ Answered
         \/ Return \/ Abandon
  PROVE  Told'
<1>0. /\ lane \in Seq(Tasks) /\ port \in Seq(Messages) /\ (step # "idle" => lane # <<>>)
      /\ answer \in {"none", "ok", "other", "failed"}
      /\ viewing \in Identities \cup {NoIdentity}
  BY DEF Base, Types
(* Steps to where nothing is waited for, with the lane as it is. *)
<1>1. ASSUME UNCHANGED <<calls, connectionID, validated, lane, port, attempt>>,
             answer' = "none", step' \notin Waiting,
             \A i \in DOMAIN port : ~port[i].awaited,
             step' \in {"reading", "asking", "asked"} => Head(lane).who = "timer"
      PROVE  Told'
  BY <1>1 DEF Told, ForConnection, OneAwaited, OkIsBound
<1>2. CASE Take \/ FetchBegins \/ FetchTimesOut \/ FetchEnds
  <2>1. /\ UNCHANGED <<calls, connectionID, validated, lane, port, attempt, answer>>
        /\ step \notin Waiting \cup {"returning"} /\ step' \notin Waiting
        /\ step' \in {"reading", "asking", "asked"} => Head(lane).who = "timer"
    BY <1>2 DEF Take, FetchBegins, FetchTimesOut, FetchEnds, Goto, elsewhere, connection, Waiting
  <2> QED
    BY <1>1, <2>1 DEF Told, OneAwaited
<1>3. CASE Asked
  <2>1. /\ UNCHANGED <<calls, connectionID, validated, lane, port, attempt>>
        /\ step = "asked" /\ answer # "none" /\ answer' = "none"
        /\ step' \in {"fetching", "clearing", "returning"}
    BY <1>0, <1>3 DEF Asked, Mismatch, Goto, elsewhere, connection
  <2> QED
    BY <1>1, <2>1 DEF Told, OneAwaited, Waiting
<1>4. CASE ReadAccount
  <2>1. /\ UNCHANGED <<calls, connectionID, validated, port, attempt, answer>>
        /\ step = "reading" /\ step' = "asking" /\ lane # <<>>
        /\ lane' = [lane EXCEPT ![1].id = viewing]
    BY <1>0, <1>4 DEF ReadAccount, Goto, elsewhere, connection
  <2>2. /\ lane' # <<>> /\ DOMAIN lane' = DOMAIN lane
        /\ \A i \in DOMAIN lane : lane'[i].who = lane[i].who /\ (i # 1 => lane'[i] = lane[i])
    BY <1>0, <2>1, SetTask
  <2>3. lane' \in Seq(Tasks)
    BY <1>0, <2>1, SetTask
  <2>4. 1 \in DOMAIN lane /\ Head(lane) = lane[1] /\ Head(lane') = lane'[1]
    BY <1>0, <2>1, <2>2, <2>3
  <2>5. lane[1].who = "timer" /\ lane'[1].who = "timer"
    BY <2>1, <2>2, <2>4 DEF Told, ForConnection
  <2>6. \A i \in DOMAIN lane' : lane'[i].who = "connection" => lane'[i].id = connectionID'
    BY <2>1, <2>2, <2>5 DEF Told, ForConnection
  <2> QED
    BY <2>1, <2>4, <2>5, <2>6 DEF Told, ForConnection, OneAwaited, OkIsBound, Waiting
<1>5. CASE Answered
  <2>1. /\ UNCHANGED <<calls, connectionID, validated, lane, port, attempt>>
        /\ step \in {"sent", "cleared"} /\ answer # "none" /\ step' = "returning"
        /\ answer' = IF step = "sent" THEN answer ELSE "failed"
    BY <1>5 DEF Answered, Goto, elsewhere, connection
  <2>2. \A i \in DOMAIN port : ~port[i].awaited
    BY <2>1 DEF Told, OneAwaited
  <2> QED
    BY <2>1, <2>2 DEF Told, ForConnection, OneAwaited, OkIsBound, Waiting
<1>6. CASE Abandon
  <2>1. /\ UNCHANGED <<calls, connectionID, validated, lane, step, attempt>>
        /\ step \in Waiting /\ answer' = "failed" /\ port' = Unawaited
    BY <1>6 DEF Abandon, elsewhere, connection
  <2>2. \A i \in DOMAIN port' : ~port'[i].awaited
    BY <1>0, <2>1, UnawaitedPort
  <2> QED
    BY <2>1, <2>2 DEF Told, ForConnection, OneAwaited, OkIsBound
<1>7. CASE Return
  <2>1. /\ UNCHANGED <<calls, connectionID, validated, port>>
        /\ step = "returning" /\ step' = "idle" /\ answer' = "none"
        /\ lane # <<>> /\ lane' = Tail(lane)
        /\ attempt' = IF Head(lane).who = "connection"
                      THEN (IF answer = "ok" THEN "ok" ELSE "failed") ELSE attempt
    BY <1>0, <1>7 DEF Return, Goto
  <2>2. \A i \in DOMAIN lane' : lane'[i].who = "connection" => lane'[i].id = connectionID'
    BY <1>0, <2>1, TailElements DEF Told, ForConnection
  <2>3. \A i \in DOMAIN port : ~port[i].awaited
    BY <2>1 DEF Told, OneAwaited, Waiting
  <2>4. attempt' = "ok" => connectionID' \in validated'
    <3>1. CASE Head(lane).who = "connection" /\ answer = "ok"
      <4>1. Head(lane).id = connectionID
        BY <1>0, <2>1, <3>1, TailElements DEF Told, ForConnection
      <4>2. Head(lane).id \in validated
        BY <2>1, <3>1 DEF Told, OkIsBound
      <4> QED
        BY <2>1, <4>1, <4>2
    <3>2. CASE ~(Head(lane).who = "connection" /\ answer = "ok")
      BY <2>1, <3>2 DEF Told, OkIsBound
    <3> QED
      BY <3>1, <3>2
  <2> QED
    BY <2>1, <2>2, <2>3, <2>4 DEF Told, ForConnection, OneAwaited, OkIsBound
<1> QED
  BY <1>2, <1>3, <1>4, <1>5, <1>6, <1>7

LEMMA ToldSend ==
  ASSUME Base, Told, Ask \/ SendBearer \/ SendClear
  PROVE  Told'
<1>0. lane # <<>> /\ port \in Seq(Messages) /\ bearer \in Identities \cup {NoIdentity}
      /\ lane \in Seq(Tasks) /\ answer = "none" /\ step \notin Waiting
  BY DEF Base, Types, Told, OneAwaited, Ask, SendBearer, SendClear, Waiting
<1>1. PICK op \in Operations, next \in Waiting :
        /\ Request(op, next)
        /\ next = "sent" /\ Head(lane).who # "timer" => op = "account_native"
        /\ next = "asked" => step = "asking"
  BY DEF Ask, SendBearer, SendClear, Operations, Waiting
<1> DEFINE m == [op |-> op, id |-> Head(lane).id, owner |-> bearer, awaited |-> TRUE]
<1>2. m \in Messages /\ m.op = op /\ m.id = Head(lane).id
  BY <1>0, <1>1, HeadTask DEF Messages, Tasks
<1>3. /\ UNCHANGED <<calls, lane, connectionID, validated, attempt>> /\ step' = next
      /\ \/ answer' = "none" /\ port' = Append(port, m)
         \/ answer' = "failed" /\ UNCHANGED port
  BY <1>0, <1>1 DEF Request, Goto, elsewhere, connection
<1> HIDE DEF m
<1>4. \A i \in DOMAIN port : ~port[i].awaited
  BY <1>0 DEF Told, OneAwaited
<1>5. ForConnection'
  BY <1>1, <1>3 DEF Told, ForConnection, Waiting
<1>6. OkIsBound'
  BY <1>3 DEF Told, OkIsBound
<1>7. CASE answer' = "failed" /\ UNCHANGED port
  BY <1>1, <1>3, <1>4, <1>5, <1>6, <1>7 DEF Told, OneAwaited
<1>8. CASE answer' = "none" /\ port' = Append(port, m)
  <2>1. /\ DOMAIN port' = 1..Len(port) + 1 /\ DOMAIN port = 1..Len(port) /\ Len(port) \in Nat
        /\ port'[Len(port) + 1] = m /\ \A i \in 1..Len(port) : port'[i] = port[i]
    BY <1>0, <1>2, <1>8, AppendProperties
  <2>2. \A i \in DOMAIN port' : port'[i].awaited => i = Len(port) + 1
    BY <1>4, <2>1
  <2>3. OneAwaited'
    BY <1>1, <1>2, <1>3, <1>8, <2>1, <2>2 DEF OneAwaited
  <2> QED
    BY <1>5, <1>6, <2>3 DEF Told
<1> QED
  BY <1>3, <1>7, <1>8

LEMMA ToldDaemon ==
  ASSUME Base, Told, Receive \/ VerifyEnds \/ DaemonRestarts \/ HostRestarts
  PROVE  Told'
<1>0. port \in Seq(Messages) /\ answer \in {"none", "ok", "other", "failed"}
  BY DEF Base, Types
<1> DEFINE m == Head(port)
(* A message is answered, if it is waited for, and leaves the port. *)
<1>1. ASSUME port # <<>>, port' = Tail(port),
             UNCHANGED <<calls, lane, step, connectionID, attempt>>, validated \subseteq validated',
             NEW result \in {"ok", "other", "failed"}, Reply(result),
             result = "ok" /\ m.op = "account_native" => m.id \in validated'
      PROVE  Told'
  <2>1. answer' = (IF m.awaited THEN result ELSE answer) /\ m = port[1] /\ 1 \in DOMAIN port
    BY <1>0, <1>1, TailPort DEF Reply
  <2>2. \A i \in DOMAIN Tail(port) : i \in Int /\ i + 1 # 1 /\ i + 1 \in DOMAIN port
                                   /\ Tail(port)[i] = port[i + 1]
    <3>1. DOMAIN Tail(port) = 1..Len(Tail(port)) /\ Len(Tail(port)) \in Nat
      BY <1>0, <1>1, TailPort
    <3> QED
      BY <1>0, <1>1, <3>1, TailPort
  <2>3. ForConnection'
    BY <1>1 DEF Told, ForConnection
  <2>4. OneAwaited'
    <3>1. ASSUME NEW i \in DOMAIN port', port'[i].awaited
          PROVE  /\ step' \in Waiting /\ answer' = "none"
                 /\ step' = "sent" /\ Head(lane').who # "timer" =>
                      port'[i].op = "account_native" /\ port'[i].id = Head(lane').id
                 /\ \A k \in DOMAIN port' : port'[k].awaited => i = k
      <4>1. i + 1 \in DOMAIN port /\ port[i + 1].awaited /\ port'[i] = port[i + 1] /\ i + 1 # 1
        BY <1>1, <2>2, <3>1
      <4>2. ~m.awaited
        BY <2>1, <4>1 DEF Told, OneAwaited
      <4>3. \A k \in DOMAIN port' : port'[k].awaited => i = k
        <5> SUFFICES ASSUME NEW k \in DOMAIN port', port'[k].awaited PROVE i = k
          OBVIOUS
        <5>1. k + 1 \in DOMAIN port /\ port[k + 1].awaited /\ k \in Int /\ i \in Int
          BY <1>1, <2>2
        <5>2. i + 1 = k + 1
          BY <4>1, <5>1 DEF Told, OneAwaited
        <5> QED
          BY <5>1, <5>2
      <4> QED
        BY <1>1, <2>1, <4>1, <4>2, <4>3 DEF Told, OneAwaited
    <3>2. step' \notin Waiting \cup {"returning"} => answer' = "none"
      BY <1>1, <2>1 DEF Told, OneAwaited
    <3> QED
      BY <3>1, <3>2 DEF OneAwaited
  <2>5. OkIsBound'
    <3>1. CASE m.awaited
      <4>1. step \in Waiting /\ (step = "sent" /\ Head(lane).who # "timer" =>
                                    m.op = "account_native" /\ m.id = Head(lane).id)
        BY <2>1, <3>1 DEF Told, OneAwaited
      <4> QED
        BY <1>1, <2>1, <3>1, <4>1 DEF Told, OkIsBound, Waiting
    <3>2. CASE ~m.awaited
      BY <1>1, <2>1, <3>2 DEF Told, OkIsBound
    <3> QED
      BY <3>1, <3>2
  <2> QED
    BY <2>3, <2>4, <2>5 DEF Told
<1>2. CASE Receive
  <2>1. /\ port # <<>> /\ UNCHANGED <<calls, lane, step, connectionID, attempt, validated>>
    BY <1>2 DEF Receive, connection
  <2>2. CASE m.op = "account_native"
    BY <1>2, <2>1, <2>2, ToldKept DEF Receive
  <2>3. CASE m.op # "account_native"
    <3>1. port' = Tail(port) /\ \E result \in {"ok", "other", "failed"} : Reply(result)
      BY <1>2, <2>3 DEF Receive
    <3> QED
      BY <1>1, <2>1, <2>3, <3>1
  <2> QED
    BY <2>2, <2>3
<1>3. CASE VerifyEnds
  <2>1. /\ port # <<>> /\ port' = Tail(port)
        /\ UNCHANGED <<calls, lane, step, connectionID, attempt>>
    BY <1>3 DEF VerifyEnds, connection, Base
  <2>2. CASE validated' = validated \cup {m.id} /\ Reply("ok")
    BY <1>1, <2>1, <2>2
  <2>3. CASE UNCHANGED validated /\ Reply("failed")
    BY <1>1, <2>1, <2>3
  <2> QED
    BY <1>3, <2>2, <2>3 DEF VerifyEnds
<1>4. CASE DaemonRestarts
  <2>1. /\ UNCHANGED <<calls, lane, step, connectionID, attempt, validated>> /\ port' = <<>>
        /\ answer' = IF step \in Waiting /\ answer = "none" THEN "failed" ELSE answer
    BY <1>4 DEF DaemonRestarts, connection
  <2>2. DOMAIN port' = {}
    BY <2>1
  <2> QED
    BY <2>1, <2>2 DEF Told, ForConnection, OneAwaited, OkIsBound
<1>5. CASE HostRestarts
  <2>1. /\ calls' = {} /\ lane' = <<>> /\ step' = "idle" /\ answer' = "none"
        /\ port' = Unawaited /\ attempt' = "none"
    BY <1>5 DEF HostRestarts
  <2>2. DOMAIN lane' = {} /\ \A i \in DOMAIN port' : ~port'[i].awaited
    BY <1>0, <2>1, UnawaitedPort
  <2> QED
    BY <2>1, <2>2 DEF Told, ForConnection, OneAwaited, OkIsBound
<1> QED
  BY <1>2, <1>3, <1>4, <1>5

LEMMA ToldNext == Base /\ Solitary /\ Told /\ [Next]_vars => Told'
<1> SUFFICES ASSUME Base, Solitary, Told, [Next]_vars PROVE Told'
  OBVIOUS
<1>1. CASE UNCHANGED vars
  BY <1>1, ToldKept DEF vars, host, task, connection
<1>2. CASE StoreStep /\ UNCHANGED <<host, port, validated, restarts>>
  BY <1>2, ToldKept DEF host, task, connection
<1>3. CASE Next
  BY <1>2, <1>3, ToldHost, ToldTask, ToldSend, ToldDaemon DEF Next, TaskStep
<1> QED
  BY <1>1, <1>3

THEOREM ToldInvariant == Spec => []Told
<1>1. Base /\ Solitary /\ Told /\ [Next]_vars => Told'
  BY ToldNext
<1> QED
  BY <1>1, ToldInit, BaseInvariant, SolitaryInvariant, PTL DEF Spec

(* The host reports a connection only for the account that is signed in, and *)
(* only once the daemon has bound it.                                        *)
THEOREM ConnectedOnlyCurrent == Spec => ConnectedIsCurrent
<1> DEFINE Current ==
      connected' /\ ~connected => viewing = connectionID' /\ connectionID' \in validated
<1>1. ASSUME Base, Told, [Next]_vars PROVE [Current]_vars
  <2> SUFFICES ASSUME connected', ~connected
      PROVE  viewing = connectionID' /\ connectionID' \in validated
    OBVIOUS
  <2>1. CASE ConnectEnds
    <3>1. StillViewing /\ attempt = "ok" /\ connectionID' = connectionID
      BY <2>1 DEF ConnectEnds
    <3> QED
      BY <1>1, <3>1 DEF StillViewing, Told, OkIsBound
  <2>2. connected' = FALSE \/ UNCHANGED connected \/ ConnectEnds
    <3>1. CASE UNCHANGED vars
      BY <3>1 DEF vars, host, connection
    <3>2. CASE StoreStep /\ UNCHANGED <<host, port, validated, restarts>>
      BY <3>2 DEF host, connection
    <3>3. CASE TaskStep \/ FetchEnds
      BY <3>3 DEF TaskStep, FetchEnds, Take, ReadAccount, Ask, Asked, FetchBegins, FetchTimesOut,
                  SendBearer, SendClear, Answered, Abandon, Return, Request, elsewhere, connection
    <3>4. CASE Receive \/ VerifyEnds \/ DaemonRestarts \/ HostRestarts
      BY <3>4 DEF Receive, VerifyEnds, DaemonRestarts, HostRestarts, connection
    <3>5. CASE \/ AccountChanges \/ RefreshTick \/ LoseAccount
               \/ \E foreground \in BOOLEAN : Connect(foreground)
               \/ Reconnect \/ ConnectEnds \/ RefreshEnds
               \/ \E who \in Callers : Call(who)
      BY <3>5 DEF AccountChanges, RefreshTick, LoseAccount, Connect, Reconnect, RefreshEnds, Call,
                  connection
    <3> QED
      BY <1>1, <3>1, <3>2, <3>3, <3>4, <3>5 DEF Next
  <2> QED
    BY <2>1, <2>2
<1> QED
  BY <1>1, BaseInvariant, ToldInvariant, PTL DEF Spec, ConnectedIsCurrent

-----------------------------------------------------------------------------
(* Waiting for answers.                                                    *)

(* A task waits for an answer exactly as long as its request is still with   *)
(* the daemon, in its port or under verification: no answer is lost by a     *)
(* time-out, a clear or a restart on either side, and none is taken for that *)
(* of a later request (GSRequest, the daemon's loop).                        *)
WaitsAreReal ==
    step \in Waiting /\ answer = "none" <=> \E i \in DOMAIN port : port[i].awaited

LEMMA WaitsKept ==
  ASSUME WaitsAreReal, port' = port,
         \/ UNCHANGED <<step, answer>>
         \/ /\ ~(step \in Waiting /\ answer = "none")
            /\ ~(step' \in Waiting /\ answer' = "none")
  PROVE  WaitsAreReal'
BY DEF WaitsAreReal

LEMMA WaitsTask ==
  ASSUME Base, Told, WaitsAreReal, TaskStep \/ FetchEnds
  PROVE  WaitsAreReal'
<1>0. port \in Seq(Messages) /\ bearer \in Identities \cup {NoIdentity}
      /\ lane \in Seq(Tasks) /\ (step # "idle" => lane # <<>>)
      /\ answer \in {"none", "ok", "other", "failed"}
  BY DEF Base, Types
<1>1. CASE \/ Take \/ ReadAccount \/ Asked \/ FetchBegins \/ FetchTimesOut \/ FetchEnds
           \/ Answered \/ Return
  <2>1. /\ port' = port /\ step' \notin Waiting
        /\ ~(step \in Waiting /\ answer = "none")
    BY <1>0, <1>1 DEF Take, ReadAccount, Asked, FetchBegins, FetchTimesOut, FetchEnds, Answered, Return,
                Mismatch, Goto, elsewhere, Waiting
  <2> QED
    BY <2>1, WaitsKept
<1>2. CASE Abandon
  <2>1. port' = Unawaited /\ answer' = "failed"
    BY <1>2 DEF Abandon
  <2>2. \A i \in DOMAIN port' : ~port'[i].awaited
    BY <1>0, <2>1, UnawaitedPort
  <2> QED
    BY <2>1, <2>2 DEF WaitsAreReal
<1>3. CASE Ask \/ SendBearer \/ SendClear
  <2>1. step \notin Waiting /\ answer = "none" /\ lane # <<>>
    BY <1>0, <1>3 DEF Ask, SendBearer, SendClear, Waiting, Told, OneAwaited
  <2>2. PICK op \in Operations, next \in Waiting : Request(op, next)
    BY <1>3 DEF Ask, SendBearer, SendClear, Operations, Waiting
  <2> DEFINE m == [op |-> op, id |-> Head(lane).id, owner |-> bearer, awaited |-> TRUE]
  <2>3. /\ step' = next
        /\ \/ answer' = "none" /\ port' = Append(port, m)
           \/ answer' = "failed" /\ port' = port
    BY <2>1, <2>2 DEF Request, Goto
  <2>4. m \in Messages /\ m.awaited
    BY <1>0, <2>1, HeadTask DEF Messages, Tasks
  <2> HIDE DEF m
  <2>5. CASE answer' = "failed" /\ port' = port
    BY <2>1, <2>5, WaitsKept
  <2>6. CASE answer' = "none" /\ port' = Append(port, m)
    <3>1. Len(port) + 1 \in DOMAIN port' /\ port'[Len(port) + 1] = m
      BY <1>0, <2>4, <2>6, AppendProperties
    <3> QED
      BY <2>3, <2>4, <2>6, <3>1 DEF WaitsAreReal
  <2> QED
    BY <2>3, <2>5, <2>6
<1> QED
  BY <1>1, <1>2, <1>3 DEF TaskStep

LEMMA WaitsDaemon ==
  ASSUME Base, Told, WaitsAreReal, Receive \/ VerifyEnds \/ DaemonRestarts \/ HostRestarts
  PROVE  WaitsAreReal'
<1>0. port \in Seq(Messages)
  BY DEF Base, Types
<1> DEFINE m == Head(port)
(* The awaited message is answered, or stays in the port behind another. *)
<1>1. ASSUME port # <<>>, port' = Tail(port), step' = step,
             NEW result \in {"ok", "other", "failed"}, Reply(result)
      PROVE  WaitsAreReal'
  <2>1. answer' = (IF m.awaited THEN result ELSE answer) /\ m = port[1] /\ 1 \in DOMAIN port
    BY <1>0, <1>1, TailPort DEF Reply
  <2>2. /\ DOMAIN port = 1..Len(port) /\ DOMAIN Tail(port) = 1..Len(port) - 1
        /\ Len(port) \in Nat
        /\ \A i \in 1..Len(port) - 1 : Tail(port)[i] = port[i + 1]
    BY <1>0, <1>1
  <2>3. CASE m.awaited
    <3>1. ASSUME NEW i \in DOMAIN port' PROVE ~port'[i].awaited
      <4>1. i \in Int /\ i + 1 \in DOMAIN port /\ i + 1 # 1 /\ port'[i] = port[i + 1]
        BY <1>1, <2>2
      <4> QED
        BY <2>1, <2>3, <4>1 DEF Told, OneAwaited
    <3> QED
      BY <2>1, <2>3, <3>1 DEF WaitsAreReal
  <2>4. CASE ~m.awaited
    <3>1. ASSUME NEW i \in DOMAIN port, port[i].awaited
          PROVE  \E k \in DOMAIN port' : port'[k].awaited
      <4>1. i # 1
        BY <2>1, <2>4, <3>1
      <4>2. i - 1 \in DOMAIN port' /\ port'[i - 1] = port[i]
        BY <1>1, <2>2, <4>1
      <4> QED
        BY <3>1, <4>2
    <3>2. ASSUME NEW k \in DOMAIN port', port'[k].awaited
          PROVE  \E i \in DOMAIN port : port[i].awaited
      <4>1. k + 1 \in DOMAIN port /\ port'[k] = port[k + 1]
        BY <1>1, <2>2
      <4> QED
        BY <3>2, <4>1
    <3> QED
      BY <1>1, <2>1, <2>4, <3>1, <3>2 DEF WaitsAreReal
  <2> QED
    BY <2>3, <2>4
<1>2. CASE Receive
  <2>1. port # <<>> /\ step' = step
    BY <1>2 DEF Receive
  <2>2. CASE m.op = "account_native"
    BY <1>2, <2>1, <2>2, WaitsKept DEF Receive
  <2>3. CASE m.op # "account_native"
    <3>1. port' = Tail(port) /\ \E result \in {"ok", "other", "failed"} : Reply(result)
      BY <1>2, <2>3 DEF Receive
    <3> QED
      BY <1>1, <2>1, <3>1
  <2> QED
    BY <2>2, <2>3
<1>3. CASE VerifyEnds
  <2>1. /\ port # <<>> /\ port' = Tail(port) /\ step' = step
        /\ Reply("ok") \/ Reply("failed")
    BY <1>3 DEF VerifyEnds, Base
  <2> QED
    BY <1>1, <2>1
<1>4. CASE DaemonRestarts
  <2>1. /\ port' = <<>> /\ step' = step
        /\ answer' = IF step \in Waiting /\ answer = "none" THEN "failed" ELSE answer
    BY <1>4 DEF DaemonRestarts
  <2>2. DOMAIN port' = {}
    BY <2>1
  <2> QED
    BY <2>1, <2>2 DEF WaitsAreReal
<1>5. CASE HostRestarts
  <2>1. step' = "idle" /\ port' = Unawaited
    BY <1>5 DEF HostRestarts
  <2>2. \A i \in DOMAIN port' : ~port'[i].awaited
    BY <1>0, <2>1, UnawaitedPort
  <2> QED
    BY <2>1, <2>2 DEF WaitsAreReal, Waiting
<1> QED
  BY <1>2, <1>3, <1>4, <1>5

(* What the host waits for and what the daemon has agree in every state.     *)
THEOREM NobodyWaitsInVain == Spec => []WaitsAreReal
<1>1. Init => WaitsAreReal
  <2>1. Init => step = "idle" /\ port = <<>> /\ DOMAIN <<>> = {}
    BY DEF Init
  <2> QED
    BY <2>1 DEF WaitsAreReal, Waiting
<1>2. ASSUME Base, Told, WaitsAreReal, [Next]_vars PROVE WaitsAreReal'
  <2>1. CASE UNCHANGED vars
    BY <1>2, <2>1, WaitsKept DEF vars, host, task
  <2>2. CASE StoreStep /\ UNCHANGED <<host, port, validated, restarts>>
    BY <1>2, <2>2, WaitsKept DEF host, task
  <2>3. CASE \/ AccountChanges \/ RefreshTick \/ LoseAccount
             \/ \E foreground \in BOOLEAN : Connect(foreground)
             \/ Reconnect \/ ConnectEnds \/ RefreshEnds
             \/ \E who \in Callers : Call(who)
    BY <1>2, <2>3, WaitsKept DEF AccountChanges, RefreshTick, LoseAccount, Connect, Reconnect,
         ConnectEnds, RefreshEnds, Call, task
  <2> QED
    BY <1>2, <2>1, <2>2, <2>3, WaitsTask, WaitsDaemon DEF Next
<1> QED
  BY <1>1, <1>2, BaseInvariant, ToldInvariant, PTL DEF Spec

-----------------------------------------------------------------------------
(* The selected account.                                                   *)

Selects(record) ==
    record.selected # NoEmail => record.bound[record.selected] # Absent

(* The account selected has a credential, in memory and in credentials.json, *)
(* and still has after failed saves and restarts: whoever starts an upload   *)
(* or asks for the accounts finds it (upsertCredential, RemoveCredentials).  *)
SelectionIsBound == Selects(accounts) /\ Selects(stored)

LEMMA SaveSelects ==
  ASSUME SelectionIsBound, NEW next, Selects(next), Saved(next) \/ NotSaved(next)
  PROVE  SelectionIsBound'
<1> USE DEF Selects, SelectionIsBound
<1>1. CASE Saved(next)
  BY <1>1 DEF Saved
<1>2. CASE NotSaved(next)
  BY <1>2 DEF NotSaved
<1> QED
  BY <1>1, <1>2

LEMMA UpsertSelects ==
  ASSUME Base, SelectionIsBound, NEW email \in Emails, NEW credential \in Credentials \ {Absent},
         NEW next \in Upserted(email, credential)
  PROVE  Selects(next)
<1>1. /\ next.bound = [accounts.bound EXCEPT ![email] = credential]
      /\ next.selected = email \/ (next.selected = accounts.selected /\ accounts.selected # NoEmail)
  BY DEF Upserted
<1>2. accounts.bound \in [Emails -> Credentials] /\ accounts.selected \in Emails \cup {NoEmail}
  BY DEF Base, Types, AccountRecords
<1>3. Selects(accounts)
  BY DEF SelectionIsBound
<1> QED
  BY <1>1, <1>2, <1>3 DEF Selects

LEMMA SelectionNext == Base /\ SelectionIsBound /\ [Next]_vars => SelectionIsBound'
<1> SUFFICES ASSUME Base, SelectionIsBound, [Next]_vars PROVE SelectionIsBound'
  OBVIOUS
<1>0. ASSUME UNCHANGED store PROVE SelectionIsBound'
  BY <1>0 DEF SelectionIsBound, Selects, store
<1>1. CASE UNCHANGED vars
  BY <1>0, <1>1 DEF vars, daemon
<1>2. ASSUME NEW e \in UsedEmails, AddAccount(e) PROVE SelectionIsBound'
  <2>1. e \in Emails /\ Legacy \in Credentials \ {Absent}
    BY AccountAssumption DEF AccountAssumption, Credentials
  <2>2. PICK next \in Upserted(e, Legacy) : Saved(next) \/ NotSaved(next)
    BY <1>2 DEF AddAccount
  <2> QED
    BY <2>1, <2>2, UpsertSelects, SaveSelects
<1>3. ASSUME NEW e \in UsedEmails, SelectAccount(e) PROVE SelectionIsBound'
  <2> DEFINE next == [accounts EXCEPT !.selected = e]
  <2>1. next.selected = e /\ next.bound = accounts.bound
    BY DEF Base, Types, AccountRecords
  <2>2. (Saved(next) \/ NotSaved(next)) /\ accounts.bound[e] # Absent
    BY <1>3 DEF SelectAccount
  <2>3. Selects(next)
    BY <2>1, <2>2 DEF Selects
  <2> QED
    BY <2>2, <2>3, SaveSelects
<1>4. ASSUME NEW e \in UsedEmails, RemoveAccount(e) PROVE SelectionIsBound'
  <2> DEFINE next == [bound |-> [accounts.bound EXCEPT ![e] = Absent],
                      selected |-> IF accounts.selected = e THEN NoEmail
                                                            ELSE accounts.selected]
  <2>1. Selects(next)
    BY DEF Base, Types, AccountRecords, SelectionIsBound, Selects
  <2>2. Saved(next) \/ NotSaved(next)
    BY <1>4 DEF RemoveAccount
  <2> QED
    BY <2>1, <2>2, SaveSelects
<1>5. ASSUME (\E e \in UsedEmails : BeginJob(e) \/ EndJob(e))
             \/ (\E id \in Identities : UseBearer(id)) \/ BearerExpires
      PROVE  SelectionIsBound'
  BY <1>0, <1>5 DEF BeginJob, EndJob, UseBearer, BearerExpires
<1>6. CASE StoreStep
  BY <1>2, <1>3, <1>4, <1>5, <1>6 DEF StoreStep
<1>7. CASE Receive
  BY <1>0, <1>7 DEF Receive, TryBearer, daemon
<1>8. CASE VerifyEnds
  <2> DEFINE id == Head(port).id
  <2>1. id \in Identities
    BY <1>8, TailPort DEF VerifyEnds, Base, Types, OwnBearers
  <2>2. Email[id] \in Emails /\ id \in Credentials \ {Absent}
    BY <2>1, AccountAssumption DEF AccountAssumption, Credentials
  <2>3. \/ \E next \in Upserted(Email[id], id) : Saved(next) \/ NotSaved(next)
        \/ UNCHANGED store
    BY <1>8 DEF VerifyEnds, BearerAccepted, BearerRefused
  <2> HIDE DEF id
  <2> QED
    BY <1>0, <2>2, <2>3, UpsertSelects, SaveSelects
<1>9. CASE DaemonRestarts
  BY <1>9 DEF DaemonRestarts, Reloaded, SelectionIsBound, Selects
<1>10. ASSUME UNCHANGED daemon PROVE SelectionIsBound'
  BY <1>0, <1>10 DEF daemon
<1>11. CASE Next
  BY <1>6, <1>7, <1>8, <1>9, <1>10, <1>11
  DEF Next, TaskStep, AccountChanges, RefreshTick, LoseAccount, Connect, Reconnect, ConnectEnds,
      RefreshEnds, Call, Take, ReadAccount, Ask, Asked, FetchBegins, FetchTimesOut, FetchEnds,
      SendBearer, SendClear, Answered, Abandon, Return, HostRestarts, Request, elsewhere
<1> QED
  BY <1>1, <1>11

(* No order of additions, removals, failed saves and restarts leaves the     *)
(* selection to an account that is gone.                                     *)
THEOREM SelectedAccountIsBound == Spec => []SelectionIsBound
<1>1. Init => SelectionIsBound
  BY DEF Init, StoreInit, SelectionIsBound, Selects
<1> QED
  BY <1>1, SelectionNext, BaseInvariant, PTL DEF Spec
=============================================================================
