-------------------------- MODULE AtomicFileProofs --------------------------
(***************************************************************************)
(* Proofs about AtomicFile, for every set of contents and any number of    *)
(* saves: the file is never torn, and replacing it implements              *)
(* DurableRegister.                                                        *)
(***************************************************************************)
EXTENDS AtomicFile, TLAPS

USE FileAssumption DEF Files

LEMMA FileInvInit == Init => FileInv
<1> SUFFICES ASSUME Init PROVE FileInv
  OBVIOUS
<1>1. 0 \in Files /\ content[0] = First /\ synced[0]
  <2>1. 0 \in Files
    OBVIOUS
  <2>2. content[0] = First
    BY <2>1 DEF Init
  <2>3. synced[0] = (0 = 0)
    BY <2>1, Zenon DEF Init
  <2> QED
    BY <2>1, <2>2, <2>3
<1>2. TypeOK
  <2>1. content \in [Files -> Values \cup {Torn}]
    BY DEF Init
  <2>2. synced \in [Files -> BOOLEAN]
    BY DEF Init
  <2> QED
    BY <1>1, <2>1, <2>2 DEF Init, TypeOK
<1>3. StableWhole
  BY <1>1 DEF Init, StableWhole
<1>4. Progress
  BY DEF Init, Progress
<1> QED
  BY <1>2, <1>3, <1>4 DEF FileInv

LEMMA FileInvStep == FileInv /\ [Next]_vars => FileInv'
<1> SUFFICES ASSUME FileInv, [Next]_vars PROVE FileInv'
  OBVIOUS
<1> USE DEF FileInv, TypeOK, StableWhole, Progress
<1>1. ASSUME NEW v \in Values, Save(v) PROVE FileInv'
  BY <1>1 DEF Save
<1>2. CASE CreateTemp
  BY <1>2 DEF CreateTemp, Give
<1>3. CASE Write
  BY <1>3 DEF Write, Give
<1>4. CASE Sync
  BY <1>4 DEF Sync, Give
<1>5. CASE CloseTemp
  BY <1>5 DEF CloseTemp, Give
<1>6. CASE Rename
  <2>1. CASE entry' = entry
    BY <1>6, <2>1 DEF Rename, Give
  <2>2. CASE entry' = saves /\ stable' = stable \cup {saves} /\ step' = "syncdir"
    <3>1. TypeOK'
      BY <1>6, <2>2 DEF Rename
    <3>2. StableWhole'
      BY <1>6, <2>2 DEF Rename
    <3>3. Progress'
      BY <1>6, <2>2 DEF Rename
    <3> QED
      BY <3>1, <3>2, <3>3
  <2> QED
    BY <1>6, <2>1, <2>2 DEF Rename
<1>7. CASE SyncDir
  BY <1>7 DEF SyncDir, Give
<1>8. CASE ProcessDies
  BY <1>8 DEF ProcessDies, Interrupted
<1>9. CASE PowerFails
  BY <1>9 DEF PowerFails, Interrupted
<1>10. CASE UNCHANGED vars
  BY <1>10 DEF vars
<1> QED
  BY <1>1, <1>2, <1>3, <1>4, <1>5, <1>6, <1>7, <1>8, <1>9, <1>10 DEF Next

LEMMA FileInvariant == Spec => []FileInv
BY FileInvInit, FileInvStep, PTL DEF Spec

(* Whatever fails and whenever power is lost, the file can be read: it was   *)
(* fsynced before it was renamed (atomicJSON, writeConfigAtomically).        *)
THEOREM FileIsNeverTorn == Spec => []NeverTorn
<1>1. FileInv => NeverTorn
  BY DEF FileInv, StableWhole, Progress, NeverTorn
<1> QED
  BY <1>1, FileInvariant, PTL

(* Every step of a replacement is a step of the register, or none.           *)
LEMMA RegisterStep ==
    FileInv /\ [Next]_vars => [Register!RegisterNext]_Register!registerVars
<1> SUFFICES ASSUME FileInv, [Next]_vars
             PROVE  [Register!RegisterNext]_Register!registerVars
  OBVIOUS
<1> USE DEF FileInv, TypeOK, StableWhole, Progress, Register!registerVars
<1>1. ASSUME NEW v \in Values, Save(v) PROVE Register!Ask(v)
  BY <1>1 DEF Save, Register!Ask
<1>2. ASSUME CreateTemp \/ CloseTemp
      PROVE  UNCHANGED Register!registerVars \/ Register!Refuse
  BY <1>2 DEF CreateTemp, CloseTemp, Give, Register!Refuse
<1>3. ASSUME Write
      PROVE  UNCHANGED Register!registerVars \/ Register!Refuse
  BY <1>3 DEF Write, Give, Register!Refuse
<1>4. ASSUME Sync
      PROVE  UNCHANGED Register!registerVars \/ Register!Refuse
  BY <1>4 DEF Sync, Give, Register!Refuse
<1>5. ASSUME Rename PROVE Register!Take \/ Register!Refuse
  BY <1>5 DEF Rename, Give, Register!Take, Register!Refuse
<1>6. ASSUME SyncDir PROVE Register!Confirm \/ Register!Refuse
  BY <1>6 DEF SyncDir, Give, Register!Confirm, Register!Refuse
<1>7. ASSUME ProcessDies PROVE Register!Refuse
  BY <1>7 DEF ProcessDies, Interrupted, Register!Refuse
<1>8. ASSUME PowerFails PROVE Register!Lose
  BY <1>8 DEF PowerFails, Interrupted, Register!Lose
<1>9. ASSUME UNCHANGED vars PROVE UNCHANGED Register!registerVars
  BY <1>9 DEF vars
<1> QED
  BY <1>1, <1>2, <1>3, <1>4, <1>5, <1>6, <1>7, <1>8, <1>9
  DEF Next, Register!RegisterNext

(* Replacing the file implements the durable register: what save and Open    *)
(* rely on.                                                                  *)
THEOREM FileIsRegister == Spec => ReplacesAtomically
<1>1. Init => Register!RegisterInit
  BY DEF Init, Register!RegisterInit
<1> QED
  BY <1>1, FileInvariant, RegisterStep, PTL
  DEF Spec, ReplacesAtomically, Register!RegisterSpec

(* A save that returned nil is what every later read and every start finds,  *)
(* whatever fails after it and however often power is lost, until another    *)
(* value is saved (what completing a job, or withdrawing it, relies on).     *)
ConfirmedIsKept ==
    reply = "ok" => /\ content[entry] = asked
                    /\ {content[f] : f \in stable} = {asked}

(* A promise of every register, so of this file. *)
THEOREM ConfirmedSavesAreKept == Spec => []ConfirmedIsKept
<1>1. Register!RegisterInit => ConfirmedIsKept
  BY DEF Register!RegisterInit, ConfirmedIsKept
<1>2. ASSUME ConfirmedIsKept, [Register!RegisterNext]_Register!registerVars
      PROVE  ConfirmedIsKept'
  <2> DEFINE exposed == {content[f] : f \in stable}
  <2>1. CASE \E v \in Values : Register!Ask(v)
    BY <2>1 DEF Register!Ask, ConfirmedIsKept
  <2>2. CASE Register!Take
    BY <2>2 DEF Register!Take, ConfirmedIsKept
  <2>3. CASE Register!Confirm
    BY <2>3 DEF Register!Confirm, ConfirmedIsKept
  <2>4. CASE Register!Refuse
    BY <2>4 DEF Register!Refuse, ConfirmedIsKept
  <2>5. CASE Register!Lose
    <3>1. /\ content[entry]' \in exposed /\ exposed' = {content[entry]'} /\ asked' = asked
          /\ reply' = "ok" => reply = "ok"
      BY <2>5 DEF Register!Lose
    <3>2. reply = "ok" => exposed = {asked}
      BY <1>2 DEF ConfirmedIsKept
    <3>3. reply' = "ok" => content[entry]' = asked' /\ exposed' = {asked'}
      BY <3>1, <3>2
    <3> QED
      BY <3>3 DEF ConfirmedIsKept
  <2>6. CASE UNCHANGED Register!registerVars
    BY <1>2, <2>6 DEF Register!registerVars, ConfirmedIsKept
  <2> QED
    BY <1>2, <2>1, <2>2, <2>3, <2>4, <2>5, <2>6 DEF Register!RegisterNext
<1> QED
  BY <1>1, <1>2, FileIsRegister, PTL DEF ReplacesAtomically, Register!RegisterSpec
=============================================================================
