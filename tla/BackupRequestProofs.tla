------------------------- MODULE BackupRequestProofs -------------------------
(***************************************************************************)
(* Machine-checked proofs about native backup requests, for any number of  *)
(* requests, assets and accounts.                                          *)
(***************************************************************************)
EXTENDS BackupRequestProperties, FiniteSetTheorems, TLAPS

-----------------------------------------------------------------------------
(* Every action preserves each part of the invariant.  First the types. *)

(* A flag is only set for an intercepted request. *)
LEMMA TypeStep ==
  ASSUME BackupTypeOK, WorkerInv, EndInv, RequestAssumption, [Next]_vars
  PROVE  BackupTypeOK'
<1> USE DEF BackupTypeOK, WorkerInv, EndInv, RequestAssumption, Ended, AnswerStates, Steps,
            flags, transfer, engine, stopping, outcome, prepared, callback
<1>1. ASSUME NEW r \in Requests, Start(r) PROVE BackupTypeOK'
  BY <1>1 DEF Start, Original, Goto
<1>2. ASSUME NEW r \in Requests, StartAgain(r) PROVE BackupTypeOK'
  BY <1>2 DEF StartAgain, Original
<1>3. ASSUME NEW r \in Requests, Bind(r) PROVE BackupTypeOK'
  BY <1>3 DEF Bind, Fail, Finish, Release, Goto
<1>4. ASSUME NEW r \in Requests, Ask(r) PROVE BackupTypeOK'
  BY <1>4 DEF Ask, Goto
<1>5. ASSUME NEW r \in Requests, Wait(r) PROVE BackupTypeOK'
  BY <1>5 DEF Wait, Goto
<1>6. ASSUME NEW r \in Requests, Check(r) PROVE BackupTypeOK'
  BY <1>6 DEF Check, Goto
<1>7. ASSUME NEW r \in Requests, Authorize(r) PROVE BackupTypeOK'
  BY <1>7 DEF Authorize, Goto
<1>8. ASSUME NEW r \in Requests, Export(r) PROVE BackupTypeOK'
  BY <1>8 DEF Export, Goto
<1>9. ASSUME NEW r \in Requests, Import(r) PROVE BackupTypeOK'
  BY <1>9 DEF Import, Duplicates, Goto
<1>10. ASSUME NEW r \in Requests, Publish(r) PROVE BackupTypeOK'
  BY <1>10 DEF Publish, Goto
<1>11. ASSUME NEW r \in Requests, Heed(r) PROVE BackupTypeOK'
  BY <1>11 DEF Heed, TellEngine, Onward, Goto
<1>12. ASSUME NEW r \in Requests, Poll(r) PROVE BackupTypeOK'
  BY <1>12 DEF Poll, Goto
<1>13. ASSUME NEW r \in Requests, Settle(r) PROVE BackupTypeOK'
  BY <1>13 DEF Settle, IdentityMatches, Fail, Finish, Release, Goto
<1>14. ASSUME NEW r \in Requests, Register(r) PROVE BackupTypeOK'
  BY <1>14 DEF Register, Goto
<1>15. ASSUME NEW r \in Requests, Resume(r) PROVE BackupTypeOK'
  BY <1>15 DEF Resume, Original, Goto
<1>16. ASSUME NEW r \in Requests, CancelBegins(r) PROVE BackupTypeOK'
  BY <1>16 DEF CancelBegins
<1>17. ASSUME NEW r \in Requests, CancelLocks(r) PROVE BackupTypeOK'
  BY <1>17 DEF CancelLocks, Release
<1>18. ASSUME NEW r \in Requests, CancelEnds(r) PROVE BackupTypeOK'
  BY <1>18 DEF CancelEnds, TellEngine, Onward
<1>19. ASSUME NEW r \in Requests, NativeSucceeds(r) PROVE BackupTypeOK'
  BY <1>19 DEF NativeSucceeds, Finish, Release
<1>20. ASSUME NEW r \in Requests, NativeFails(r) PROVE BackupTypeOK'
  BY <1>20 DEF NativeFails, ShouldTimeout, Fail, Finish, Release
<1>21. ASSUME NEW r \in Requests, NativeMisses(r) PROVE BackupTypeOK'
  BY <1>21 DEF NativeMisses, Fail, Finish, Release
<1>22. CASE HostChanges
  BY <1>22 DEF HostChanges
<1>23. CASE EngineMoves
  BY <1>23 DEF EngineMoves, Onward, Ended
<1>24. CASE UNCHANGED vars
  BY <1>24 DEF vars
<1> QED
  BY <1>1, <1>2, <1>3, <1>4, <1>5, <1>6, <1>7, <1>8, <1>9, <1>10, <1>11, <1>12,
     <1>13, <1>14, <1>15, <1>16, <1>17, <1>18, <1>19, <1>20, <1>21, <1>22, <1>23, <1>24
     DEF Next, WorkerStep, CancelStep, NativeStep

(* The worker runs once and publishes the job it got. *)
LEMMA WorkerPart ==
  ASSUME BackupTypeOK, WorkerInv, RequestAssumption, [Next]_vars
  PROVE  WorkerInv'
<1> USE DEF BackupTypeOK, WorkerInv, RequestAssumption, Preparing, Following,
            flags, transfer, engine, stopping, outcome, prepared, callback
<1>1. ASSUME NEW r \in Requests, Start(r) PROVE WorkerInv'
  BY <1>1 DEF Start, Original, Goto
<1>2. ASSUME NEW r \in Requests, StartAgain(r) PROVE WorkerInv'
  BY <1>2 DEF StartAgain, Original
<1>3. ASSUME NEW r \in Requests, Bind(r) PROVE WorkerInv'
  BY <1>3 DEF Bind, Fail, Finish, Release, Goto
<1>4. ASSUME NEW r \in Requests, Ask(r) PROVE WorkerInv'
  BY <1>4 DEF Ask, Goto
<1>5. ASSUME NEW r \in Requests, Wait(r) PROVE WorkerInv'
  BY <1>5 DEF Wait, Goto
<1>6. ASSUME NEW r \in Requests, Check(r) PROVE WorkerInv'
  BY <1>6 DEF Check, Goto
<1>7. ASSUME NEW r \in Requests, Authorize(r) PROVE WorkerInv'
  BY <1>7 DEF Authorize, Goto
<1>8. ASSUME NEW r \in Requests, Export(r) PROVE WorkerInv'
  BY <1>8 DEF Export, Goto
<1>9. ASSUME NEW r \in Requests, Import(r) PROVE WorkerInv'
  BY <1>9 DEF Import, Duplicates, Goto
<1>10. ASSUME NEW r \in Requests, Publish(r) PROVE WorkerInv'
  BY <1>10 DEF Publish, Goto
<1>11. ASSUME NEW r \in Requests, Heed(r) PROVE WorkerInv'
  BY <1>11 DEF Heed, TellEngine, Onward, Goto
<1>12. ASSUME NEW r \in Requests, Poll(r) PROVE WorkerInv'
  BY <1>12 DEF Poll, Goto
<1>13. ASSUME NEW r \in Requests, Settle(r) PROVE WorkerInv'
  BY <1>13 DEF Settle, IdentityMatches, Fail, Finish, Release, Goto
<1>14. ASSUME NEW r \in Requests, Register(r) PROVE WorkerInv'
  BY <1>14 DEF Register, Goto
<1>15. ASSUME NEW r \in Requests, Resume(r) PROVE WorkerInv'
  BY <1>15 DEF Resume, Original, Goto
<1>16. ASSUME NEW r \in Requests, CancelBegins(r) PROVE WorkerInv'
  BY <1>16 DEF CancelBegins
<1>17. ASSUME NEW r \in Requests, CancelLocks(r) PROVE WorkerInv'
  BY <1>17 DEF CancelLocks, Release
<1>18. ASSUME NEW r \in Requests, CancelEnds(r) PROVE WorkerInv'
  BY <1>18 DEF CancelEnds, TellEngine, Onward
<1>19. ASSUME NEW r \in Requests, NativeSucceeds(r) PROVE WorkerInv'
  BY <1>19 DEF NativeSucceeds, Finish, Release
<1>20. ASSUME NEW r \in Requests, NativeFails(r) PROVE WorkerInv'
  BY <1>20 DEF NativeFails, ShouldTimeout, Fail, Finish, Release
<1>21. ASSUME NEW r \in Requests, NativeMisses(r) PROVE WorkerInv'
  BY <1>21 DEF NativeMisses, Fail, Finish, Release
<1>22. CASE HostChanges
  BY <1>22 DEF HostChanges
<1>23. CASE EngineMoves
  BY <1>23 DEF EngineMoves, Onward, Ended
<1>24. CASE UNCHANGED vars
  BY <1>24 DEF vars
<1> QED
  BY <1>1, <1>2, <1>3, <1>4, <1>5, <1>6, <1>7, <1>8, <1>9, <1>10, <1>11, <1>12,
     <1>13, <1>14, <1>15, <1>16, <1>17, <1>18, <1>19, <1>20, <1>21, <1>22, <1>23, <1>24
     DEF Next, WorkerStep, CancelStep, NativeStep

(* The account of a job never changes once it exists. *)
LEMMA OwnerPart ==
  ASSUME BackupTypeOK, WorkerInv, OwnerInv, [Next]_vars
  PROVE  OwnerInv'
<1> USE DEF BackupTypeOK, WorkerInv, OwnerInv, Preparing, Following, Deciding,
            flags, transfer, engine, stopping, outcome, prepared, callback
<1>1. ASSUME NEW r \in Requests, Start(r) PROVE OwnerInv'
  BY <1>1 DEF Start, Original, Goto
<1>2. ASSUME NEW r \in Requests, StartAgain(r) PROVE OwnerInv'
  BY <1>2 DEF StartAgain, Original
<1>3. ASSUME NEW r \in Requests, Bind(r) PROVE OwnerInv'
  BY <1>3 DEF Bind, Fail, Finish, Release, Goto
<1>4. ASSUME NEW r \in Requests, Ask(r) PROVE OwnerInv'
  BY <1>4 DEF Ask, Goto
<1>5. ASSUME NEW r \in Requests, Wait(r) PROVE OwnerInv'
  BY <1>5 DEF Wait, Goto
<1>6. ASSUME NEW r \in Requests, Check(r) PROVE OwnerInv'
  BY <1>6 DEF Check, Goto
<1>7. ASSUME NEW r \in Requests, Authorize(r) PROVE OwnerInv'
  BY <1>7 DEF Authorize, Goto
<1>8. ASSUME NEW r \in Requests, Export(r) PROVE OwnerInv'
  BY <1>8 DEF Export, Goto
<1>9. ASSUME NEW r \in Requests, Import(r) PROVE OwnerInv'
  BY <1>9 DEF Import, Duplicates, Goto
<1>10. ASSUME NEW r \in Requests, Publish(r) PROVE OwnerInv'
  BY <1>10 DEF Publish, Goto
<1>11. ASSUME NEW r \in Requests, Heed(r) PROVE OwnerInv'
  BY <1>11 DEF Heed, TellEngine, Onward, Goto
<1>12. ASSUME NEW r \in Requests, Poll(r) PROVE OwnerInv'
  BY <1>12 DEF Poll, Goto
<1>13. ASSUME NEW r \in Requests, Settle(r) PROVE OwnerInv'
  BY <1>13 DEF Settle, IdentityMatches, Fail, Finish, Release, Goto
<1>14. ASSUME NEW r \in Requests, Register(r) PROVE OwnerInv'
  BY <1>14 DEF Register, Goto
<1>15. ASSUME NEW r \in Requests, Resume(r) PROVE OwnerInv'
  BY <1>15 DEF Resume, Original, Goto
<1>16. ASSUME NEW r \in Requests, CancelBegins(r) PROVE OwnerInv'
  BY <1>16 DEF CancelBegins
<1>17. ASSUME NEW r \in Requests, CancelLocks(r) PROVE OwnerInv'
  BY <1>17 DEF CancelLocks, Release
<1>18. ASSUME NEW r \in Requests, CancelEnds(r) PROVE OwnerInv'
  BY <1>18 DEF CancelEnds, TellEngine, Onward
<1>19. ASSUME NEW r \in Requests, NativeSucceeds(r) PROVE OwnerInv'
  BY <1>19 DEF NativeSucceeds, Finish, Release
<1>20. ASSUME NEW r \in Requests, NativeFails(r) PROVE OwnerInv'
  BY <1>20 DEF NativeFails, ShouldTimeout, Fail, Finish, Release
<1>21. ASSUME NEW r \in Requests, NativeMisses(r) PROVE OwnerInv'
  BY <1>21 DEF NativeMisses, Fail, Finish, Release
<1>22. CASE HostChanges
  BY <1>22 DEF HostChanges
<1>23. CASE EngineMoves
  BY <1>23 DEF EngineMoves, Onward, Ended, AnswerStates
<1>24. CASE UNCHANGED vars
  BY <1>24 DEF vars
<1> QED
  BY <1>1, <1>2, <1>3, <1>4, <1>5, <1>6, <1>7, <1>8, <1>9, <1>10, <1>11, <1>12,
     <1>13, <1>14, <1>15, <1>16, <1>17, <1>18, <1>19, <1>20, <1>21, <1>22, <1>23, <1>24
     DEF Next, WorkerStep, CancelStep, NativeStep

(* Completion, registration and lookup come in this order. *)
LEMMA LookupPart ==
  ASSUME BackupTypeOK, WorkerInv, LookupInv, [Next]_vars
  PROVE  LookupInv'
<1> USE DEF BackupTypeOK, WorkerInv, LookupInv, Preparing, Following, Deciding,
            flags, transfer, engine, stopping, outcome, prepared, callback
<1>1. ASSUME NEW r \in Requests, Start(r) PROVE LookupInv'
  BY <1>1 DEF Start, Original, Goto
<1>2. ASSUME NEW r \in Requests, StartAgain(r) PROVE LookupInv'
  BY <1>2 DEF StartAgain, Original
<1>3. ASSUME NEW r \in Requests, Bind(r) PROVE LookupInv'
  BY <1>3 DEF Bind, Fail, Finish, Release, Goto
<1>4. ASSUME NEW r \in Requests, Ask(r) PROVE LookupInv'
  BY <1>4 DEF Ask, Goto
<1>5. ASSUME NEW r \in Requests, Wait(r) PROVE LookupInv'
  BY <1>5 DEF Wait, Goto
<1>6. ASSUME NEW r \in Requests, Check(r) PROVE LookupInv'
  BY <1>6 DEF Check, Goto
<1>7. ASSUME NEW r \in Requests, Authorize(r) PROVE LookupInv'
  BY <1>7 DEF Authorize, Goto
<1>8. ASSUME NEW r \in Requests, Export(r) PROVE LookupInv'
  BY <1>8 DEF Export, Goto
<1>9. ASSUME NEW r \in Requests, Import(r) PROVE LookupInv'
  BY <1>9 DEF Import, Duplicates, Goto
<1>10. ASSUME NEW r \in Requests, Publish(r) PROVE LookupInv'
  BY <1>10 DEF Publish, Goto
<1>11. ASSUME NEW r \in Requests, Heed(r) PROVE LookupInv'
  BY <1>11 DEF Heed, TellEngine, Onward, Goto
<1>12. ASSUME NEW r \in Requests, Poll(r) PROVE LookupInv'
  BY <1>12 DEF Poll, Goto
<1>13. ASSUME NEW r \in Requests, Settle(r) PROVE LookupInv'
  BY <1>13 DEF Settle, IdentityMatches, Fail, Finish, Release, Goto
<1>14. ASSUME NEW r \in Requests, Register(r) PROVE LookupInv'
  BY <1>14 DEF Register, Goto
<1>15. ASSUME NEW r \in Requests, Resume(r) PROVE LookupInv'
  BY <1>15 DEF Resume, Original, Goto
<1>16. ASSUME NEW r \in Requests, CancelBegins(r) PROVE LookupInv'
  BY <1>16 DEF CancelBegins
<1>17. ASSUME NEW r \in Requests, CancelLocks(r) PROVE LookupInv'
  BY <1>17 DEF CancelLocks, Release
<1>18. ASSUME NEW r \in Requests, CancelEnds(r) PROVE LookupInv'
  BY <1>18 DEF CancelEnds, TellEngine, Onward
<1>19. ASSUME NEW r \in Requests, NativeSucceeds(r) PROVE LookupInv'
  BY <1>19 DEF NativeSucceeds, Finish, Release
<1>20. ASSUME NEW r \in Requests, NativeFails(r) PROVE LookupInv'
  BY <1>20 DEF NativeFails, ShouldTimeout, Fail, Finish, Release
<1>21. ASSUME NEW r \in Requests, NativeMisses(r) PROVE LookupInv'
  BY <1>21 DEF NativeMisses, Fail, Finish, Release
<1>22. CASE HostChanges
  BY <1>22 DEF HostChanges
<1>23. CASE EngineMoves
  BY <1>23 DEF EngineMoves, Onward, Ended
<1>24. CASE UNCHANGED vars
  BY <1>24 DEF vars
<1> QED
  BY <1>1, <1>2, <1>3, <1>4, <1>5, <1>6, <1>7, <1>8, <1>9, <1>10, <1>11, <1>12,
     <1>13, <1>14, <1>15, <1>16, <1>17, <1>18, <1>19, <1>20, <1>21, <1>22, <1>23, <1>24
     DEF Next, WorkerStep, CancelStep, NativeStep

(* Either the worker or the cancel sees the other. *)
LEMMA CancelPart ==
  ASSUME BackupTypeOK, WorkerInv, EndInv, CancelInv, [Next]_vars
  PROVE  CancelInv'
<1> USE DEF BackupTypeOK, WorkerInv, EndInv, CancelInv, Preparing, Following,
            flags, transfer, engine, stopping, outcome, prepared, callback
<1>1. ASSUME NEW r \in Requests, Start(r) PROVE CancelInv'
  BY <1>1 DEF Start, Original, Goto
<1>2. ASSUME NEW r \in Requests, StartAgain(r) PROVE CancelInv'
  BY <1>2 DEF StartAgain, Original
<1>3. ASSUME NEW r \in Requests, Bind(r) PROVE CancelInv'
  BY <1>3 DEF Bind, Fail, Finish, Release, Goto
<1>4. ASSUME NEW r \in Requests, Ask(r) PROVE CancelInv'
  BY <1>4 DEF Ask, Goto
<1>5. ASSUME NEW r \in Requests, Wait(r) PROVE CancelInv'
  BY <1>5 DEF Wait, Goto
<1>6. ASSUME NEW r \in Requests, Check(r) PROVE CancelInv'
  BY <1>6 DEF Check, Goto
<1>7. ASSUME NEW r \in Requests, Authorize(r) PROVE CancelInv'
  BY <1>7 DEF Authorize, Goto
<1>8. ASSUME NEW r \in Requests, Export(r) PROVE CancelInv'
  BY <1>8 DEF Export, Goto
<1>9. ASSUME NEW r \in Requests, Import(r) PROVE CancelInv'
  BY <1>9 DEF Import, Duplicates, Goto
<1>10. ASSUME NEW r \in Requests, Publish(r) PROVE CancelInv'
  BY <1>10 DEF Publish, Goto
<1>11. ASSUME NEW r \in Requests, Heed(r) PROVE CancelInv'
  BY <1>11 DEF Heed, TellEngine, Onward, Goto
<1>12. ASSUME NEW r \in Requests, Poll(r) PROVE CancelInv'
  BY <1>12 DEF Poll, Goto
<1>13. ASSUME NEW r \in Requests, Settle(r) PROVE CancelInv'
  BY <1>13 DEF Settle, IdentityMatches, Fail, Finish, Release, Goto
<1>14. ASSUME NEW r \in Requests, Register(r) PROVE CancelInv'
  BY <1>14 DEF Register, Goto
<1>15. ASSUME NEW r \in Requests, Resume(r) PROVE CancelInv'
  BY <1>15 DEF Resume, Original, Goto
<1>16. ASSUME NEW r \in Requests, CancelBegins(r) PROVE CancelInv'
  BY <1>16 DEF CancelBegins
<1>17. ASSUME NEW r \in Requests, CancelLocks(r) PROVE CancelInv'
  BY <1>17 DEF CancelLocks, Release
<1>18. ASSUME NEW r \in Requests, CancelEnds(r) PROVE CancelInv'
  BY <1>18 DEF CancelEnds, TellEngine, Onward
<1>19. ASSUME NEW r \in Requests, NativeSucceeds(r) PROVE CancelInv'
  BY <1>19 DEF NativeSucceeds, Finish, Release
<1>20. ASSUME NEW r \in Requests, NativeFails(r) PROVE CancelInv'
  BY <1>20 DEF NativeFails, ShouldTimeout, Fail, Finish, Release
<1>21. ASSUME NEW r \in Requests, NativeMisses(r) PROVE CancelInv'
  BY <1>21 DEF NativeMisses, Fail, Finish, Release
<1>22. CASE HostChanges
  BY <1>22 DEF HostChanges
<1>23. CASE EngineMoves
  BY <1>23 DEF EngineMoves, Onward, Ended
<1>24. CASE UNCHANGED vars
  BY <1>24 DEF vars
<1> QED
  BY <1>1, <1>2, <1>3, <1>4, <1>5, <1>6, <1>7, <1>8, <1>9, <1>10, <1>11, <1>12,
     <1>13, <1>14, <1>15, <1>16, <1>17, <1>18, <1>19, <1>20, <1>21, <1>22, <1>23, <1>24
     DEF Next, WorkerStep, CancelStep, NativeStep

(* Transfers end before their native requests do. *)
LEMMA EndPart ==
  ASSUME BackupTypeOK, WorkerInv, LookupInv, EndInv, [Next]_vars
  PROVE  EndInv'
<1> USE DEF BackupTypeOK, WorkerInv, LookupInv, EndInv,
            flags, transfer, engine, stopping, outcome, prepared, callback
<1>1. ASSUME NEW r \in Requests, Start(r) PROVE EndInv'
  BY <1>1 DEF Start, Original, Goto
<1>2. ASSUME NEW r \in Requests, StartAgain(r) PROVE EndInv'
  BY <1>2 DEF StartAgain, Original
<1>3. ASSUME NEW r \in Requests, Bind(r) PROVE EndInv'
  BY <1>3 DEF Bind, Fail, Finish, Release, Goto
<1>4. ASSUME NEW r \in Requests, Ask(r) PROVE EndInv'
  BY <1>4 DEF Ask, Goto
<1>5. ASSUME NEW r \in Requests, Wait(r) PROVE EndInv'
  BY <1>5 DEF Wait, Goto
<1>6. ASSUME NEW r \in Requests, Check(r) PROVE EndInv'
  BY <1>6 DEF Check, Goto
<1>7. ASSUME NEW r \in Requests, Authorize(r) PROVE EndInv'
  BY <1>7 DEF Authorize, Goto
<1>8. ASSUME NEW r \in Requests, Export(r) PROVE EndInv'
  BY <1>8 DEF Export, Goto
<1>9. ASSUME NEW r \in Requests, Import(r) PROVE EndInv'
  BY <1>9 DEF Import, Duplicates, Goto
<1>10. ASSUME NEW r \in Requests, Publish(r) PROVE EndInv'
  BY <1>10 DEF Publish, Goto
<1>11. ASSUME NEW r \in Requests, Heed(r) PROVE EndInv'
  BY <1>11 DEF Heed, TellEngine, Onward, Goto
<1>12. ASSUME NEW r \in Requests, Poll(r) PROVE EndInv'
  BY <1>12 DEF Poll, Goto
<1>13. ASSUME NEW r \in Requests, Settle(r) PROVE EndInv'
  BY <1>13 DEF Settle, IdentityMatches, Fail, Finish, Release, Goto
<1>14. ASSUME NEW r \in Requests, Register(r) PROVE EndInv'
  BY <1>14 DEF Register, Goto
<1>15. ASSUME NEW r \in Requests, Resume(r) PROVE EndInv'
  BY <1>15 DEF Resume, Original, Goto
<1>16. ASSUME NEW r \in Requests, CancelBegins(r) PROVE EndInv'
  BY <1>16 DEF CancelBegins
<1>17. ASSUME NEW r \in Requests, CancelLocks(r) PROVE EndInv'
  BY <1>17 DEF CancelLocks, Release
<1>18. ASSUME NEW r \in Requests, CancelEnds(r) PROVE EndInv'
  BY <1>18 DEF CancelEnds, TellEngine, Onward
<1>19. ASSUME NEW r \in Requests, NativeSucceeds(r) PROVE EndInv'
  BY <1>19 DEF NativeSucceeds, Finish, Release
<1>20. ASSUME NEW r \in Requests, NativeFails(r) PROVE EndInv'
  BY <1>20 DEF NativeFails, ShouldTimeout, Fail, Finish, Release
<1>21. ASSUME NEW r \in Requests, NativeMisses(r) PROVE EndInv'
  BY <1>21 DEF NativeMisses, Fail, Finish, Release
<1>22. CASE HostChanges
  BY <1>22 DEF HostChanges
<1>23. CASE EngineMoves
  BY <1>23 DEF EngineMoves, Onward, Ended
<1>24. CASE UNCHANGED vars
  BY <1>24 DEF vars
<1> QED
  BY <1>1, <1>2, <1>3, <1>4, <1>5, <1>6, <1>7, <1>8, <1>9, <1>10, <1>11, <1>12,
     <1>13, <1>14, <1>15, <1>16, <1>17, <1>18, <1>19, <1>20, <1>21, <1>22, <1>23, <1>24
     DEF Next, WorkerStep, CancelStep, NativeStep

-----------------------------------------------------------------------------
(* Counting registrations. *)

Registrants(a) == {r \in Holding : Asset[r] = a}

LEMMA RegistrantsFinite ==
  ASSUME BackupTypeOK, RequestAssumption, NEW a
  PROVE  IsFiniteSet(Registrants(a)) /\ Cardinality(Registrants(a)) \in Nat
<1>1. Registrants(a) \subseteq Requests
  BY DEF Registrants, Holding, BackupTypeOK
<1> QED
  BY <1>1, FS_Subset, FS_CardinalityType DEF RequestAssumption

LEMMA NothingReleased ==
  ASSUME RegistrationsMatch, registered' = registered, Holding' = Holding
  PROVE  RegistrationsMatch'
BY DEF RegistrationsMatch

(* One request lets go: the count of its asset goes down by one. *)
LEMMA OneReleased ==
  ASSUME BackupTypeOK, RequestAssumption, RegistrationsMatch, NEW r \in Holding,
         registered' = Release(r), Holding' = Holding \ {r}
  PROVE  RegistrationsMatch'
<1>1. r \in Requests /\ Asset[r] \in Assets
  BY DEF Holding, BackupTypeOK, RequestAssumption
<1> SUFFICES ASSUME NEW a \in Assets
             PROVE  registered'[a] = Cardinality(Registrants(a)')
  BY DEF RegistrationsMatch, Registrants
<1>2. registered[a] = Cardinality(Registrants(a))
  BY DEF RegistrationsMatch, Registrants
<1>3. CASE a = Asset[r]
  <2>1. Registrants(a)' = Registrants(a) \ {r} /\ r \in Registrants(a)
    BY <1>3 DEF Registrants
  <2>2. /\ Cardinality(Registrants(a)') = Cardinality(Registrants(a)) - 1
        /\ Cardinality(Registrants(a)) # 0
    <3>1. Cardinality(Registrants(a) \ {r}) = Cardinality(Registrants(a)) - 1
      BY <2>1, RegistrantsFinite, FS_RemoveElement
    <3>2. Cardinality(Registrants(a)) # 0
      BY <2>1, RegistrantsFinite, FS_EmptySet
    <3> QED
      BY <2>1, <3>1, <3>2
  <2>3. registered'[a] = IF registered[a] > 0 THEN registered[a] - 1 ELSE 0
    BY <1>1, <1>3 DEF Release, BackupTypeOK
  <2> QED
    BY <1>2, <2>2, <2>3, RegistrantsFinite
<1>4. CASE a # Asset[r]
  <2>1. Registrants(a)' = Registrants(a)
    BY <1>4 DEF Registrants
  <2>2. registered'[a] = registered[a]
    BY <1>1, <1>4 DEF Release, BackupTypeOK
  <2> QED
    BY <1>2, <2>1, <2>2
<1> QED
  BY <1>3, <1>4

(* One request registers. *)
LEMMA OneRegistered ==
  ASSUME BackupTypeOK, RequestAssumption, RegistrationsMatch,
         NEW r \in intercepted, r \notin Holding,
         registered' = [registered EXCEPT ![Asset[r]] = @ + 1],
         Holding' = Holding \cup {r}
  PROVE  RegistrationsMatch'
<1>1. r \in Requests /\ Asset[r] \in Assets
  BY DEF BackupTypeOK, RequestAssumption
<1> SUFFICES ASSUME NEW a \in Assets
             PROVE  registered'[a] = Cardinality(Registrants(a)')
  BY DEF RegistrationsMatch, Registrants
<1>2. registered[a] = Cardinality(Registrants(a))
  BY DEF RegistrationsMatch, Registrants
<1>3. CASE a = Asset[r]
  <2>1. Registrants(a)' = Registrants(a) \cup {r} /\ r \notin Registrants(a)
    BY <1>3 DEF Registrants
  <2>2. Cardinality(Registrants(a)') = Cardinality(Registrants(a)) + 1
    BY <2>1, RegistrantsFinite, FS_AddElement
  <2> QED
    BY <1>1, <1>2, <1>3, <2>2 DEF BackupTypeOK
<1>4. CASE a # Asset[r]
  <2>1. Registrants(a)' = Registrants(a)
    BY <1>4 DEF Registrants
  <2> QED
    BY <1>1, <1>2, <1>4, <2>1 DEF BackupTypeOK
<1> QED
  BY <1>3, <1>4

(* Completion releases the registration unless cancel has. *)
LEMMA FinishReleasesOnce ==
  ASSUME BackupTypeOK, RequestAssumption, RegistrationsMatch, NEW r \in Requests,
         Finish(r), UNCHANGED <<reconciling, cancelled>>
  PROVE  RegistrationsMatch'
<1>1. CASE r \in intercepted \ finished /\ r \in reconciling \ cancelled
  BY <1>1, OneReleased DEF Finish, Holding
<1>2. CASE r \in intercepted \ finished /\ r \notin reconciling \ cancelled
  BY <1>2, NothingReleased DEF Finish, Holding
<1>3. CASE r \notin intercepted \ finished
  BY <1>3, NothingReleased DEF Finish, Holding
<1> QED
  BY <1>1, <1>2, <1>3

(* The count stays right in every interleaving of completion and cancel. *)
LEMMA RegistrationPart ==
  ASSUME BackupTypeOK, RequestAssumption, WorkerInv, LookupInv, RegistrationsMatch, [Next]_vars
  PROVE  RegistrationsMatch'
<1> USE DEF flags, transfer, engine, stopping, outcome, prepared, callback
<1>1. ASSUME NEW r \in Requests, Start(r) PROVE RegistrationsMatch'
  BY <1>1, NothingReleased DEF Start, Holding
<1>2. ASSUME NEW r \in Requests, StartAgain(r) PROVE RegistrationsMatch'
  BY <1>2, NothingReleased DEF StartAgain, Holding
<1>3. ASSUME NEW r \in Requests, Bind(r) PROVE RegistrationsMatch'
  <2>1. CASE UNCHANGED flags
    BY <1>3, <2>1, NothingReleased DEF Bind, Holding
  <2>2. CASE Fail(r) /\ UNCHANGED cancelled
    BY <1>3, <2>2, FinishReleasesOnce DEF Bind, Fail
  <2> QED
    BY <1>3, <2>1, <2>2 DEF Bind
<1>4. ASSUME NEW r \in Requests, Ask(r) PROVE RegistrationsMatch'
  BY <1>4, NothingReleased DEF Ask, Holding
<1>5. ASSUME NEW r \in Requests, Wait(r) PROVE RegistrationsMatch'
  BY <1>5, NothingReleased DEF Wait, Holding
<1>6. ASSUME NEW r \in Requests, Check(r) PROVE RegistrationsMatch'
  BY <1>6, NothingReleased DEF Check, Holding
<1>7. ASSUME NEW r \in Requests, Authorize(r) PROVE RegistrationsMatch'
  BY <1>7, NothingReleased DEF Authorize, Holding
<1>8. ASSUME NEW r \in Requests, Export(r) PROVE RegistrationsMatch'
  BY <1>8, NothingReleased DEF Export, Holding
<1>9. ASSUME NEW r \in Requests, Import(r) PROVE RegistrationsMatch'
  BY <1>9, NothingReleased DEF Import, Holding
<1>10. ASSUME NEW r \in Requests, Publish(r) PROVE RegistrationsMatch'
  BY <1>10, NothingReleased DEF Publish, Holding
<1>11. ASSUME NEW r \in Requests, Heed(r) PROVE RegistrationsMatch'
  BY <1>11, NothingReleased DEF Heed, Holding
<1>12. ASSUME NEW r \in Requests, Poll(r) PROVE RegistrationsMatch'
  BY <1>12, NothingReleased DEF Poll, Holding
<1>13. ASSUME NEW r \in Requests, Settle(r) PROVE RegistrationsMatch'
  <2>1. CASE UNCHANGED flags
    BY <1>13, <2>1, NothingReleased DEF Settle, Holding
  <2>2. CASE Fail(r) /\ UNCHANGED cancelled
    BY <1>13, <2>2, FinishReleasesOnce DEF Settle, Fail
  <2> QED
    BY <1>13, <2>1, <2>2 DEF Settle
<1>14. ASSUME NEW r \in Requests, Register(r) PROVE RegistrationsMatch'
  <2>1. CASE r \in cancelled \cup finished
    BY <1>14, <2>1, NothingReleased DEF Register, Holding
  <2>2. CASE r \notin cancelled \cup finished
    <3>1. r \in intercepted /\ r \notin reconciling
      BY <1>14 DEF Register, WorkerInv, LookupInv
    <3> QED
      BY <1>14, <2>2, <3>1, OneRegistered DEF Register, Holding
  <2> QED
    BY <2>1, <2>2
<1>15. ASSUME NEW r \in Requests, Resume(r) PROVE RegistrationsMatch'
  BY <1>15, NothingReleased DEF Resume, Holding
<1>16. ASSUME NEW r \in Requests, CancelBegins(r) PROVE RegistrationsMatch'
  BY <1>16, NothingReleased DEF CancelBegins, Holding
<1>17. ASSUME NEW r \in Requests, CancelLocks(r) PROVE RegistrationsMatch'
  <2>1. CASE r \in Holding
    BY <1>17, <2>1, OneReleased DEF CancelLocks, Holding
  <2>2. CASE r \notin Holding
    BY <1>17, <2>2, NothingReleased DEF CancelLocks, Holding
  <2> QED
    BY <2>1, <2>2
<1>18. ASSUME NEW r \in Requests, CancelEnds(r) PROVE RegistrationsMatch'
  BY <1>18, NothingReleased DEF CancelEnds, Holding
<1>19. ASSUME NEW r \in Requests, NativeSucceeds(r) PROVE RegistrationsMatch'
  BY <1>19, FinishReleasesOnce DEF NativeSucceeds
<1>20. ASSUME NEW r \in Requests, NativeFails(r) PROVE RegistrationsMatch'
  BY <1>20, FinishReleasesOnce DEF NativeFails, Fail
<1>21. ASSUME NEW r \in Requests, NativeMisses(r) PROVE RegistrationsMatch'
  <2>1. CASE Fail(r)
    BY <1>21, <2>1, FinishReleasesOnce DEF NativeMisses, Fail
  <2>2. CASE UNCHANGED <<finished, registered>>
    BY <1>21, <2>2, NothingReleased DEF NativeMisses, Holding
  <2> QED
    BY <1>21, <2>1, <2>2 DEF NativeMisses
<1>22. CASE HostChanges
  BY <1>22, NothingReleased DEF Holding, HostChanges
<1>23. CASE EngineMoves
  BY <1>23, NothingReleased DEF Holding, EngineMoves, Onward, Ended
<1>24. CASE UNCHANGED vars
  BY <1>24, NothingReleased DEF Holding, vars
<1> QED
  BY <1>1, <1>2, <1>3, <1>4, <1>5, <1>6, <1>7, <1>8, <1>9, <1>10, <1>11, <1>12,
     <1>13, <1>14, <1>15, <1>16, <1>17, <1>18, <1>19, <1>20, <1>21, <1>22, <1>23, <1>24
     DEF Next, WorkerStep, CancelStep, NativeStep

-----------------------------------------------------------------------------
(* The theorems. *)

LEMMA InitBackup == RequestAssumption /\ Init => BackupInv
<1> SUFFICES ASSUME RequestAssumption, Init PROVE BackupInv
  OBVIOUS
<1>1. BackupTypeOK
  BY DEF Init, BackupTypeOK, Steps, AnswerStates, Ended, RequestAssumption
<1>2. RegistrationsMatch
  <2>1. \A a \in Assets : {r \in Holding : Asset[r] = a} = {}
    BY DEF Init, Holding
  <2> QED
    BY <2>1, FS_EmptySet DEF Init, RegistrationsMatch
<1>3. WorkerInv /\ OwnerInv /\ LookupInv /\ CancelInv /\ EndInv
  BY DEF Init, WorkerInv, OwnerInv, LookupInv, CancelInv, EndInv, Preparing,
         Following, Deciding
<1> QED
  BY <1>1, <1>2, <1>3 DEF BackupInv

LEMMA BackupStep == RequestAssumption /\ BackupInv /\ [Next]_vars => BackupInv'
BY TypeStep, WorkerPart, OwnerPart, LookupPart, CancelPart, EndPart, RegistrationPart
   DEF BackupInv

LEMMA BackupInvariant == Spec => []BackupInv
<1>1. Init => BackupInv
  BY InitBackup, RequestAssumption
<1>2. BackupInv /\ [Next]_vars => BackupInv'
  BY BackupStep, RequestAssumption
<1> QED
  BY <1>1, <1>2, PTL DEF Spec

(* Every flag, step and count of a backup request keeps its type, and no    *)
(* flag is set for a request that was not intercepted.                      *)
THEOREM BackupTypeCorrect == Spec => []BackupTypeOK
<1>1. BackupInv => BackupTypeOK
  BY DEF BackupInv
<1> QED
  BY <1>1, BackupInvariant, PTL

(* Every registration of a reconciling asset belongs to one request that    *)
(* has neither finished nor been cancelled (GSFinish, cancel, GSLock).      *)
THEOREM RegistrationsAreExact == Spec => []RegistrationsMatch
<1>1. BackupInv => RegistrationsMatch
  BY DEF BackupInv
<1> QED
  BY <1>1, BackupInvariant, PTL

(* No native payload goes out while a request is being reconciled: the      *)
(* count is above zero then, and GSGuard looks at it.                       *)
THEOREM PayloadHeldBack == Spec => NoPayloadWhileReconciling
<1>1. ASSUME BackupInv, [Next]_vars, Holding # {}
      PROVE  sent' = sent
  <2>1. PICK h \in Holding : TRUE
    BY <1>1
  <2>2. Asset[h] \in Assets /\ h \in Registrants(Asset[h])
    BY <1>1, RequestAssumption
    DEF BackupInv, BackupTypeOK, Holding, Registrants, RequestAssumption
  <2>3. Cardinality(Registrants(Asset[h])) # 0
    BY <1>1, <2>2, RegistrantsFinite, FS_EmptySet, RequestAssumption DEF BackupInv
  <2>4. registered[Asset[h]] > 0
    BY <1>1, <2>2, <2>3
    DEF BackupInv, BackupTypeOK, RegistrationsMatch, Registrants
  <2>5. BlockNative
    BY <2>2, <2>4 DEF BlockNative
  <2>6. ASSUME NEW r \in Requests, NativeMisses(r) PROVE sent' = sent
    BY <2>5, <2>6 DEF NativeMisses
  <2>7. ASSUME NEW r \in Requests, Start(r) \/ StartAgain(r) PROVE sent' = sent
    BY <2>7 DEF Start, StartAgain, outcome
  <2>8. ASSUME NEW r \in Requests, WorkerStep(r) PROVE sent' = sent
    BY <2>8 DEF WorkerStep, Bind, Ask, Wait, Check, Authorize, Export, Import, Publish,
                Heed, Poll, Settle, Register, Resume, prepared, outcome
  <2>9. ASSUME NEW r \in Requests,
               CancelStep(r) \/ NativeSucceeds(r) \/ NativeFails(r)
        PROVE  sent' = sent
    BY <2>9 DEF CancelStep, CancelBegins, CancelLocks, CancelEnds, NativeSucceeds,
                NativeFails, outcome
  <2>10. ASSUME HostChanges \/ EngineMoves \/ UNCHANGED vars PROVE sent' = sent
    BY <2>10 DEF HostChanges, EngineMoves, vars, outcome
  <2> QED
    BY <1>1, <2>6, <2>7, <2>8, <2>9, <2>10
    DEF Next, NativeStep
<1>2. BackupInv /\ [Next]_vars => (Holding # {} => sent' = sent)
  BY <1>1
<1> QED
  BY <1>2, BackupInvariant, PTL DEF Spec, NoPayloadWhileReconciling

(* Native success is reported only after the Go job had completed. *)
THEOREM SuccessAlwaysConfirmed == Spec => []SuccessIsConfirmed
<1>1. BackupInv => SuccessIsConfirmed
  BY DEF BackupInv, BackupTypeOK, LookupInv, SuccessIsConfirmed
<1> QED
  BY <1>1, BackupInvariant, PTL

(* Originals are imported only for the account of their request. *)
THEOREM ImportsBelongToOwner == Spec => []ImportedForOwner
<1>1. BackupInv => ImportedForOwner
  BY DEF BackupInv, BackupTypeOK, OwnerInv, ImportedForOwner
<1> QED
  BY <1>1, BackupInvariant, PTL

(* A cancel and the publication of the job never miss each other. *)
THEOREM CancelsReachEngine == Spec => []CancelReachesEngine
<1>1. BackupInv => CancelReachesEngine
  BY DEF BackupInv, BackupTypeOK, WorkerInv, CancelInv, CancelReachesEngine
<1> QED
  BY <1>1, BackupInvariant, PTL

(* No transfer at work is ended by a native time-out. *)
THEOREM TransfersEndFirst == Spec => []NotEndedEarly
<1>1. BackupInv => NotEndedEarly
  BY DEF BackupInv, BackupTypeOK, EndInv, NotEndedEarly
<1> QED
  BY <1>1, BackupInvariant, PTL

(* The engine is told to cancel only for requests that were cancelled in the *)
(* foreground: cancelGo is set for those alone.                              *)
THEOREM BackgroundCancelsKeepJobs == Spec => []BackgroundCancelKeepsJob
<1> DEFINE Inv == cancelGo \subseteq asked /\ told \subseteq asked
<1>1. Init => Inv
  BY DEF Init
<1>2. Inv /\ [Next]_vars => Inv'
  <2> SUFFICES ASSUME Inv, [Next]_vars PROVE Inv'
    OBVIOUS
  <2>1. ASSUME NEW r \in Requests, CancelBegins(r) PROVE Inv'
    BY <2>1 DEF CancelBegins
  <2>2. ASSUME NEW r \in Requests, CancelEnds(r) \/ Heed(r) PROVE Inv'
    BY <2>2 DEF CancelEnds, Heed, TellEngine, stopping
  <2>3. ASSUME NEW r \in Requests, CancelLocks(r) PROVE Inv'
    BY <2>3 DEF CancelLocks
  <2>4. ASSUME NEW r \in Requests, Start(r) \/ StartAgain(r) PROVE Inv'
    BY <2>4 DEF Start, StartAgain, stopping
  <2>5. ASSUME NEW r \in Requests,
               Bind(r) \/ Ask(r) \/ Wait(r) \/ Check(r) \/ Authorize(r) \/ Export(r)
        PROVE  Inv'
    BY <2>5 DEF Bind, Ask, Wait, Check, Authorize, Export, prepared, stopping
  <2>6. ASSUME NEW r \in Requests,
               \/ Import(r) \/ Publish(r) \/ Poll(r)
               \/ Settle(r) \/ Register(r) \/ Resume(r)
        PROVE  Inv'
    BY <2>6 DEF Import, Publish, Poll, Settle, Register, Resume, stopping
  <2>7. ASSUME NEW r \in Requests, NativeStep(r) PROVE Inv'
    BY <2>7 DEF NativeStep, NativeSucceeds, NativeFails, NativeMisses, callback, stopping
  <2>8. ASSUME HostChanges \/ EngineMoves \/ UNCHANGED vars PROVE Inv'
    BY <2>8 DEF HostChanges, EngineMoves, vars, stopping
  <2> QED
    BY <2>1, <2>2, <2>3, <2>4, <2>5, <2>6, <2>7, <2>8
    DEF Next, WorkerStep, CancelStep
<1>3. Inv => BackgroundCancelKeepsJob
  BY DEF BackgroundCancelKeepsJob
<1> QED
  BY <1>1, <1>2, <1>3, PTL DEF Spec

(* An intercepted request is never abandoned: while it has not failed, been  *)
(* cancelled or gone on to the native lookup, its worker is still to decide  *)
(* which it will be (GSStart).                                               *)
NoneAbandoned ==
    \A r \in intercepted :
        worker[r] \in {"none", "ended"} => r \in cancelled \cup finished \cup reconciling

(* What a worker does last settles its request; flags are never taken back.  *)
LEMMA NoneAbandonedStep ==
  ASSUME RequestAssumption, BackupInv, NoneAbandoned, [Next]_vars
  PROVE  NoneAbandoned'
<1> DEFINE Settled(r) == r \in cancelled \cup finished \cup reconciling
           Grows == /\ cancelled \subseteq cancelled' /\ finished \subseteq finished'
                    /\ reconciling \subseteq reconciling'
           Decided(q) == /\ Grows
                         /\ \A r \in intercepted' :
                              \/ r \in intercepted /\ worker'[r] = worker[r]
                              \/ r = q /\ worker'[r] \notin {"none", "ended"}
                              \/ r = q /\ Settled(r)'
<1> USE DEF BackupInv, BackupTypeOK
<1>1. ASSUME NEW q \in Requests, Start(q) \/ StartAgain(q) PROVE Decided(q)
  BY <1>1 DEF Start, StartAgain, Goto, flags, outcome
<1>2. ASSUME NEW q \in Requests,
             Ask(q) \/ Wait(q) \/ Check(q) \/ Authorize(q) \/ Export(q)
      PROVE  Decided(q)
  BY <1>2 DEF Ask, Wait, Check, Authorize, Export, Goto, prepared, flags
<1>3. ASSUME NEW q \in Requests, Import(q) \/ Publish(q) \/ Heed(q) \/ Poll(q)
      PROVE  Decided(q)
  BY <1>3 DEF Import, Publish, Heed, Poll, Goto, flags
<1>4. ASSUME NEW q \in Requests, Bind(q) \/ Settle(q) PROVE Decided(q)
  <2>1. q \in intercepted
    BY <1>4 DEF Bind, Settle, WorkerInv
  <2> QED
    BY <1>4, <2>1 DEF Bind, Settle, Goto, Fail, Finish, flags
<1>5. ASSUME NEW q \in Requests, Register(q) \/ Resume(q) PROVE Decided(q)
  BY <1>5 DEF Register, Resume, Goto, LookupInv, flags
<1>6. ASSUME NEW q \in Requests, CancelStep(q) PROVE Decided(q)
  BY <1>6 DEF CancelStep, CancelBegins, CancelLocks, CancelEnds, flags
<1>7. ASSUME NEW q \in Requests, NativeStep(q) PROVE Decided(q)
  BY <1>7 DEF NativeStep, NativeSucceeds, NativeFails, NativeMisses, Fail, Finish, callback
<1>8. CASE HostChanges \/ EngineMoves \/ UNCHANGED vars
  BY <1>8 DEF HostChanges, EngineMoves, vars, flags, NoneAbandoned
<1>9. ASSUME NEW q \in Requests, Decided(q) PROVE NoneAbandoned'
  BY <1>9 DEF NoneAbandoned
<1> HIDE DEF Decided
<1> QED
  BY <1>1, <1>2, <1>3, <1>4, <1>5, <1>6, <1>7, <1>8, <1>9 DEF Next, WorkerStep

(* So the only thing it can wait for is its own worker: what TransferSettles *)
(* rests on besides fairness.                                                *)
THEOREM NoRequestAbandoned == Spec => []NoneAbandoned
<1>1. Init => NoneAbandoned
  BY DEF Init, NoneAbandoned
<1>2. BackupInv /\ NoneAbandoned /\ [Next]_vars => NoneAbandoned'
  BY NoneAbandonedStep, RequestAssumption
<1> QED
  BY <1>1, <1>2, BackupInvariant, PTL DEF Spec
=============================================================================
