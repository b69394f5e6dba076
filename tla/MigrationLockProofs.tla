------------------------ MODULE MigrationLockProofs ------------------------
(***************************************************************************)
(* Proofs about MigrationLock, for every set of launches and artifacts,    *)
(* with and without failing file operations and suspended launches.        *)
(***************************************************************************)
EXTENDS MigrationLock, TLAPS

-----------------------------------------------------------------------------
(* Types. *)

LEMMA InitType == Init => TypeOK
  BY LaunchAssumption, ArtifactAssumption
  DEF Init, TypeOK, Place, Seeking, Creating, Copying, Releasing, Cleaning, Ended, Artifacts, Content

LEMMA LaunchType ==
  ASSUME TypeOK, NEW p \in Launch, Step(p) \/ ProcessEnds(p)
  PROVE  TypeOK'
  <1> USE LaunchAssumption, ArtifactAssumption
      DEF TypeOK, lockVars, inspectVars, copyVars,
          Place, Seeking, Creating, Copying, Releasing, Cleaning, Ended, Artifacts, Content
  <1>1. CASE MakeDirectory(p)
    BY <1>1 DEF MakeDirectory, Goto
  <1>2. CASE FindLock(p)
    BY <1>2 DEF FindLock, Goto
  <1>3. CASE StatLock(p)
    BY <1>3 DEF StatLock, Goto
  <1>4. CASE LockVanished(p)
    BY <1>4 DEF LockVanished, Goto
  <1>5. CASE IdentifyLock(p)
    BY <1>5 DEF IdentifyLock, Goto
  <1>6. CASE OwnerRunning(p)
    BY <1>6 DEF OwnerRunning, Goto, Return, RecordAtPath
  <1>7. CASE InspectStale(p)
    BY <1>7 DEF InspectStale, Goto, RecordRead, RecordAtPath
  <1>8. CASE CheckStale(p)
    <2>1. reckless' \subseteq Launch
      BY <1>8 DEF CheckStale
    <2>2. QED
      BY <1>8, <2>1 DEF CheckStale, Goto
  <1>9. CASE QuarantineStale(p)
    BY <1>9 DEF QuarantineStale, Goto, Return, Quarantine
  <1>10. CASE QuarantineFails(p)
    BY <1>10 DEF QuarantineFails, Goto, Return, StillInspected
  <1>11. CASE Retry(p)
    BY <1>11 DEF Retry, Goto
  <1>12. CASE GiveUp(p)
    BY <1>12 DEF GiveUp, Goto
  <1>13. CASE StageRecord(p)
    BY <1>13 DEF StageRecord, Goto
  <1>14. CASE WriteRecord(p)
    BY <1>14 DEF WriteRecord, Goto, Return
  <1>15. CASE AcquireFails(p)
    BY <1>15 DEF AcquireFails, Goto, Return
  <1>16. CASE CheckOwnerless(p)
    <2>1. reckless' \subseteq Launch
      BY <1>16 DEF CheckOwnerless
    <2>2. QED
      BY <1>16, <2>1 DEF CheckOwnerless, Goto
  <1>17. CASE RemoveOwnerless(p)
    BY <1>17 DEF RemoveOwnerless, Goto
  <1>18. CASE CompareArtifact(p)
    BY <1>18 DEF CompareArtifact, Goto
  <1>19. CASE SkipArtifact(p)
    BY <1>19 DEF SkipArtifact, Goto
  <1>20. CASE PublishArtifact(p)
    BY <1>20 DEF PublishArtifact, Goto
  <1>21. CASE KeepBeside(p)
    <2>1. item[p] \in Artifacts /\ beside' \subseteq Artifacts
      BY <1>21 DEF KeepBeside
    <2>2. item' \in [Launch -> 1..(ArtifactCount + 1)]
      BY <1>21, <2>1 DEF KeepBeside
    <2>3. QED
      BY <1>21, <2>1, <2>2 DEF KeepBeside, Goto
  <1>22. CASE CopyFails(p)
    BY <1>22 DEF CopyFails, Goto
  <1>23. CASE CopiesDone(p)
    BY <1>23 DEF CopiesDone, Goto
  <1>24. CASE ReadOwnRecord(p)
    BY <1>24 DEF ReadOwnRecord, Goto, RecordAtPath
  <1>25. CASE CheckOwn(p)
    BY <1>25 DEF CheckOwn, Goto, StillInspected
  <1>26. CASE QuarantineOwn(p)
    <2>1. lock' \in Launch \cup {None} /\ record' \in [Launch -> Launch \cup {None}]
          /\ old' \subseteq Launch
      BY <1>26 DEF QuarantineOwn, Quarantine
    <2>2. item' \in [Launch -> 1..(ArtifactCount + 1)] /\ raised' \subseteq Launch
      BY <1>26 DEF QuarantineOwn, End
    <2>3. pc' = [pc EXCEPT ![p] = "failed"] \/ pc' = [pc EXCEPT ![p] = "started"]
      BY <1>26 DEF QuarantineOwn, End, Return, Goto
    <2>4. seen' = [seen EXCEPT ![p] = None] /\ owner' = [owner EXCEPT ![p] = None]
          /\ item' = [item EXCEPT ![p] = 1] /\ UNCHANGED <<dest, beside, reckless, late>>
          /\ pc[p] # "publish"
      BY <1>26 DEF QuarantineOwn, End, Return
    <2>5. /\ pc' \in [Launch -> Place]
          /\ \A q \in Launch \ {p} : pc'[q] = pc[q]
          /\ \A q \in Launch \ {p} : seen'[q] = seen[q] /\ item'[q] = item[q]
      <3>1. \A q \in Launch \ {p} : seen'[q] = seen[q] /\ item'[q] = item[q]
        BY <2>4
      <3>2. CASE pc' = [pc EXCEPT ![p] = "failed"]
        BY <3>1, <3>2
      <3>3. CASE pc' = [pc EXCEPT ![p] = "started"]
        BY <3>1, <3>3
      <3>4. QED
        BY <2>3, <3>2, <3>3
    <2>6. pc'[p] \in {"failed", "started"}
      BY <2>3
    <2>7. \A q \in Launch :
            /\ pc'[q] \in {"read", "check", "rename", "record"} => seen'[q] # None
            /\ pc'[q] \in {"publish", "keep"} => item'[q] \in Artifacts
      BY <2>5, <2>6
    <2>8. late' \subseteq {q \in Launch : pc'[q] = "publish"}
      BY <2>4, <2>5
    <2>9. seen' \in [Launch -> Launch \cup {None}] /\ owner' \in [Launch -> Launch \cup {None}]
          /\ dest' \in [Artifacts -> Content] /\ beside' \subseteq Artifacts /\ reckless' \subseteq Launch
      BY <2>4
    <2>10. QED
      BY <2>1, <2>2, <2>5, <2>7, <2>8, <2>9
  <1>27. CASE ReleaseFails(p)
    <2>1. pc' = [pc EXCEPT ![p] = "failed"] \/ pc' = [pc EXCEPT ![p] = "started"]
      BY <1>27 DEF ReleaseFails, End, Return, Goto
    <2>2. /\ seen' = [seen EXCEPT ![p] = None] /\ owner' = [owner EXCEPT ![p] = None]
          /\ item' = [item EXCEPT ![p] = 1] /\ raised' = raised \ {p} /\ pc[p] # "publish"
          /\ UNCHANGED <<lock, record, old, dest, beside, reckless, late>>
      BY <1>27 DEF ReleaseFails, End, Return
    <2>3. CASE pc' = [pc EXCEPT ![p] = "failed"]
      BY <2>2, <2>3
    <2>4. CASE pc' = [pc EXCEPT ![p] = "started"]
      BY <2>2, <2>4
    <2>5. QED
      BY <2>1, <2>3, <2>4
  <1>28. CASE StatFails(p)
    BY <1>28 DEF StatFails, Goto
  <1>31. CASE LeaveLock(p)
    BY <1>31 DEF LeaveLock, Goto
  <1>29. CASE ProcessEnds(p)
    BY <1>29 DEF ProcessEnds, Goto, Return
  <1>30. QED
    BY <1>1, <1>2, <1>3, <1>4, <1>5, <1>6, <1>7, <1>8, <1>9, <1>10, <1>11, <1>12, <1>13, <1>14, <1>15, <1>16, <1>17, <1>18, <1>19, <1>20, <1>21, <1>22, <1>23, <1>24, <1>25, <1>26, <1>27, <1>28, <1>29, <1>31 DEF Step, Acquire, Migrate, Release

THEOREM TypeCorrect == Spec => []TypeOK
  <1>1. TypeOK /\ [Next]_vars => TypeOK'
    <2> SUFFICES ASSUME TypeOK, [Next]_vars PROVE TypeOK'
      OBVIOUS
    <2>1. CASE Age
      BY <2>1 DEF Age, TypeOK, inspectVars, copyVars
    <2>4. CASE AppWrites
      BY <2>4 DEF AppWrites, TypeOK, lockVars, inspectVars, Content
    <2>2. CASE UNCHANGED vars
      BY <2>2 DEF TypeOK, vars, lockVars, inspectVars, copyVars
    <2>3. QED
      BY <2>1, <2>2, <2>4, LaunchType DEF Next
  <1>2. QED
    BY InitType, <1>1, PTL DEF Spec


-----------------------------------------------------------------------------
(* The lock. *)

\* As long as nobody was reckless: who makes, holds or removes a directory has
\* made the one at the path.
OwnsLock == \A p \in Launch : pc[p] \in Creating \cup Holding \cup {"removing"} => lock = p

\* A directory holds no record but that of the launch that made it, and holds
\* it while the lock is held.
OwnRecord ==
  /\ \A d \in Launch : record[d] \in {None, d}
  /\ \A p \in Launch : pc[p] \in Holding => record[p] = p
  /\ \A p \in Launch : pc[p] = "record" => seen[p] = p

\* Who still seeks the lock has made no directory, so no directory that was
\* inspected is made again.
Unmade ==
  /\ \A p \in Launch : pc[p] \in Seeking => lock # p
  /\ \A p \in Launch : pc[p] \in {"read", "check", "rename"} => pc[seen[p]] \notin Seeking

\* What is about to be quarantined is gone already, or its launch has ended; an
\* owner that was found has ended.
Condemned ==
  \A p \in Launch :
    /\ pc[p] = "check" /\ owner[p] # None => pc[owner[p]] = "dead"
    /\ pc[p] = "rename" /\ lock = seen[p] => pc[seen[p]] \in Ended
    /\ pc[p] \in {"releaseCheck", "releaseRename"} => seen[p] = p

LockInv == reckless = {} => OwnsLock /\ OwnRecord /\ Unmade /\ Condemned

LEMMA InitLock == Init => LockInv
  BY LaunchAssumption
  DEF Init, LockInv, OwnsLock, OwnRecord, Unmade, Condemned,
      Seeking, Creating, Holding, Copying, Releasing

LEMMA LaunchLock ==
  ASSUME TypeOK, LockInv, NEW p \in Launch, Step(p) \/ ProcessEnds(p)
  PROVE  LockInv'
  <1> SUFFICES ASSUME reckless' = {} PROVE (OwnsLock /\ OwnRecord /\ Unmade /\ Condemned)'
    BY DEF LockInv
  <1> USE LaunchAssumption
      DEF TypeOK, lockVars, inspectVars, copyVars,
          OwnsLock, OwnRecord, Unmade, Condemned,
          Seeking, Creating, Holding, Copying, Releasing, Cleaning, Ended
  <1>1. CASE MakeDirectory(p)
    BY <1>1 DEF MakeDirectory, Goto, LockInv
  <1>2. CASE FindLock(p)
    BY <1>2 DEF FindLock, Goto, LockInv
  <1>3. CASE StatLock(p)
    BY <1>3 DEF StatLock, Goto, LockInv
  <1>4. CASE LockVanished(p)
    BY <1>4 DEF LockVanished, Goto, LockInv
  <1>5. CASE IdentifyLock(p)
    BY <1>5 DEF IdentifyLock, Goto, LockInv
  <1>6. CASE OwnerRunning(p)
    BY <1>6 DEF OwnerRunning, Goto, Return, RecordAtPath, LockInv
  <1>7. CASE InspectStale(p)
    <2>1. PICK found \in RecordRead :
            (found # None => ~Running(found)) /\ owner' = [owner EXCEPT ![p] = found]
      BY <1>7 DEF InspectStale
    <2>2. found \in Launch \cup {None} /\ (found # None => pc[found] = "dead")
      BY <2>1 DEF RecordRead, RecordAtPath, Running
    <2>3. /\ pc[p] = "read" /\ pc' = [pc EXCEPT ![p] = "check"]
          /\ UNCHANGED <<lock, record, old, seen>> /\ reckless = {}
      BY <1>7 DEF InspectStale, Goto
    <2>4. QED
      BY <2>1, <2>2, <2>3 DEF LockInv
  <1>8. CASE CheckStale(p)
    <2>1. /\ pc[p] = "check" /\ lock = seen[p] /\ owner[p] \in RecordRead
          /\ pc' = [pc EXCEPT ![p] = "rename"] /\ UNCHANGED <<lock, record, old, seen, owner>>
          /\ reckless = {} /\ (owner[p] = None => ~InUse(lock))
      BY <1>8 DEF CheckStale, Goto, StillInspected
    <2>2. OwnsLock /\ OwnRecord /\ Unmade /\ Condemned
      BY <2>1 DEF LockInv
    <2>3. seen[p] \in Launch /\ pc[seen[p]] \notin Seeking
      BY <2>1, <2>2
    <2>4. pc[seen[p]] \in Ended
      <3>1. CASE owner[p] = None
        <4>1. pc[seen[p]] \notin Creating \cup Cleaning \cup Holding
          BY <2>1, <3>1 DEF InUse, InTheMaking
        <4>2. QED
          BY <2>3, <4>1 DEF Place
      <3>2. CASE owner[p] # None
        <4>1. owner[p] = record[seen[p]]
          BY <2>1, <2>3, <3>2 DEF RecordRead, RecordAtPath
        <4>2. owner[p] = seen[p]
          BY <2>2, <2>3, <3>2, <4>1
        <4>3. QED
          BY <2>1, <2>2, <3>2, <4>2
      <3>3. QED
        BY <3>1, <3>2
    <2>5. QED
      BY <2>1, <2>2, <2>4
  <1>9. CASE QuarantineStale(p)
    BY <1>9 DEF QuarantineStale, Goto, Return, Quarantine, LockInv
  <1>10. CASE QuarantineFails(p)
    BY <1>10 DEF QuarantineFails, Goto, Return, StillInspected, LockInv
  <1>11. CASE Retry(p)
    BY <1>11 DEF Retry, Goto, LockInv
  <1>12. CASE GiveUp(p)
    BY <1>12 DEF GiveUp, Goto, LockInv
  <1>13. CASE StageRecord(p)
    BY <1>13 DEF StageRecord, Goto, LockInv
  <1>14. CASE WriteRecord(p)
    BY <1>14 DEF WriteRecord, Goto, Return, LockInv
  <1>15. CASE AcquireFails(p)
    BY <1>15 DEF AcquireFails, Goto, Return, LockInv
  <1>16. CASE CheckOwnerless(p)
    <2>1. lock = p /\ reckless = {} /\ pc' = [pc EXCEPT ![p] = "removing"]
      BY <1>16 DEF CheckOwnerless, Goto
    <2>2. QED
      BY <1>16, <2>1 DEF CheckOwnerless, LockInv
  <1>17. CASE RemoveOwnerless(p)
    BY <1>17 DEF RemoveOwnerless, Goto, LockInv
  <1>18. CASE CompareArtifact(p)
    BY <1>18 DEF CompareArtifact, Goto, LockInv
  <1>19. CASE SkipArtifact(p)
    BY <1>19 DEF SkipArtifact, Goto, LockInv
  <1>20. CASE PublishArtifact(p)
    BY <1>20 DEF PublishArtifact, Goto, LockInv
  <1>21. CASE KeepBeside(p)
    BY <1>21 DEF KeepBeside, Goto, LockInv
  <1>22. CASE CopyFails(p)
    BY <1>22 DEF CopyFails, Goto, LockInv
  <1>23. CASE CopiesDone(p)
    BY <1>23 DEF CopiesDone, Goto, LockInv
  <1>24. CASE ReadOwnRecord(p)
    BY <1>24 DEF ReadOwnRecord, Goto, RecordAtPath, LockInv
  <1>25. CASE CheckOwn(p)
    BY <1>25 DEF CheckOwn, Goto, StillInspected, LockInv
  <1>26. CASE QuarantineOwn(p)
    BY <1>26 DEF QuarantineOwn, Goto, End, Return, Quarantine, LockInv
  <1>27. CASE ReleaseFails(p)
    BY <1>27 DEF ReleaseFails, Goto, End, Return, RecordAtPath, StillInspected, LockInv
  <1>28. CASE StatFails(p) \/ LeaveLock(p)
    BY <1>28 DEF StatFails, LeaveLock, Goto, LockInv
  <1>29. CASE ProcessEnds(p)
    BY <1>29 DEF ProcessEnds, Goto, Return, LockInv
  <1>30. QED
    BY <1>1, <1>2, <1>3, <1>4, <1>5, <1>6, <1>7, <1>8, <1>9, <1>10, <1>11, <1>12, <1>13, <1>14, <1>15, <1>16, <1>17, <1>18, <1>19, <1>20, <1>21, <1>22, <1>23, <1>24, <1>25, <1>26, <1>27, <1>28, <1>29 DEF Step, Acquire, Migrate, Release

LEMMA NextLock ==
  ASSUME TypeOK, LockInv, [Next]_vars
  PROVE  LockInv'
  <1>1. CASE Age
    BY <1>1 DEF Age, inspectVars, copyVars, LockInv, OwnsLock, OwnRecord, Unmade, Condemned
  <1>4. CASE AppWrites
    BY <1>4 DEF AppWrites, lockVars, inspectVars, LockInv, OwnsLock, OwnRecord, Unmade, Condemned
  <1>2. CASE UNCHANGED vars
    BY <1>2 DEF vars, lockVars, inspectVars, copyVars,
                LockInv, OwnsLock, OwnRecord, Unmade, Condemned
  <1>3. QED
    BY <1>1, <1>2, <1>4, LaunchLock DEF Next

THEOREM LockInvariant == Spec => [](TypeOK /\ LockInv)
  <1>1. Init => TypeOK /\ LockInv
    BY InitType, InitLock
  <1>2. TypeOK /\ LockInv /\ [Next]_vars => LockInv'
    BY NextLock
  <1>3. QED
    BY <1>1, <1>2, TypeCorrect, PTL DEF Spec

\* workflow_p.md:1250 is true unless a launch was reckless: two launches in the
\* migration would both have made the directory at the path.
THEOREM MigrationExcludes == Spec => []ExclusiveUnlessReckless
  <1>1. LockInv => ExclusiveUnlessReckless
    BY DEF LockInv, OwnsLock, ExclusiveUnlessReckless
  <1>2. QED
    BY <1>1, LockInvariant, PTL

-----------------------------------------------------------------------------
(* The artifacts. *)

Kept(a) == dest[a] \in {"legacy", "grown"} \/ a \in beside

\* What a launch has gone past is at its destination or kept beside it, and
\* stays so, whatever other launches and applications do meanwhile.
PassedIsKept ==
  /\ \A p \in Launch : \A a \in Legacy : a < item[p] => Kept(a)
  /\ \A p \in Launch : pc[p] \in Releasing /\ p \notin raised => item[p] = ArtifactCount + 1
  /\ \A p \in Launch : pc[p] = "started" => \A a \in Legacy : Kept(a)

\* Beside is kept what has another destination.
BesideDiffers ==
  /\ \A a \in beside : dest[a] # "missing"
  /\ \A p \in Launch : pc[p] = "keep" => dest[item[p]] # "missing"
  /\ \A p \in Launch : pc[p] \in {"publish", "keep"} => item[p] \in Legacy

CopyInv == PassedIsKept /\ BesideDiffers

LEMMA InitCopy == Init => CopyInv
  BY ArtifactAssumption
  DEF Init, CopyInv, PassedIsKept, BesideDiffers, Kept, Releasing, Artifacts

\* No step of a launch or an application loses what is kept, and no destination disappears.
LEMMA StepKeeps ==
  ASSUME TypeOK, CopyInv, AppWrites \/ \E p \in Launch : Step(p) \/ ProcessEnds(p)
  PROVE  /\ \A a \in Artifacts : Kept(a) => Kept(a)'
         /\ \A a \in Artifacts : dest[a] # "missing" => dest'[a] # "missing"
  <1> USE DEF TypeOK, lockVars, inspectVars, copyVars, Kept, End
  <1>4. CASE AppWrites
    BY <1>4 DEF AppWrites
  <1> SUFFICES ASSUME NEW p \in Launch, Step(p) \/ ProcessEnds(p)
               PROVE  /\ \A a \in Artifacts : Kept(a) => Kept(a)'
                      /\ \A a \in Artifacts : dest[a] # "missing" => dest'[a] # "missing"
    BY <1>4
  <1>1. CASE Acquire(p)
    <2>1. UNCHANGED <<dest, beside>>
      BY <1>1 DEF Acquire, MakeDirectory, FindLock, StatLock, StatFails, LockVanished, IdentifyLock, OwnerRunning, InspectStale, CheckStale, QuarantineStale, QuarantineFails, Retry, GiveUp, StageRecord, WriteRecord, AcquireFails, CheckOwnerless, LeaveLock, RemoveOwnerless
    <2>2. QED
      BY <2>1
  <1>2. CASE Migrate(p)
    <2>1. CASE PublishArtifact(p)
      BY <2>1 DEF PublishArtifact
    <2>2. CASE KeepBeside(p)
      BY <2>2 DEF KeepBeside
    <2>3. CASE CompareArtifact(p) \/ SkipArtifact(p) \/ CopyFails(p) \/ CopiesDone(p)
      BY <2>3 DEF CompareArtifact, SkipArtifact, CopyFails, CopiesDone
    <2>4. QED
      BY <1>2, <2>1, <2>2, <2>3 DEF Migrate
  <1>3. CASE Release(p)
    BY <1>3 DEF Release, ReadOwnRecord, CheckOwn, QuarantineOwn, ReleaseFails
  <1>5. CASE ProcessEnds(p)
    BY <1>5 DEF ProcessEnds
  <1>6. QED
    BY <1>1, <1>2, <1>3, <1>5 DEF Step

LEMMA LaunchCopy ==
  ASSUME TypeOK, CopyInv, NEW p \in Launch, Step(p) \/ ProcessEnds(p)
  PROVE  CopyInv'
  <1> DEFINE Keeps == /\ \A a \in Artifacts : Kept(a) => Kept(a)'
                      /\ \A a \in Artifacts : dest[a] # "missing" => dest'[a] # "missing"
  <1>0. Keeps
    BY StepKeeps
  <1>a. Legacy \subseteq Artifacts /\ ArtifactCount \in Nat
    BY ArtifactAssumption DEF Artifacts
  <1> HIDE DEF Keeps
  <1>1. CASE Acquire(p)
    <2>1. UNCHANGED <<raised, item, dest, beside>>
      BY <1>1 DEF Acquire, copyVars, MakeDirectory, FindLock, StatLock, StatFails, LockVanished, IdentifyLock, OwnerRunning, InspectStale, CheckStale, QuarantineStale, QuarantineFails, Retry, GiveUp, StageRecord, WriteRecord, AcquireFails, CheckOwnerless, LeaveLock, RemoveOwnerless
    <2>2. \A q \in Launch : pc'[q] = pc[q] \/ pc'[q] \notin Releasing \cup {"publish", "keep", "started"}
      BY <1>1 DEF TypeOK, Releasing, Acquire, Goto, Return, MakeDirectory, FindLock, StatLock, StatFails, LockVanished, IdentifyLock, OwnerRunning, InspectStale, CheckStale, QuarantineStale, QuarantineFails, Retry, GiveUp, StageRecord, WriteRecord, AcquireFails, CheckOwnerless, LeaveLock, RemoveOwnerless
    <2>3. QED
      BY <2>1, <2>2 DEF CopyInv, PassedIsKept, BesideDiffers, Kept
  <1>2. CASE CompareArtifact(p)
    BY <1>0, <1>a, <1>2 DEF CompareArtifact, Goto, Keeps, TypeOK, CopyInv, PassedIsKept, BesideDiffers, Kept, Artifacts, Copying, Releasing, lockVars, inspectVars, copyVars
  <1>3. CASE SkipArtifact(p)
    BY <1>0, <1>a, <1>3 DEF SkipArtifact, Goto, Keeps, TypeOK, CopyInv, PassedIsKept, BesideDiffers, Kept, Artifacts, Copying, Releasing, lockVars, inspectVars, copyVars
  <1>4. CASE PublishArtifact(p)
    BY <1>0, <1>a, <1>4 DEF PublishArtifact, Goto, Keeps, TypeOK, CopyInv, PassedIsKept, BesideDiffers, Kept, Artifacts, Copying, Releasing, lockVars, inspectVars, copyVars
  <1>5. CASE KeepBeside(p)
    BY <1>0, <1>a, <1>5 DEF KeepBeside, Goto, Keeps, TypeOK, CopyInv, PassedIsKept, BesideDiffers, Kept, Artifacts, Copying, Releasing, lockVars, inspectVars, copyVars
  <1>6. CASE CopyFails(p)
    BY <1>0, <1>a, <1>6 DEF CopyFails, Goto, Keeps, TypeOK, CopyInv, PassedIsKept, BesideDiffers, Kept, Artifacts, Copying, Releasing, lockVars, inspectVars, copyVars
  <1>7. CASE CopiesDone(p)
    BY <1>0, <1>a, <1>7 DEF CopiesDone, Goto, Keeps, TypeOK, CopyInv, PassedIsKept, BesideDiffers, Kept, Artifacts, Copying, Releasing, lockVars, inspectVars, copyVars
  <1>8. CASE ReadOwnRecord(p)
    BY <1>0, <1>a, <1>8 DEF ReadOwnRecord, Goto, RecordAtPath, Keeps, TypeOK, CopyInv, PassedIsKept, BesideDiffers, Kept, Artifacts, Copying, Releasing, lockVars, inspectVars, copyVars
  <1>9. CASE CheckOwn(p)
    BY <1>0, <1>a, <1>9 DEF CheckOwn, Goto, StillInspected, Keeps, TypeOK, CopyInv, PassedIsKept, BesideDiffers, Kept, Artifacts, Copying, Releasing, lockVars, inspectVars, copyVars
  <1>10. CASE QuarantineOwn(p)
    BY <1>0, <1>a, <1>10 DEF QuarantineOwn, Goto, End, Return, Quarantine, Keeps, TypeOK, CopyInv, PassedIsKept, BesideDiffers, Kept, Artifacts, Copying, Releasing, lockVars, inspectVars, copyVars
  <1>11. CASE ReleaseFails(p)
    BY <1>0, <1>a, <1>11 DEF ReleaseFails, Goto, End, Return, RecordAtPath, StillInspected, Keeps, TypeOK, CopyInv, PassedIsKept, BesideDiffers, Kept, Artifacts, Copying, Releasing, lockVars, inspectVars, copyVars
  <1>13. CASE ProcessEnds(p)
    BY <1>0, <1>a, <1>13 DEF ProcessEnds, Goto, Return, Keeps, TypeOK, CopyInv, PassedIsKept, BesideDiffers, Kept, Artifacts, Copying, Releasing, lockVars, inspectVars, copyVars
  <1>14. QED
    BY <1>1, <1>2, <1>3, <1>4, <1>5, <1>6, <1>7, <1>8, <1>9, <1>10, <1>11, <1>13 DEF Step, Migrate, Release

LEMMA NextCopy ==
  ASSUME TypeOK, CopyInv, [Next]_vars
  PROVE  CopyInv'
  <1>1. CASE Age
    BY <1>1 DEF Age, inspectVars, copyVars, CopyInv, PassedIsKept, BesideDiffers, Kept
  <1>4. CASE AppWrites
    <2>1. Legacy \subseteq Artifacts /\ UNCHANGED <<pc, raised, item, beside>>
      BY <1>4, ArtifactAssumption DEF AppWrites, Artifacts
    <2>2. /\ \A a \in Artifacts : Kept(a) => Kept(a)'
          /\ \A a \in Artifacts : dest[a] # "missing" => dest'[a] # "missing"
      BY <1>4, StepKeeps
    <2>3. PassedIsKept'
      BY <2>1, <2>2 DEF CopyInv, PassedIsKept
    <2>4. BesideDiffers'
      BY <2>1, <2>2 DEF CopyInv, BesideDiffers, TypeOK
    <2>5. QED
      BY <2>3, <2>4 DEF CopyInv
  <1>2. CASE UNCHANGED vars
    BY <1>2 DEF vars, lockVars, inspectVars, copyVars, CopyInv, PassedIsKept, BesideDiffers, Kept
  <1>3. QED
    BY <1>1, <1>2, <1>4, LaunchCopy DEF Next

THEOREM CopyInvariant == Spec => [](TypeOK /\ CopyInv)
  <1>1. TypeOK /\ CopyInv /\ [Next]_vars => CopyInv'
    BY NextCopy
  <1>2. QED
    BY InitType, InitCopy, <1>1, TypeCorrect, PTL DEF Spec

\* Migration is complete when the application starts, with or without exclusion.
THEOREM MigrationCompletes == Spec => []LegacyMigrated
  <1>1. CopyInv => LegacyMigrated
    BY DEF CopyInv, PassedIsKept, Kept, LegacyMigrated
  <1>2. QED
    BY <1>1, CopyInvariant, PTL

\* What is published replaces nothing that was there before the comparison: the
\* lock keeps other launches out, and what an application creates is in late.
PublishesNew == reckless = {} =>
  \A p \in Launch : pc[p] = "publish" /\ p \notin late => dest[item[p]] = "missing"

LEMMA LaunchPublishes ==
  ASSUME TypeOK, LockInv, PublishesNew, NEW p \in Launch, Step(p) \/ ProcessEnds(p)
  PROVE  PublishesNew'
  <1> SUFFICES ASSUME reckless' = {}, NEW q \in Launch, pc'[q] = "publish", q \notin late'
               PROVE  dest'[item'[q]] = "missing"
    BY DEF PublishesNew
  <1>1. reckless = {}
    BY DEF TypeOK, Step, Acquire, Migrate, Release, MakeDirectory, FindLock, StatLock, StatFails, LockVanished, IdentifyLock, OwnerRunning, InspectStale, CheckStale, QuarantineStale, QuarantineFails, Retry, GiveUp, StageRecord, WriteRecord, AcquireFails, CheckOwnerless, LeaveLock, RemoveOwnerless, CompareArtifact, SkipArtifact, PublishArtifact, KeepBeside, CopyFails, CopiesDone, ReadOwnRecord, CheckOwn, QuarantineOwn, ReleaseFails, ProcessEnds
  <1>2. CASE CompareArtifact(p)
    BY <1>1, <1>2 DEF CompareArtifact, Goto, PublishesNew, TypeOK, copyVars
  <1>3. ASSUME ~CompareArtifact(p)
        PROVE  /\ pc[q] = "publish" /\ item'[q] = item[q] /\ (q = p => UNCHANGED pc)
               /\ q \notin late
    BY <1>3 DEF TypeOK, Step, Acquire, Migrate, Release, Goto, Return, End, copyVars, MakeDirectory, FindLock, StatLock, StatFails, LockVanished, IdentifyLock, OwnerRunning, InspectStale, CheckStale, QuarantineStale, QuarantineFails, Retry, GiveUp, StageRecord, WriteRecord, AcquireFails, CheckOwnerless, LeaveLock, RemoveOwnerless, CompareArtifact, SkipArtifact, PublishArtifact, KeepBeside, CopyFails, CopiesDone, ReadOwnRecord, CheckOwn, QuarantineOwn, ReleaseFails, ProcessEnds
  <1>4. ASSUME ~CompareArtifact(p), ~PublishArtifact(p)
        PROVE  UNCHANGED dest
    BY <1>4 DEF Step, Acquire, Migrate, Release, copyVars, MakeDirectory, FindLock, StatLock, StatFails, LockVanished, IdentifyLock, OwnerRunning, InspectStale, CheckStale, QuarantineStale, QuarantineFails, Retry, GiveUp, StageRecord, WriteRecord, AcquireFails, CheckOwnerless, LeaveLock, RemoveOwnerless, CompareArtifact, SkipArtifact, PublishArtifact, KeepBeside, CopyFails, CopiesDone, ReadOwnRecord, CheckOwn, QuarantineOwn, ReleaseFails, ProcessEnds
  <1>5. CASE PublishArtifact(p) /\ ~CompareArtifact(p)
    <2>1. pc[p] = "publish" /\ pc[q] = "publish" /\ p # q
      BY <1>3, <1>5 DEF PublishArtifact, Goto, TypeOK
    <2>2. QED
      BY <1>1, <2>1 DEF LockInv, OwnsLock, Holding, Copying
  <1>6. QED
    BY <1>1, <1>2, <1>3, <1>4, <1>5 DEF PublishesNew

LEMMA NextPublishes ==
  ASSUME TypeOK, LockInv, PublishesNew, [Next]_vars
  PROVE  PublishesNew'
  <1>1. CASE Age
    BY <1>1 DEF Age, PublishesNew, copyVars
  <1>2. CASE AppWrites
    BY <1>2 DEF AppWrites, PublishesNew, TypeOK
  <1>3. CASE UNCHANGED vars
    BY <1>3 DEF PublishesNew, vars, copyVars
  <1>4. QED
    BY <1>1, <1>2, <1>3, LaunchPublishes DEF Next

\* While the lock excludes, a launch replaces only what an application created
\* between its comparison and its replacement.
THEOREM DestinationIsKept == Spec => DestinationKept
  <1> DEFINE Excused(a) == \E p \in late \ late' : item[p] = a
  <1>1. Init => PublishesNew
    BY DEF Init, PublishesNew
  <1>2. TypeOK /\ LockInv /\ PublishesNew /\ [Next]_vars => PublishesNew'
    BY NextPublishes
  <1>3. TypeOK /\ PublishesNew /\ [Next]_vars => [reckless = {} =>
          \A a \in Artifacts :
            dest[a] \in {"new", "grown"} /\ dest'[a] # dest[a] => Excused(a)]_vars
    <2> SUFFICES ASSUME TypeOK, PublishesNew, Next, reckless = {}, NEW a \in Artifacts,
                        dest[a] \in {"new", "grown"}, dest'[a] # dest[a]
                 PROVE  Excused(a)
      OBVIOUS
    <2>1. ~Age /\ ~AppWrites
      BY DEF Age, AppWrites, TypeOK, copyVars
    <2>2. ASSUME NEW p \in Launch, PublishArtifact(p) PROVE Excused(a)
      <3>1. pc[p] = "publish" /\ item[p] = a /\ late' = late \ {p}
        BY <2>2 DEF PublishArtifact, TypeOK
      <3>2. p \in late
        BY <3>1 DEF PublishesNew
      <3>3. QED
        BY <3>1, <3>2
    <2>3. ASSUME NEW p \in Launch, Step(p) \/ ProcessEnds(p), ~PublishArtifact(p)
          PROVE  FALSE
      BY <2>3 DEF Step, Acquire, Migrate, Release, copyVars, ProcessEnds, MakeDirectory, FindLock, StatLock, StatFails, LockVanished, IdentifyLock, OwnerRunning, InspectStale, CheckStale, QuarantineStale, QuarantineFails, Retry, GiveUp, StageRecord, WriteRecord, AcquireFails, CheckOwnerless, LeaveLock, RemoveOwnerless, CompareArtifact, SkipArtifact, PublishArtifact, KeepBeside, CopyFails, CopiesDone, ReadOwnRecord, CheckOwn, QuarantineOwn, ReleaseFails
    <2>4. QED
      BY <2>1, <2>2, <2>3 DEF Next
  <1>4. QED
    BY <1>1, <1>2, <1>3, LockInvariant, PTL DEF Spec, DestinationKept
=============================================================================
