--------------------------- MODULE MigrationLock ---------------------------
(***************************************************************************)
(* migrate_legacy_runtime_data (runtime_paths.py): launches that compete   *)
(* for the lock directory, take over a stale one, copy the legacy          *)
(* artifacts under it and release it.                                      *)
(*                                                                         *)
(* A launch is one process with its own pid and token, and creates the     *)
(* lock directory once at most: mkdir is retried only after it found a     *)
(* directory.  So a launch also names the directory it creates (the        *)
(* volume and file ID in the code).  Every file system call that another   *)
(* process can come between is a step.                                     *)
(***************************************************************************)
EXTENDS Naturals, FiniteSets

CONSTANTS
  Launch,        \* processes that run the migration
  Crashed,       \* those that have died in it before
  None,          \* no directory, no owner record
  ArtifactCount, \* length of the list of artifacts
  Legacy,        \* the artifacts that have a legacy file
  MayFail,       \* whether file operations may raise any OSError
  MaySuspend     \* whether a launch may stand still for lock_stale_seconds
                 \* between mkdir and its owner record

ASSUME LaunchAssumption == None \notin Launch /\ Crashed \subseteq Launch
ASSUME ArtifactAssumption ==
  /\ ArtifactCount \in Nat
  /\ Legacy \subseteq 1..ArtifactCount
  /\ {MayFail, MaySuspend} \subseteq BOOLEAN

VARIABLES
  lock,      \* the directory at the lock path, None when there is none
  record,    \* the owner record in each directory
  old,       \* directories whose mtime is lock_stale_seconds ago or more
  pc,        \* where each launch is
  seen,      \* LockInspection.identity, or where the record is staged
  owner,     \* LockInspection.owner
  raised,    \* launches whose migration has raised
  item,      \* the artifact each launch is copying
  dest,      \* content of each destination
  beside,    \* artifacts whose legacy version is kept as .legacy-<digest>
  reckless,  \* history: launches that took a directory for ownerless that
             \* another launch was making or held
  late       \* history: launches about to publish what an application has
             \* created since they found no destination

lockVars == <<lock, record, old>>
inspectVars == <<seen, owner>>
copyVars == <<item, dest, beside>>
vars == <<lockVars, pc, inspectVars, raised, copyVars, reckless, late>>

Artifacts == 1..ArtifactCount

\* legacy: the legacy file; new: anything else; grown: written to since.
Content == {"missing", "legacy", "new", "grown"}

Seeking   == {"trying", "stat", "identify", "read", "check", "rename", "waiting"}
Creating  == {"stage", "record"}
Copying   == {"copy", "publish", "keep"}
Releasing == {"release", "releaseCheck", "releaseRename"}
Cleaning  == {"cleanup", "removing"}
Ended     == {"started", "failed", "dead"}
Place     == Seeking \cup Creating \cup Copying \cup Releasing
             \cup Cleaning \cup Ended

Holding == Copying \cup Releasing

\* p has made its directory, and neither recorded itself nor given up.
InTheMaking(p) == pc[p] \in Creating \cup Cleaning

\* p's directory is in use.
InUse(p) == InTheMaking(p) \/ pc[p] \in Holding

Running(p) == pc[p] # "dead"

Init ==
  /\ pc = [p \in Launch |-> IF p \in Crashed THEN "dead" ELSE "trying"]
  /\ lock \in Crashed \cup {None}
  /\ record \in {[p \in Launch |-> None], [p \in Launch |-> IF p = lock THEN p ELSE None]}
  /\ old = {}
  /\ seen = [p \in Launch |-> None]
  /\ owner = [p \in Launch |-> None]
  /\ raised = {}
  /\ item = [p \in Launch |-> 1]
  /\ dest \in [Artifacts -> {"missing", "legacy", "new"}]
  /\ beside \in SUBSET {a \in Legacy : dest[a] = "new"}
  /\ reckless = {}
  /\ late = {}

Goto(p, place) == pc' = [pc EXCEPT ![p] = place]

\* A function returns: what it had inspected is forgotten.
Return(p, place) ==
  /\ Goto(p, place)
  /\ seen' = [seen EXCEPT ![p] = None]
  /\ owner' = [owner EXCEPT ![p] = None]

-----------------------------------------------------------------------------
(* Acquisition: the while loop. *)

MakeDirectory(p) ==
  /\ pc[p] = "trying" /\ lock = None
  /\ lock' = p
  /\ Goto(p, "stage")
  /\ UNCHANGED <<record, old, inspectVars, raised, copyVars, reckless, late>>

\* FileExistsError.
FindLock(p) ==
  /\ pc[p] = "trying" /\ lock # None
  /\ Goto(p, "stat")
  /\ UNCHANGED <<lockVars, inspectVars, raised, copyVars, reckless, late>>

\* _inspect_stale_lock begins with stat(); a young lock is left alone.
StatLock(p) ==
  /\ pc[p] = "stat" /\ lock # None
  /\ Goto(p, IF lock \in old THEN "identify" ELSE "waiting")
  /\ UNCHANGED <<lockVars, inspectVars, raised, copyVars, reckless, late>>

\* The lock is gone when stat() or its identity is asked for; a directory that
\* cannot be opened for its identity counts as gone.
LockVanished(p) ==
  /\ \/ pc[p] \in {"stat", "identify"} /\ lock = None
     \/ pc[p] = "identify" /\ MayFail
  /\ Goto(p, "waiting")
  /\ UNCHANGED <<lockVars, inspectVars, raised, copyVars, reckless, late>>

\* The path is opened a second time, for its identity.
IdentifyLock(p) ==
  /\ pc[p] = "identify" /\ lock # None
  /\ seen' = [seen EXCEPT ![p] = lock]
  /\ Goto(p, "read")
  /\ UNCHANGED <<lockVars, owner, raised, copyVars, reckless, late>>

\* Any other OSError of stat() leaves the loop, and nothing is cleaned up.
StatFails(p) ==
  /\ pc[p] = "stat" /\ MayFail
  /\ Goto(p, "failed")
  /\ UNCHANGED <<lockVars, inspectVars, raised, copyVars, reckless, late>>

\* The path is opened a third time, for the record.
RecordAtPath == IF lock = None THEN None ELSE record[lock]

\* What the read returns: a record that cannot be read counts as none.
RecordRead == {RecordAtPath} \cup IF MayFail THEN {None} ELSE {}

\* A process that ended may look alive: its pid is used again, or the query fails.
OwnerRunning(p) ==
  /\ pc[p] = "read" /\ RecordAtPath # None
  /\ Return(p, "waiting")
  /\ UNCHANGED <<lockVars, raised, copyVars, reckless, late>>

\* LockInspection(identity, owner) is returned.
InspectStale(p) ==
  /\ pc[p] = "read"
  /\ \E found \in RecordRead :
       /\ found # None => ~Running(found)
       /\ owner' = [owner EXCEPT ![p] = found]
  /\ Goto(p, "check")
  /\ UNCHANGED <<lockVars, seen, raised, copyVars, reckless, late>>

\* Identity and record are compared with the inspection, and the directory is
\* opened if it is still the inspected one.
StillInspected(p) == lock = seen[p] /\ owner[p] \in RecordRead

CheckStale(p) ==
  /\ pc[p] = "check" /\ StillInspected(p)
  /\ reckless' = IF owner[p] = None /\ InUse(lock) THEN reckless \cup {p} ELSE reckless
  /\ Goto(p, "rename")
  /\ UNCHANGED <<lockVars, inspectVars, raised, copyVars, late>>

\* Mutant: what is at the path is renamed, whatever was opened.
QuarantinePath(p) ==
  /\ lock' = None
  /\ record' = [record EXCEPT ![seen[p]] = None]
  /\ old' = old \ {lock}

\* The handle renames the directory that was opened, wherever it is by now,
\* and it is emptied and removed.
Quarantine(p) ==
  IF lock = seen[p]
  THEN /\ lock' = None
       /\ record' = [record EXCEPT ![lock] = None]
       /\ old' = old \ {lock}
  ELSE UNCHANGED lockVars

QuarantineStale(p) ==
  /\ pc[p] = "rename"
  /\ Quarantine(p)
  /\ Return(p, "trying")
  /\ UNCHANGED <<raised, copyVars, reckless, late>>

\* The lock is another one by now, its record cannot be read, or the rename is
\* refused, as for a directory that is deleted or in use.
QuarantineFails(p) ==
  /\ \/ pc[p] = "check" /\ (~StillInspected(p) \/ MayFail)
     \/ pc[p] = "rename"
  /\ Return(p, "waiting")
  /\ UNCHANGED <<lockVars, raised, copyVars, reckless, late>>

Retry(p) ==
  /\ pc[p] = "waiting"
  /\ Goto(p, "trying")
  /\ UNCHANGED <<lockVars, inspectVars, raised, copyVars, reckless, late>>

\* Mutant: a lock that cannot be quarantined is tried again without looking
\* at the deadline.
NeverGivesUp(p) ==
  /\ pc[p] = "waiting"
  /\ Goto(p, "trying")
  /\ UNCHANGED <<lockVars, inspectVars, raised, copyVars, reckless, late>>

\* RuntimePathError: another process is migrating.
GiveUp(p) ==
  /\ pc[p] = "waiting"
  /\ Goto(p, "failed")
  /\ UNCHANGED <<lockVars, inspectVars, raised, copyVars, reckless, late>>

-----------------------------------------------------------------------------
(* _write_lock_owner, and the cleanup when the acquisition raises. *)

\* The record is staged in whatever directory is at the path.
StageRecord(p) ==
  /\ pc[p] = "stage" /\ lock # None
  /\ seen' = [seen EXCEPT ![p] = lock]
  /\ old' = old \ {lock}
  /\ Goto(p, "record")
  /\ UNCHANGED <<lock, record, owner, raised, copyVars, reckless, late>>

\* os.replace finds the staged record if its directory is still at the path.
WriteRecord(p) ==
  /\ pc[p] = "record" /\ lock = seen[p]
  /\ record' = [record EXCEPT ![lock] = p]
  /\ old' = old \ {lock}
  /\ Return(p, "copy")
  /\ UNCHANGED <<lock, raised, copyVars, reckless, late>>

\* mkdir, staging or replacing raises something else than FileExistsError.
AcquireFails(p) ==
  /\ \/ pc[p] = "trying" /\ MayFail
     \/ pc[p] = "stage" /\ (lock = None \/ MayFail)
     \/ pc[p] = "record" /\ (lock # seen[p] \/ MayFail)
  /\ Return(p, "cleanup")
  /\ UNCHANGED <<lockVars, raised, copyVars, reckless, late>>

\* A directory without a record is taken for the own one.  From Python 3.14 on,
\* exists() also answers False when it cannot look.
CheckOwnerless(p) ==
  /\ pc[p] = "cleanup" /\ lock # None /\ None \in RecordRead
  /\ reckless' = IF lock = p THEN reckless ELSE reckless \cup {p}
  /\ Goto(p, "removing")
  /\ UNCHANGED <<lockVars, inspectVars, raised, copyVars, late>>

\* There is a record, no directory, or the question fails.
LeaveLock(p) ==
  /\ pc[p] = "cleanup" /\ (lock = None \/ RecordAtPath # None \/ MayFail)
  /\ Goto(p, "failed")
  /\ UNCHANGED <<lockVars, inspectVars, raised, copyVars, reckless, late>>

\* What is at the path by now is emptied and removed, unless an OSError ends it.
RemoveOwnerless(p) ==
  /\ pc[p] = "removing"
  /\ \/ /\ lock # None
        /\ lock' = None
        /\ record' = [record EXCEPT ![lock] = None]
        /\ old' = old \ {lock}
     \/ (lock = None \/ MayFail) /\ UNCHANGED lockVars
  /\ Goto(p, "failed")
  /\ UNCHANGED <<inspectVars, raised, copyVars, reckless, late>>

-----------------------------------------------------------------------------
(* The artifacts, under the lock. *)

\* Compared by digest; for a database, snapshots of both are compared.
CompareArtifact(p) ==
  LET a == item[p] IN
  /\ pc[p] = "copy" /\ a \in Legacy
  /\ dest[a] # "legacy" /\ ~(dest[a] # "missing" /\ a \in beside)
  /\ Goto(p, IF dest[a] = "missing" THEN "publish" ELSE "keep")
  /\ UNCHANGED <<lockVars, inspectVars, raised, copyVars, reckless, late>>

\* No legacy file, an identical destination, or a legacy version already kept.
SkipArtifact(p) ==
  LET a == item[p] IN
  /\ pc[p] = "copy" /\ a \in Artifacts
  /\ a \notin Legacy \/ dest[a] = "legacy" \/ (dest[a] # "missing" /\ a \in beside)
  /\ item' = [item EXCEPT ![p] = @ + 1]
  /\ UNCHANGED <<lockVars, pc, inspectVars, raised, dest, beside, reckless, late>>

\* The staged copy replaces what is at the destination by now.
PublishArtifact(p) ==
  /\ pc[p] = "publish"
  /\ dest' = [dest EXCEPT ![item[p]] = "legacy"]
  /\ item' = [item EXCEPT ![p] = @ + 1]
  /\ late' = late \ {p}
  /\ Goto(p, "copy")
  /\ UNCHANGED <<lockVars, inspectVars, raised, beside, reckless>>

\* Mutant: the legacy version is kept over the destination.
KeepOver(p) ==
  /\ pc[p] = "keep"
  /\ dest' = [dest EXCEPT ![item[p]] = "legacy"]
  /\ item' = [item EXCEPT ![p] = @ + 1]
  /\ Goto(p, "copy")
  /\ UNCHANGED <<lockVars, inspectVars, raised, beside, reckless, late>>

KeepBeside(p) ==
  /\ pc[p] = "keep"
  /\ beside' = beside \cup {item[p]}
  /\ item' = [item EXCEPT ![p] = @ + 1]
  /\ Goto(p, "copy")
  /\ UNCHANGED <<lockVars, inspectVars, raised, dest, reckless, late>>

\* Mutant: an artifact that cannot be copied is left out.
CopyFailsQuietly(p) ==
  /\ pc[p] \in Copying /\ item[p] \in Artifacts /\ MayFail
  /\ item' = [item EXCEPT ![p] = @ + 1]
  /\ Goto(p, "copy")
  /\ UNCHANGED <<lockVars, inspectVars, raised, dest, beside, reckless, late>>

CopyFails(p) ==
  /\ pc[p] \in Copying /\ item[p] \in Artifacts /\ MayFail
  /\ raised' = raised \cup {p}
  /\ late' = late \ {p}
  /\ Goto(p, "release")
  /\ UNCHANGED <<lockVars, inspectVars, copyVars, reckless>>

CopiesDone(p) ==
  /\ pc[p] = "copy" /\ item[p] \notin Artifacts
  /\ Goto(p, "release")
  /\ UNCHANGED <<lockVars, inspectVars, raised, copyVars, reckless, late>>

-----------------------------------------------------------------------------
(* _release_owned_lock. *)

End(p) ==
  /\ Return(p, IF p \in raised THEN "failed" ELSE "started")
  /\ raised' = raised \ {p}
  /\ item' = [item EXCEPT ![p] = 1]

ReadOwnRecord(p) ==
  /\ pc[p] = "release" /\ RecordAtPath = p
  /\ seen' = [seen EXCEPT ![p] = lock]
  /\ owner' = [owner EXCEPT ![p] = p]
  /\ Goto(p, "releaseCheck")
  /\ UNCHANGED <<lockVars, raised, copyVars, reckless, late>>

CheckOwn(p) ==
  /\ pc[p] = "releaseCheck" /\ StillInspected(p)
  /\ Goto(p, "releaseRename")
  /\ UNCHANGED <<lockVars, inspectVars, raised, copyVars, reckless, late>>

QuarantineOwn(p) ==
  /\ pc[p] = "releaseRename"
  /\ Quarantine(p)
  /\ End(p)
  /\ UNCHANGED <<dest, beside, reckless, late>>

\* The lock is gone or somebody else's, cannot be read, or cannot be renamed.
ReleaseFails(p) ==
  /\ \/ pc[p] = "release" /\ (RecordAtPath # p \/ MayFail)
     \/ pc[p] = "releaseCheck" /\ (~StillInspected(p) \/ MayFail)
     \/ pc[p] = "releaseRename"
  /\ End(p)
  /\ UNCHANGED <<lockVars, dest, beside, reckless, late>>

-----------------------------------------------------------------------------
(* The surroundings. *)

Age ==
  /\ lock # None /\ lock \notin old
  /\ MaySuspend \/ ~InTheMaking(lock)
  /\ old' = old \cup {lock}
  /\ UNCHANGED <<lock, record, pc, inspectVars, raised, copyVars, reckless, late>>

\* An application writes its data, at any time: it takes no part in the lock,
\* and need not have migrated.
AppWrites ==
  \E a \in Artifacts :
    /\ dest[a] \in {"missing", "legacy"}
    /\ dest' = [dest EXCEPT ![a] = IF @ = "missing" THEN "new" ELSE "grown"]
    /\ late' = IF dest[a] = "missing"
               THEN late \cup {p \in Launch : pc[p] = "publish" /\ item[p] = a}
               ELSE late
    /\ UNCHANGED <<lockVars, pc, inspectVars, raised, item, beside, reckless>>

\* A process ends: a crash, or the end of the application.
ProcessEnds(p) ==
  /\ Running(p)
  /\ Return(p, "dead")
  /\ raised' = raised \ {p}
  /\ item' = [item EXCEPT ![p] = 1]
  /\ late' = late \ {p}
  /\ UNCHANGED <<lockVars, dest, beside, reckless>>

-----------------------------------------------------------------------------
Acquire(p) ==
  \/ MakeDirectory(p) \/ FindLock(p) \/ StatLock(p) \/ StatFails(p) \/ LockVanished(p)
  \/ IdentifyLock(p) \/ OwnerRunning(p) \/ InspectStale(p) \/ CheckStale(p)
  \/ QuarantineStale(p) \/ QuarantineFails(p) \/ Retry(p) \/ GiveUp(p)
  \/ StageRecord(p) \/ WriteRecord(p) \/ AcquireFails(p)
  \/ CheckOwnerless(p) \/ LeaveLock(p) \/ RemoveOwnerless(p)

Migrate(p) ==
  \/ CompareArtifact(p) \/ SkipArtifact(p) \/ PublishArtifact(p)
  \/ KeepBeside(p) \/ CopyFails(p) \/ CopiesDone(p)

Release(p) ==
  \/ ReadOwnRecord(p) \/ CheckOwn(p) \/ QuarantineOwn(p) \/ ReleaseFails(p)

Step(p) == Acquire(p) \/ Migrate(p) \/ Release(p)

Next ==
  \/ \E p \in Launch : Step(p) \/ ProcessEnds(p)
  \/ Age
  \/ AppWrites

Spec == Init /\ [][Next]_vars

\* A process that runs is scheduled, and a loop meets its deadline.
FairSpec ==
  /\ Spec
  /\ \A p \in Launch : WF_vars(Step(p)) /\ SF_vars(GiveUp(p))

-----------------------------------------------------------------------------
(* Properties. *)

\* Every variable keeps its type; a launch that inspects a lock or stages its
\* record looks at a directory, one that copies at an artifact.
TypeOK ==
  /\ lock \in Launch \cup {None}
  /\ record \in [Launch -> Launch \cup {None}]
  /\ old \subseteq Launch
  /\ pc \in [Launch -> Place]
  /\ seen \in [Launch -> Launch \cup {None}]
  /\ owner \in [Launch -> Launch \cup {None}]
  /\ raised \subseteq Launch
  /\ item \in [Launch -> 1..(ArtifactCount + 1)]
  /\ dest \in [Artifacts -> Content]
  /\ beside \subseteq Artifacts
  /\ reckless \subseteq Launch
  /\ late \subseteq {p \in Launch : pc[p] = "publish"}
  /\ \A p \in Launch : pc[p] \in {"read", "check", "rename", "record"} => seen[p] # None
  /\ \A p \in Launch : pc[p] \in {"publish", "keep"} => item[p] \in Artifacts

\* Two launches migrate at once only after one of them took a directory in use
\* for ownerless: it has no record yet, or it is old and its record could not be
\* read when it was inspected and when it was checked.  A crash, a stale lock, a
\* lock replaced meanwhile, a failed rename or a failed release never do it.
ExclusiveUnlessReckless ==
  reckless = {} =>
    \A p, q \in Launch : pc[p] \in Holding /\ pc[q] \in Holding => p = q

\* workflow_p.md:1250: the lock directory with its owner record serializes
\* concurrent launches.
Exclusive == \A p, q \in Launch : pc[p] \in Holding /\ pc[q] \in Holding => p = q

\* As long as the lock excludes the other launches, a launch replaces data other
\* than the legacy version only where an application has created it since the
\* launch found no destination: what was there at the comparison, and what an
\* earlier launch published and an application wrote to, is never replaced.
DestinationKept ==
  [][reckless = {} =>
       \A a \in Artifacts :
         dest[a] \in {"new", "grown"} /\ dest'[a] # dest[a] =>
           \E p \in late \ late' : item[p] = a]_vars

\* When the application starts, every legacy artifact is at its destination or
\* kept beside it, whatever the launches before it left.
LegacyMigrated ==
  \A p \in Launch : pc[p] = "started" =>
    \A a \in Legacy : dest[a] \in {"legacy", "grown"} \/ a \in beside

\* Every launch ends: no lock, stale, held or replaced, keeps it in the loop.
LaunchEnds == \A p \in Launch : <>(pc[p] \in Ended)
=============================================================================
