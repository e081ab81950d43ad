--------------------------- MODULE NodeDeployment ---------------------------
(***************************************************************************)
(* The Node deployment helper (tools/deploy/node*.mjs): apply, rollback    *)
(* and verify --resume under one lock file, with a journal per invocation, *)
(* next to the running server, an administrator and an operator.           *)
(***************************************************************************)
EXTENDS Integers, SequencesExt

CONSTANTS
  Helpers,     \* invocations of the helper
  Versions,
  Migrations,  \* the checksums of each version's migrations
  MaxConfig    \* bound on the configuration version

None == "none"

VARIABLES
  lock,       \* .deployment-lock.json: its owner
  pointer,    \* current.json
  dirs,       \* versions/
  backups,    \* backups/
  ledger,     \* schema_migrations
  config,     \* the stored configuration
  launching,  \* the version a launch read from current.json
  running,    \* the build that serves Control
  op,         \* the invocations
  journal,    \* journal/<owner>.json: the last phase
  effects     \* history: what an invocation has done

vars == <<lock, pointer, dirs, backups, ledger, config, launching, running,
          op, journal, effects>>

system == <<pointer, dirs, backups, ledger, config, launching, running>>

NoPointer == [version |-> None, previous |-> None]
Idle == [kind |-> None, pc |-> "idle", target |-> None, expected |-> None,
         snapshot |-> NoPointer, seen |-> 0]

Compatible(v) == IsPrefix(ledger, Migrations[v])
Matches(v) == ledger = Migrations[v]

Init ==
  /\ lock = None
  /\ \/ /\ pointer = NoPointer
        /\ dirs = {}
        /\ ledger = <<>>
        /\ running = None
     \/ \E v \in Versions :
          /\ pointer = [version |-> v, previous |-> None]
          /\ dirs = {v}
          /\ ledger = Migrations[v]
          /\ running = v
  /\ backups = {}
  /\ config = [version |-> 1, paused |-> FALSE]
  /\ launching = None
  /\ op = [h \in Helpers |-> Idle]
  /\ journal = [h \in Helpers |-> None]
  /\ effects = [h \in Helpers |-> {}]

-----------------------------------------------------------------------------
(* Journal and lock.                                                        *)

At(h, pc) == op[h].pc = pc
Goto(h, pc) == op' = [op EXCEPT ![h].pc = pc]
Did(h, e) == effects' = [effects EXCEPT ![h] = @ \union {e}]

\* journal.advance: only the owner of the lock writes its journal.
Advance(h, phase) == lock = h /\ journal' = [journal EXCEPT ![h] = phase]

\* beforeWrite
MayWrite(h) == lock = h /\ pointer = op[h].snapshot

\* A throw: the journal keeps the phase, the lock is released by its owner.
Fail(h) ==
  /\ Goto(h, "failed")
  /\ lock' = IF lock = h THEN None ELSE lock
  /\ UNCHANGED <<pointer, dirs, backups, ledger, config, launching, running,
                 journal, effects>>

\* The operator chooses the operation from what is active now.
Begin(h, kind, target) ==
  /\ At(h, "idle")
  /\ op' = [op EXCEPT ![h] = [Idle EXCEPT !.kind = kind, !.pc = "lock",
                                !.target = target,
                                !.expected = pointer.version]]
  /\ UNCHANGED <<system, lock, journal, effects>>

LockFree_Ignored == TRUE

LockFree == lock = None

\* withNodeDeploymentLock and the journal's first record.
Lock(h) ==
  /\ At(h, "lock")
  /\ \/ /\ LockFree
        /\ lock' = h
        /\ journal' = [journal EXCEPT ![h] = "preparing"]
        /\ op' = [op EXCEPT ![h].snapshot = pointer,
                            ![h].pc = IF op[h].kind = "apply" THEN "plan"
                                      ELSE "verify"]
        /\ UNCHANGED <<system, effects>>
     \/ ~LockFree /\ Fail(h)

-----------------------------------------------------------------------------
(* apply                                                                    *)

PlanFits(h) ==
  LET o == op[h]
  IN  /\ pointer.version = o.expected
      /\ pointer.version # o.target
      /\ o.target \notin dirs

\* createNodeDeploymentPlan: a fresh install needs no pause.
Plan(h) ==
  /\ At(h, "plan")
  /\ \/ /\ PlanFits(h)
        /\ Advance(h, "planned")
        /\ Goto(h, IF pointer.version = None THEN "extract" ELSE "verify")
        /\ UNCHANGED <<system, lock, effects>>
     \/ ~PlanFits(h) /\ Fail(h)

\* inspectInstalledDatabase of the active directory and the running build.
RunsPointer == running = pointer.version
Verified(h) ==
  /\ pointer.version # None
  /\ pointer.version \in dirs
  /\ Matches(pointer.version)
  /\ RunsPointer

\* rollbackNodeDeploymentLocked: the previous build must fit the database.
SameSchema == Matches(pointer.previous)
RollbackFits(h) ==
  op[h].kind = "rollback" =>
    /\ pointer.version = op[h].expected
    /\ pointer.previous # None
    /\ pointer.previous \in dirs
    /\ SameSchema

RequestPhase(h) ==
  IF op[h].kind = "resume" THEN "resume-requested" ELSE "pause-requested"

\* verifyNodeDeploymentUnlocked, then the intent to pause or to resume.
Verify(h) ==
  /\ At(h, "verify")
  /\ \/ /\ Verified(h) /\ RollbackFits(h)
        /\ Advance(h, RequestPhase(h))
        /\ op' = [op EXCEPT ![h].pc = "read", ![h].seen = config.version]
        /\ UNCHANGED <<system, lock, effects>>
     \/ ~(Verified(h) /\ RollbackFits(h)) /\ Fail(h)

-----------------------------------------------------------------------------
(* setGatewayPaused                                                         *)

Wanted(h) == op[h].kind # "resume"
AfterPause(h) ==
  [apply |-> "confirm-apply", rollback |-> "confirm", resume |-> "confirm"]
    [op[h].kind]

ReadConfig(h) ==
  /\ At(h, "read")
  /\ \/ /\ running # None
        /\ config.version = op[h].seen
        /\ Goto(h, IF config.paused = Wanted(h) THEN AfterPause(h) ELSE "put")
        /\ UNCHANGED <<system, lock, journal, effects>>
     \/ (running = None \/ config.version # op[h].seen) /\ Fail(h)

\* PUT /config/gateway-paused with If-Match; its answer may be lost.
PutApplies(h) == running # None /\ config.version = op[h].seen
Put(h) ==
  /\ At(h, "put")
  /\ \/ /\ MayWrite(h)
        /\ PutApplies(h)
        /\ config.version < MaxConfig
        /\ config' = [version |-> config.version + 1, paused |-> Wanted(h)]
        /\ Did(h, IF Wanted(h) THEN "pause" ELSE "resume")
        /\ \/ /\ op' = [op EXCEPT ![h].pc = AfterPause(h),
                                  ![h].seen = config.version + 1]
              /\ UNCHANGED lock
           \/ Goto(h, "failed") /\ lock' = None
        /\ UNCHANGED <<pointer, dirs, backups, ledger, launching, running,
                       journal>>
     \/ ~(MayWrite(h) /\ PutApplies(h)) /\ Fail(h)

\* pause-confirmed or resume-confirmed
Confirm(h) ==
  /\ At(h, "confirm")
  /\ \/ /\ op[h].kind = "rollback"
        /\ Advance(h, "pause-confirmed")
        /\ Goto(h, "activate")
        /\ UNCHANGED <<system, lock, effects>>
     \/ /\ op[h].kind = "resume" /\ MayWrite(h)
        /\ Advance(h, "resume-confirmed")
        /\ Goto(h, "release")
        /\ UNCHANGED <<system, lock, effects>>
     \/ (lock # h \/ (op[h].kind = "resume" /\ ~MayWrite(h))) /\ Fail(h)

-----------------------------------------------------------------------------
(* Backup, extraction and activation                                        *)

\* pause-confirmed, beforeWrite and backup-started
StartBackup(h) ==
  /\ At(h, "confirm-apply")
  /\ \/ /\ MayWrite(h)
        /\ Advance(h, "backup-started")
        /\ Goto(h, "copy")
        /\ UNCHANGED <<system, lock, effects>>
     \/ ~MayWrite(h) /\ Fail(h)

\* backupDatabase: what is copied must be the confirmed paused instance.
BackupFits(h) == Matches(pointer.version) /\ config.version = op[h].seen

Copy(h) ==
  /\ At(h, "copy")
  /\ \/ /\ BackupFits(h)
        /\ backups' = backups \union {[ledger |-> ledger,
                                       paused |-> config.paused]}
        /\ Did(h, "backup")
        /\ Advance(h, "backup-verified")
        /\ Goto(h, "extract")
        /\ UNCHANGED <<lock, pointer, dirs, ledger, config, launching, running>>
     \/ ~BackupFits(h) /\ Fail(h)

StartExtract(h) ==
  /\ At(h, "extract")
  /\ \/ /\ MayWrite(h)
        /\ Advance(h, "extracting")
        /\ Goto(h, "unpack")
        /\ UNCHANGED <<system, lock, effects>>
     \/ ~MayWrite(h) /\ Fail(h)

Extends_NotShorter(h) == op[h].snapshot.version # None =>
  Len(Migrations[op[h].snapshot.version]) <= Len(Migrations[op[h].target])

\* extractVersion, then the comparison of the two migration manifests.
Extends(h) == op[h].snapshot.version # None =>
  IsPrefix(Migrations[op[h].snapshot.version], Migrations[op[h].target])
Unpack(h) ==
  /\ At(h, "unpack")
  /\ dirs' = dirs \union {op[h].target}
  /\ Did(h, "extract")
  /\ \/ Extends(h) /\ Goto(h, "activate") /\ UNCHANGED lock
     \/ ~Extends(h) /\ Goto(h, "failed") /\ lock' = None
  /\ UNCHANGED <<pointer, backups, ledger, config, launching, running, journal>>

NewPointer(h) ==
  [version  |-> IF op[h].kind = "apply" THEN op[h].target
                ELSE op[h].snapshot.previous,
   previous |-> op[h].snapshot.version]

\* beforeWrite and activation-requested
Activate(h) ==
  /\ At(h, "activate")
  /\ \/ /\ MayWrite(h)
        /\ Advance(h, "activation-requested")
        /\ Goto(h, "pointer")
        /\ UNCHANGED <<system, lock, effects>>
     \/ ~MayWrite(h) /\ Fail(h)

\* writeJsonAtomic of current.json
WritePointer(h) ==
  /\ At(h, "pointer")
  /\ pointer' = NewPointer(h)
  /\ Did(h, "activate")
  /\ Goto(h, "record")
  /\ UNCHANGED <<lock, dirs, backups, ledger, config, launching, running,
                 journal>>

Record(h) ==
  /\ At(h, "record")
  /\ \/ /\ Advance(h, "restart-required")
        /\ Goto(h, "release")
        /\ UNCHANGED <<system, lock, effects>>
     \/ lock # h /\ Fail(h)

Release(h) ==
  /\ At(h, "release")
  /\ Goto(h, "done")
  /\ lock' = IF lock = h THEN None ELSE lock
  /\ UNCHANGED <<system, journal, effects>>

-----------------------------------------------------------------------------
(* The surroundings                                                         *)

Working(h) == op[h].pc \notin {"idle", "lock", "failed", "done", "crashed"}

\* The helper is killed: the lock file stays.
Crash(h) ==
  /\ Working(h)
  /\ Goto(h, "crashed")
  /\ UNCHANGED <<system, lock, journal, effects>>

\* The operator removes the lock once its helper is known to have stopped.
RecoverLock(h) ==
  /\ lock = h /\ At(h, "crashed")
  /\ lock' = None
  /\ UNCHANGED <<system, op, journal, effects>>

\* --mode launch reads current.json, then imports the build.
Launch ==
  /\ running = None /\ launching = None
  /\ pointer.version # None
  /\ launching' = pointer.version
  /\ UNCHANGED <<lock, pointer, dirs, backups, ledger, config, running, op,
                 journal, effects>>

\* The build opens the database, applies its migrations or refuses.
Open ==
  /\ launching # None
  /\ launching' = None
  /\ IF Compatible(launching)
       THEN running' = launching /\ ledger' = Migrations[launching]
       ELSE UNCHANGED <<running, ledger>>
  /\ UNCHANGED <<lock, pointer, dirs, backups, config, op, journal, effects>>

Stop ==
  /\ running # None
  /\ running' = None
  /\ UNCHANGED <<lock, pointer, dirs, backups, ledger, config, launching, op,
                 journal, effects>>

\* An administrator saves the configuration.
Administer(paused) ==
  /\ running # None
  /\ config.version < MaxConfig
  /\ config' = [version |-> config.version + 1, paused |-> paused]
  /\ UNCHANGED <<lock, pointer, dirs, backups, ledger, launching, running, op,
                 journal, effects>>

Help(h) ==
  \/ \E v \in Versions : Begin(h, "apply", v)
  \/ \E k \in {"rollback", "resume"} : Begin(h, k, None)
  \/ Lock(h) \/ Plan(h) \/ Verify(h) \/ ReadConfig(h) \/ Put(h) \/ Confirm(h)
  \/ StartBackup(h) \/ Copy(h) \/ StartExtract(h) \/ Unpack(h) \/ Activate(h)
  \/ WritePointer(h) \/ Record(h) \/ Release(h) \/ Crash(h) \/ RecoverLock(h)

Next ==
  \/ \E h \in Helpers : Help(h)
  \/ Launch \/ Open \/ Stop
  \/ \E p \in BOOLEAN : Administer(p)

Spec == Init /\ [][Next]_vars

-----------------------------------------------------------------------------
(* The active version can always open the database: an update never drops  *)
(* or rewrites an applied migration and a rollback never goes behind one,  *)
(* with launches, crashes and recovered locks in between.                  *)
PointerRuns == pointer.version # None => Compatible(pointer.version)

(* Every change of current.json replaces the version the operator named    *)
(* and remembers exactly that version as the previous one.                 *)
ReplacesExpected ==
  pointer' # pointer =>
    /\ pointer'.previous = pointer.version
    /\ \E h \in Helpers : /\ At(h, "pointer")
                          /\ op[h].kind # "resume"
                          /\ op[h].expected = pointer.version

(* An update across schemas, which the helper cannot roll back, leaves a   *)
(* backup of the previous schema taken while the gateway was paused.       *)
UpdateIsRecoverable ==
  pointer.previous # None /\ Migrations[pointer.previous] # Migrations[pointer.version] =>
    [ledger |-> Migrations[pointer.previous], paused |-> TRUE] \in backups

\* The effects each journal phase admits to.
Admits(phase) ==
  LET saved == {"pause", "backup"}
  IN  CASE phase \in {"pause-requested", "resume-requested", "pause-confirmed",
                      "resume-confirmed"} -> {"pause", "resume"}
        [] phase \in {"backup-started", "backup-verified"} -> saved
        [] phase = "extracting" -> saved \union {"extract"}
        [] phase \in {"activation-requested", "restart-required"} ->
             saved \union {"extract", "activate"}
        [] OTHER -> {}

(* "Intent is persisted before a side effect": whenever a helper is killed *)
(* its journal names every effect it may have had.                         *)
IntentRecorded == \A h \in Helpers : effects[h] \subseteq Admits(journal[h])

(* The helper resumes traffic only on the build the pointer names, whatever *)
(* was stopped, launched or saved since it verified.                       *)
ResumesActiveBuild ==
  \A h \in Helpers :
    "resume" \in effects'[h] \ effects[h] =>
      running = pointer.version /\ Matches(running)
=============================================================================
