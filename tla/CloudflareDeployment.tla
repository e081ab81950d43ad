------------------------ MODULE CloudflareDeployment ------------------------
(***************************************************************************)
(* The Cloudflare deployment helper (tools/deploy/cloudflare*.mjs):        *)
(* install, apply, verify, rollback, cleanup and adopt, run by operators   *)
(* on several machines.  Each machine keeps a checkpoint, state.json; the  *)
(* machines share one coordination row in D1, which a failed or killed     *)
(* operation keeps.                                                        *)
(***************************************************************************)
EXTENDS Integers

CONSTANTS
  Helpers,      \* processes of the helper
  Machines,
  Builds,
  Schema,       \* the schema each build migrates to
  MaxRevision,  \* bound on the revision of the coordination row
  MaxFaults     \* bound on failed and killed steps

None == "none"

VARIABLES
  host,     \* the machine of each process
  row,      \* the coordination row: absent, empty (table only) or present
  d1,       \* the database: its identity, and whether it is still there
  schema,   \* its migrations
  active,   \* the active version of each Worker, named by its build
  paused,   \* gatewayPaused, as Control has it
  backups,  \* exports of the database
  local,    \* state.json of each machine
  op,       \* the operation of each process
  foreign,  \* history: a Worker was deployed behind the helper's back
  past,     \* history: the builds deployed on this database, and if one was again
  faults

vars == <<host, row, d1, schema, active, paused, backups, local, op, foreign,
          past, faults>>
remote == <<row, d1, schema, active, paused, backups, past>>

NoPast == [builds |-> {}, reused |-> FALSE]
NoPrevious == [build |-> None, schema |-> 0]
NoState == [status |-> None, build |-> None, db |-> 0,
            versions |-> [control |-> None, gateway |-> None],
            previous |-> NoPrevious]
NoLock == [owner |-> None, revision |-> -1]
NoRow == [is |-> "absent", owner |-> None, build |-> None, revision |-> 0]
Idle == [kind |-> None, pc |-> "idle", target |-> None, mine |-> NoState,
         revision |-> -1, build |-> None, recover |-> NoLock]

Both(b) == [control |-> b, gateway |-> b]
Deployed(b) == [NoState EXCEPT !.status = "verified", !.build = b,
                               !.db = 1, !.versions = Both(b)]
Free(b) == [NoRow EXCEPT !.is = "present", !.build = b]

\* Nothing installed; installed before there was coordination; or installed.
Init ==
  /\ host \in [Helpers -> Machines]
  /\ \/ /\ d1 = [id |-> 0, live |-> FALSE] /\ schema = 0
        /\ active = Both(None) /\ row = NoRow
        /\ local = [m \in Machines |-> NoState] /\ past = NoPast
     \/ \E b \in Builds :
          /\ d1 = [id |-> 1, live |-> TRUE] /\ schema = Schema[b]
          /\ active = Both(b)
          /\ row \in {NoRow, Free(b)}
          /\ local = [m \in Machines |-> Deployed(b)]
          /\ past = [NoPast EXCEPT !.builds = {b}]
  /\ paused = FALSE
  /\ backups = {}
  /\ op = [h \in Helpers |-> Idle]
  /\ foreign = FALSE
  /\ faults = 0

-----------------------------------------------------------------------------
(* Operations and their checkpoints                                         *)

At(h, k, pc) == op[h].kind = k /\ op[h].pc = pc
Goto(h, pc) == op' = [op EXCEPT ![h].pc = pc]
Mine(h) == op[h].mine
Status(h, s) == [Mine(h) EXCEPT !.status = s]

\* writePrivateJson of the checkpoint, kept in memory too.
Write(h, state, pc) ==
  /\ local' = [local EXCEPT ![host[h]] = state]
  /\ op' = [op EXCEPT ![h].mine = state, ![h].pc = pc]

\* A query goes to the database whose identity is in the checkpoint.
Reached(h) == d1.live /\ d1.id = Mine(h).db

\* assertOwned: before every command, request and checkpoint.
Owned(h) ==
  /\ Reached(h) /\ row.is = "present"
  /\ row.owner = h
  /\ row.revision = op[h].revision
  /\ row.build = op[h].build

\* What throws ends the process; a failed apply marks its checkpoint, and
\* the coordination row stays as it is.
Retained == row
Marks(h) == op[h].kind = "apply" /\ op[h].pc # "acquire" /\ Owned(h)
Throw(h) ==
  /\ op' = [op EXCEPT ![h] = Idle]
  /\ row' = Retained
  /\ local' = IF Marks(h)
                THEN [local EXCEPT ![host[h]].status = "failed"] ELSE local
  /\ UNCHANGED <<host, d1, schema, active, paused, backups, past, foreign, faults>>

Kinds == {"verify", "rollback", "cleanup"}

\* What each operation asks of the checkpoint before it starts.
Ready(kind, state, target) ==
  CASE kind = "install"  -> state = NoState /\ ~d1.live /\ active = Both(None)
    [] kind = "apply"    -> state # NoState /\ state.build # target
    [] kind = "adopt"    -> state.status \in {"verified", "rolled-back"}
    [] kind = "verify"   -> state.status \in {"awaiting-verification",
                                              "verified", "rolled-back"}
    [] kind = "rollback" -> state.previous # NoPrevious
    [] kind = "cleanup"  -> state # NoState

\* A recovery names the owner and revision it found, and the operator
\* confirms that every helper has stopped.
TheLock == [owner |-> row.owner, revision |-> row.revision]
Stopped == row.owner # None /\ \A h \in Helpers : op[h].pc = "idle"

Begin(h, kind, target, recover) ==
  /\ op[h].pc = "idle"
  /\ Ready(kind, local[host[h]], target)
  /\ recover => Stopped
  /\ op' = [op EXCEPT ![h] =
       [Idle EXCEPT !.kind = kind, !.target = target,
                    !.recover = IF recover THEN TheLock ELSE NoLock,
                    !.mine = local[host[h]],
                    !.pc = CASE kind = "install" -> "create"
                             [] kind = "adopt" -> "check"
                             [] OTHER -> "acquire"]]
  /\ UNCHANGED <<host, remote, local, foreign, faults>>

-----------------------------------------------------------------------------
(* Coordination                                                             *)

Recovers(h) == op[h].recover # NoLock
ExpectedBuild(h) ==
  IF Recovers(h) THEN row.build
  ELSE IF op[h].kind = "install" THEN None ELSE Mine(h).build
Acquirable(h) ==
  /\ Reached(h) /\ row.is = "present"
  /\ row.build = ExpectedBuild(h)
  /\ IF Recovers(h) THEN TheLock = op[h].recover ELSE row.owner = None

\* acquire: one conditional UPDATE; its answer may be lost.
Acquire(h, next) ==
  \/ /\ Acquirable(h)
     /\ row.revision < MaxRevision
     /\ row' = [row EXCEPT !.owner = h, !.revision = @ + 1]
     /\ \/ /\ op' = [op EXCEPT ![h].pc = next, ![h].build = row.build,
                               ![h].revision = row.revision + 1]
           /\ UNCHANGED faults
        \/ /\ faults < MaxFaults /\ faults' = faults + 1
           /\ op' = [op EXCEPT ![h] = Idle]
     /\ UNCHANGED <<host, d1, schema, active, paused, backups, past, local, foreign>>
  \/ ~Acquirable(h) /\ Throw(h)

\* guardedCloudflareOperation of everything but install and adopt.
Guarded(h) ==
  /\ op[h].kind \in {"apply"} \union Kinds /\ op[h].pc = "acquire"
  /\ Acquire(h, [apply |-> "check", verify |-> "check", rollback |-> "pause",
                 cleanup |-> "gateway"][op[h].kind])

\* initialize: CREATE TABLE fails when the table exists; then the row.
CreateTable(h) ==
  /\ op[h].kind \in {"install", "adopt"} /\ op[h].pc = "initialize"
  /\ \/ /\ row.is = "absent" /\ Reached(h)
        /\ row' = [row EXCEPT !.is = "empty"]
        /\ Goto(h, "insert")
        /\ UNCHANGED <<host, d1, schema, active, paused, backups, past, local,
                       foreign, faults>>
     \/ ~(row.is = "absent" /\ Reached(h)) /\ Throw(h)
InsertRow(h) ==
  /\ op[h].kind \in {"install", "adopt"} /\ op[h].pc = "insert"
  /\ row' = Free(IF op[h].kind = "install" THEN None ELSE Mine(h).build)
  /\ Goto(h, "acquire")
  /\ UNCHANGED <<host, d1, schema, active, paused, backups, past, local, foreign,
                 faults>>
AcquireFirst(h) ==
  /\ op[h].kind \in {"install", "adopt"} /\ op[h].pc = "acquire"
  /\ Acquire(h, IF op[h].kind = "install" THEN "migrate" ELSE "record")

\* complete(result.buildId): the only release.
Complete(h) ==
  /\ op[h].pc = "complete"
  /\ \/ /\ Owned(h)
        /\ row' = [Free(Mine(h).build) EXCEPT !.revision = row.revision + 1]
        /\ op' = [op EXCEPT ![h] = Idle]
        /\ UNCHANGED <<host, d1, schema, active, paused, backups, past, local,
                       foreign, faults>>
     \/ ~Owned(h) /\ Throw(h)

-----------------------------------------------------------------------------
(* Commands: wrangler or a request to Control.  A command that fails may    *)
(* have had its effect.                                                     *)

Command(h, pc, effect) ==
  \/ /\ Owned(h)
     /\ effect
     /\ Goto(h, pc)
     /\ UNCHANGED <<host, row, d1, local, foreign, faults>>
  \/ /\ Owned(h)
     /\ faults < MaxFaults /\ faults' = faults + 1
     /\ effect
     /\ op' = [op EXCEPT ![h] = Idle]
     /\ local' = IF Marks(h)
                   THEN [local EXCEPT ![host[h]].status = "failed"] ELSE local
     /\ row' = Retained
     /\ UNCHANGED <<host, d1, foreign>>
  \/ ~Owned(h) /\ Throw(h)

Migrates(h) ==
  /\ schema' = IF Schema[op[h].target] > schema THEN Schema[op[h].target]
               ELSE schema
  /\ UNCHANGED <<active, paused, backups, past>>
Deploys(w, b) ==
  /\ active' = [active EXCEPT ![w] = b]
  /\ UNCHANGED <<schema, paused, backups, past>>
\* A build that is new to the deployment, unless the operator reuses it.
Introduces(b) ==
  /\ active' = [active EXCEPT !.control = b]
  /\ past' = [builds |-> past.builds \union {b},
              reused |-> past.reused \/ b \in past.builds]
  /\ UNCHANGED <<schema, paused, backups>>
Pauses(value) ==
  /\ active.control # None
  /\ paused' = value
  /\ UNCHANGED <<schema, active, backups, past>>
Exports(h) ==
  /\ backups' = backups \union {[build |-> Mine(h).build, schema |-> schema]}
  /\ UNCHANGED <<schema, active, paused, past>>

\* assertActiveVersions
ActiveVersions(h) == active = Mine(h).versions

\* A checkpoint, or the throw of what was checked before it.
Checkpoint(h, fits, state, pc) ==
  \/ /\ Owned(h) /\ fits
     /\ Write(h, state, pc)
     /\ UNCHANGED <<host, remote, foreign, faults>>
  \/ ~(Owned(h) /\ fits) /\ Throw(h)

-----------------------------------------------------------------------------
(* apply: inventoryCloudflareUpdate                                         *)

CheckUpdate(h) ==
  /\ At(h, "apply", "check")
  /\ Checkpoint(h, /\ Mine(h).status \in {"verified", "rolled-back"}
                   /\ ActiveVersions(h) /\ active.control = Mine(h).build,
                [Status(h, "updating") EXCEPT !.previous = NoPrevious], "pause")
PauseUpdate(h) ==
  At(h, "apply", "pause") /\ Command(h, "backup", Pauses(TRUE))
BackupUpdate(h) ==
  At(h, "apply", "backup") /\ Command(h, "recorded", Exports(h))

\* checkpoint.previous: what a rollback goes back to.
BackedUp(h) ==
  [Mine(h) EXCEPT !.previous = [build |-> Mine(h).build, schema |-> schema]]
RecordBackup_AfterMigration(h) ==
  /\ At(h, "apply", "recorded")
  /\ Checkpoint(h, TRUE, Mine(h), "recheck")

RecordBackup(h) ==
  /\ At(h, "apply", "recorded")
  /\ Checkpoint(h, TRUE, BackedUp(h), "recheck")
RecheckUpdate(h) ==
  /\ At(h, "apply", "recheck")
  /\ Checkpoint(h, ActiveVersions(h), Mine(h), "migrate")
Migrate(h) ==
  /\ op[h].kind \in {"install", "apply"} /\ op[h].pc = "migrate"
  /\ Command(h, "control", Migrates(h))
DeployControl(h) ==
  /\ op[h].kind \in {"install", "apply"} /\ op[h].pc = "control"
  /\ Command(h, "gateway", Introduces(op[h].target))
DeployGateway(h) ==
  /\ op[h].kind \in {"install", "apply"} /\ op[h].pc = "gateway"
  /\ Command(h, "finish", Deploys("gateway", op[h].target))
FinishDeploy(h) ==
  /\ op[h].kind \in {"install", "apply"} /\ op[h].pc = "finish"
  /\ Checkpoint(h, TRUE, [Status(h, "awaiting-verification")
                            EXCEPT !.build = op[h].target, !.versions = active],
                "complete")

-----------------------------------------------------------------------------
(* install                                                                  *)

\* wrangler d1 create: names are unique.
CreateDatabase(h) ==
  /\ At(h, "install", "create")
  /\ \/ /\ ~d1.live
        /\ d1' = [id |-> d1.id + 1, live |-> TRUE] /\ past' = NoPast
        /\ Write(h, [NoState EXCEPT !.status = "provisioning",
                                    !.build = op[h].target, !.db = d1.id + 1],
                 "initialize")
        /\ UNCHANGED <<host, row, schema, active, paused, backups, foreign,
                       faults>>
     \/ d1.live /\ Throw(h)

-----------------------------------------------------------------------------
(* verify, rollback, cleanup, adopt                                         *)

\* Versions, health and capabilities; --resume is the operator's choice.
CheckVerify(h) ==
  /\ At(h, "verify", "check")
  /\ \/ /\ Owned(h) /\ ActiveVersions(h) /\ active.control = Mine(h).build
        /\ \E pc \in {"resume", "record"} : Goto(h, pc)
        /\ UNCHANGED <<host, remote, local, foreign, faults>>
     \/ /\ ~(Owned(h) /\ ActiveVersions(h) /\ active.control = Mine(h).build)
        /\ Throw(h)
Resume(h) == At(h, "verify", "resume") /\ Command(h, "record", Pauses(FALSE))
RecordVerify(h) ==
  /\ At(h, "verify", "record")
  /\ Checkpoint(h, TRUE, Status(h, "verified"), "complete")

PauseRollback(h) ==
  At(h, "rollback", "pause") /\ Command(h, "gateway", Pauses(TRUE))
RollbackGateway(h) ==
  /\ At(h, "rollback", "gateway")
  /\ Command(h, "control", Deploys("gateway", Mine(h).previous.build))
RollbackControl(h) ==
  /\ At(h, "rollback", "control")
  /\ Command(h, "record", Deploys("control", Mine(h).previous.build))
RecordRollback(h) ==
  LET b == Mine(h).previous.build
  IN  /\ At(h, "rollback", "record")
      /\ Checkpoint(h, active = Both(b),
           [Status(h, "rolled-back") EXCEPT !.build = b, !.versions = Both(b)],
           "complete")

\* A deletion is believed only when the Worker is no longer listed.
Gone(w) == active[w] = None
DeleteWorker(h, w, next) ==
  /\ At(h, "cleanup", w)
  /\ \/ Command(h, next, Deploys(w, None))
     \/ /\ faults < MaxFaults /\ faults' = faults + 1
        /\ Owned(h)
        /\ IF Gone(w) THEN Goto(h, next) ELSE op' = [op EXCEPT ![h] = Idle]
        /\ UNCHANGED <<host, remote, local, foreign>>
DeleteGateway(h) == DeleteWorker(h, "gateway", "control")
DeleteControl(h) == DeleteWorker(h, "control", "intent")
RecordCleanup(h) ==
  /\ At(h, "cleanup", "intent")
  /\ Checkpoint(h, TRUE, Status(h, "cleanup-database-intent"), "database")
\* The row goes with the database; the last checks only read.
DeleteDatabase(h) ==
  /\ At(h, "cleanup", "database")
  /\ \/ /\ Owned(h)
        /\ d1' = [d1 EXCEPT !.live = FALSE] /\ row' = NoRow /\ schema' = 0
        /\ local' = [local EXCEPT ![host[h]].status =
                       IF active = Both(None) THEN "cleanup-verified" ELSE @]
        /\ op' = [op EXCEPT ![h] = Idle]
        /\ UNCHANGED <<host, active, paused, backups, past, foreign, faults>>
     \/ ~Owned(h) /\ Throw(h)

\* Adoption has no lock before its own initialize.
CheckAdopt(h) ==
  /\ At(h, "adopt", "check")
  /\ \/ /\ Reached(h) /\ row.is = "absent"
        /\ ActiveVersions(h) /\ active.control = Mine(h).build
        /\ Goto(h, "pause")
        /\ UNCHANGED <<host, remote, local, foreign, faults>>
     \/ /\ ~(Reached(h) /\ row.is = "absent" /\ ActiveVersions(h))
        /\ Throw(h)
PauseAdopt(h) ==
  /\ At(h, "adopt", "pause")
  /\ Pauses(TRUE)
  /\ Goto(h, "export")
  /\ UNCHANGED <<host, row, d1, local, foreign, faults>>
ExportAdopt(h) ==
  /\ At(h, "adopt", "export")
  /\ \/ /\ ActiveVersions(h)
        /\ Exports(h)
        /\ Goto(h, "initialize")
        /\ UNCHANGED <<host, row, d1, local, foreign, faults>>
     \/ ~ActiveVersions(h) /\ Throw(h)
RecordAdopt(h) ==
  At(h, "adopt", "record") /\ Checkpoint(h, TRUE, Mine(h), "complete")

-----------------------------------------------------------------------------
\* The process is killed, or its request times out, between two steps.
Crash(h) ==
  /\ op[h].pc # "idle"
  /\ faults < MaxFaults /\ faults' = faults + 1
  /\ op' = [op EXCEPT ![h] = Idle]
  /\ UNCHANGED <<host, remote, local, foreign>>

\* Somebody deploys a Worker without the helper.
OutOfBand(w, b) ==
  /\ ~foreign /\ active[w] \notin {None, b}
  /\ active' = [active EXCEPT ![w] = b]
  /\ foreign' = TRUE
  /\ UNCHANGED <<host, row, d1, schema, paused, backups, past, local, op, faults>>

Administer ==
  /\ active.control # None
  /\ paused' = ~paused
  /\ UNCHANGED <<host, row, d1, schema, active, backups, past, local, op, foreign,
                 faults>>

Apply(h) == CheckUpdate(h) \/ PauseUpdate(h) \/ BackupUpdate(h)
            \/ RecordBackup(h) \/ RecheckUpdate(h) \/ Migrate(h)
            \/ DeployControl(h) \/ DeployGateway(h) \/ FinishDeploy(h)
Verify(h) == CheckVerify(h) \/ Resume(h) \/ RecordVerify(h)
Rollback(h) == PauseRollback(h) \/ RollbackGateway(h) \/ RollbackControl(h)
               \/ RecordRollback(h)
Cleanup(h) == DeleteGateway(h) \/ DeleteControl(h) \/ RecordCleanup(h)
              \/ DeleteDatabase(h)
Adopt(h) == CheckAdopt(h) \/ PauseAdopt(h) \/ ExportAdopt(h) \/ RecordAdopt(h)

Next ==
  \/ \E h \in Helpers :
       \/ \E b \in Builds, k \in {"install", "apply"} : Begin(h, k, b, FALSE)
       \/ Begin(h, "adopt", None, FALSE)
       \/ \E k \in Kinds, r \in BOOLEAN : Begin(h, k, None, r)
       \/ Guarded(h) \/ CreateDatabase(h) \/ CreateTable(h) \/ InsertRow(h)
       \/ AcquireFirst(h) \/ Complete(h)
       \/ Apply(h) \/ Verify(h) \/ Rollback(h) \/ Cleanup(h) \/ Adopt(h)
       \/ Crash(h)
  \/ \E w \in {"control", "gateway"}, b \in Builds : OutOfBand(w, b)
  \/ Administer

Spec == Init /\ [][Next]_vars

-----------------------------------------------------------------------------
Uncoordinated == row.is # "present" \/ foreign

(* A free coordination row stands for a whole deployment: both Workers run *)
(* the build it names, and the schema is at least that build's.  What was  *)
(* interrupted keeps the row.                                              *)
FreeMeansWhole ==
  Uncoordinated \/ row.owner # None \/ row.build = None
    \/ (active = Both(row.build) /\ schema >= Schema[row.build])

(* An interrupted update or rollback has a way back: whenever the two      *)
(* Workers run different builds, some machine's checkpoint names one of    *)
(* the two as the build to roll back to, with the backup of its database.  *)
(* A checkpoint is read before the lock is taken, so this rests on build   *)
(* identifiers that are not reused, which the helper asks of the operator. *)
MixedHasWayBack ==
  \/ Uncoordinated \/ row.build = None \/ active.control = active.gateway
  \/ past.reused
  \/ \E w \in {"control", "gateway"} : active[w] = None
  \/ \E m \in Machines :
       /\ local[m].db = d1.id
       /\ local[m].previous.build \in {active.control, active.gateway}
       /\ local[m].previous \in backups

(* A free row never leaves every checkpoint of its build in a status that  *)
(* neither verify nor rollback nor apply accepts: a process that lost the  *)
(* race for the row does not mark the winner's checkpoint as failed.       *)
NoDeadEnd ==
  Uncoordinated \/ row.owner # None \/ row.build = None
    \/ \E m \in Machines :
         /\ local[m].build = row.build /\ local[m].db = d1.id
         /\ local[m].status \in {"awaiting-verification", "verified",
                                 "rolled-back"}

(* The database, and with it the row, is deleted only after both Workers   *)
(* are known to be gone.                                                   *)
DatabaseOutlivesWorkers == d1.live \/ foreign \/ active = Both(None)

(* The helper resumes traffic only while both Workers run the build it     *)
(* verified, unless one was deployed behind its back.                      *)
ResumesWhole ==
  \A h \in Helpers :
    At(h, "verify", "resume") /\ ~paused' /\ op'[h].pc = "record" =>
      foreign \/ active = Both(Mine(h).build)
=============================================================================
