------------------------- MODULE SupabaseDeployment -------------------------
(***************************************************************************)
(* The Supabase deployment script (adapters/supabase/scripts): preflight,  *)
(* apply and the recovery of a failed apply, by several operators, under   *)
(* the expiring lease of migration 202609040010_deployment_cas.sql.        *)
(***************************************************************************)
EXTENDS Integers, Sequences

CONSTANTS
  Helpers,   \* runs of the script
  Builds,
  Schema,    \* the schema each build migrates to
  MaxFaults  \* bound on failed and killed steps

None == "none"
Slugs == <<"control", "gateway">>  \* deploymentFunctionSlugs

VARIABLES
  dep,      \* deployment_state: build, lease, pending, live (not expired)
  fn,       \* the build of each deployed Function
  schema,   \* the applied migrations
  paused,   \* gatewayPaused
  backups,  \* logical backups
  record,   \* the state file of each run
  op,       \* the runs; late: the lease ran out under one of its commands
  faults

vars == <<dep, fn, schema, paused, backups, record, op, faults>>
remote == <<dep, fn, schema, paused, backups>>

Both(b) == [control |-> b, gateway |-> b]
Unleased(b) == [build |-> b, lease |-> None, pending |-> None, live |-> FALSE]
NoRecord == [status |-> None, attempted |-> {}, recovered |-> FALSE]
Idle == [pc |-> "idle", target |-> None, expected |-> None, resume |-> FALSE,
         inventory |-> Both(None), captured |-> Both(None), next |-> 1,
         restored |-> {}, leased |-> FALSE, recovered |-> FALSE, late |-> FALSE]

Init ==
  /\ \/ /\ dep = Unleased(None) /\ fn = Both(None)
        /\ schema \in {0, 1}
     \/ \E b \in Builds : /\ dep = Unleased(b) /\ fn = Both(b)
                          /\ schema = Schema[b]
  /\ paused = FALSE
  /\ backups = {}
  /\ record = [h \in Helpers |-> NoRecord]
  /\ op = [h \in Helpers |-> Idle]
  /\ faults = 0

-----------------------------------------------------------------------------
At(h, pc) == op[h].pc = pc
Goto(h, pc) == op' = [op EXCEPT ![h].pc = pc]
Update(h) == op[h].expected # None

\* A process that ends keeps nothing but its state file.
Exit(h) == op' = [op EXCEPT ![h] = [Idle EXCEPT !.pc = "done", !.late = op[h].late]]

\* A throw after preflight ends in the catch block.
Throw(h) == Goto(h, "recover") /\ UNCHANGED <<remote, record, faults>>
Fault == faults < MaxFaults /\ faults' = faults + 1

\* of_acquire_deployment_lease
LeaseBusy(h) == dep.lease \notin {None, h} /\ dep.live
Acquires(h) == ~LeaseBusy(h) /\ dep.build = op[h].expected
AcquireLease(h, next) ==
  \/ /\ Acquires(h)
     /\ dep' = [dep EXCEPT !.lease = h, !.pending = op[h].target, !.live = TRUE]
     /\ \/ /\ op' = [op EXCEPT ![h].pc = next, ![h].leased = TRUE]
           /\ UNCHANGED faults
        \/ Fault /\ Goto(h, "recover")
     /\ UNCHANGED <<fn, schema, paused, backups, record>>
  \/ ~Acquires(h) /\ Throw(h)

\* The lease is this run's and has not expired.
Leased(h) == dep.lease = h /\ dep.pending = op[h].target /\ dep.live

-----------------------------------------------------------------------------
(* preflight: assertFunctionBaseline and inspectCurrentDeployment           *)

\* Control's health and then Gateway's probe name the build, or the inspection
\* fails; what is inspected may change between the two.
Inspect(h, at, slug, build, next, failed) ==
  /\ At(h, at)
  /\ \/ fn[slug] = build /\ Goto(h, next) /\ UNCHANGED faults
     \/ fn[slug] # build /\ failed /\ UNCHANGED faults
     \/ Fault /\ failed
  /\ UNCHANGED <<remote, record>>

\* The inventory is listed first: both Functions of an update, or neither.
Begin(h, target, expected, resume) ==
  /\ At(h, "idle") /\ target # expected
  /\ \A s \in DOMAIN fn : (expected = None) <=> (fn[s] = None)
  /\ op' = [op EXCEPT ![h].target = target, ![h].expected = expected,
                      ![h].resume = resume, ![h].inventory = fn,
                      ![h].pc = IF expected = None THEN "backup" ELSE "inspect"]
  /\ UNCHANGED <<remote, record, faults>>
InspectControl(h) ==
  Inspect(h, "inspect", "control", op[h].expected, "inspect-gateway", Exit(h))
InspectGateway(h) ==
  Inspect(h, "inspect-gateway", "gateway", op[h].expected, "pause", Exit(h))

\* setPaused, then capturePriorFunctions
Pause(h) ==
  /\ At(h, "pause")
  /\ \/ fn.control # None /\ paused' = TRUE /\ Goto(h, "capture")
        /\ UNCHANGED <<dep, fn, schema, backups, record, faults>>
     \/ Fault /\ Goto(h, "recover") /\ UNCHANGED <<remote, record>>
Capture(h) ==
  /\ At(h, "capture")
  /\ op' = [op EXCEPT ![h].pc = "backup", ![h].captured = fn]
  /\ UNCHANGED <<remote, record, faults>>

\* createLogicalBackup; a first install wants no schema, unless it resumes
\* one whose migrations are exactly the checked-in ones.
BackupFits(h) ==
  Update(h) \/ schema = IF op[h].resume THEN Schema[op[h].target] ELSE 0
Backup(h) ==
  /\ At(h, "backup")
  /\ \/ /\ BackupFits(h)
        /\ backups' = backups \union {schema}
        /\ record' = [record EXCEPT ![h].status = "applying"]
        /\ Goto(h, IF Update(h) THEN "lease" ELSE "push")
        /\ UNCHANGED <<dep, fn, schema, paused, faults>>
     \/ ~BackupFits(h) /\ Throw(h)
Lease(h) == At(h, "lease") /\ AcquireLease(h, "push")

\* supabase db push; a first install takes its lease only now.
Push(h) ==
  /\ At(h, "push")
  /\ schema' = IF Schema[op[h].target] > schema THEN Schema[op[h].target]
               ELSE schema
  /\ \/ /\ Goto(h, IF op[h].leased THEN "secrets" ELSE "lease-first")
        /\ UNCHANGED faults
     \/ Fault /\ Goto(h, "recover")
  /\ UNCHANGED <<dep, fn, paused, backups, record>>
LeaseFirst(h) == At(h, "lease-first") /\ AcquireLease(h, "secrets")

\* secrets set and assertSecretRefreshTransition
SecretsFit(h) == Update(h) => fn = op[h].inventory
Secrets(h) ==
  /\ At(h, "secrets")
  /\ \/ SecretsFit(h) /\ Goto(h, "renew") /\ UNCHANGED <<remote, record, faults>>
     \/ ~SecretsFit(h) /\ Throw(h)

Slug(h) == Slugs[op[h].next]
Other(s) == IF s = "control" THEN "gateway" ELSE "control"
Attempt_AfterDeploy(h) == record

Attempt(h) == [record EXCEPT ![h].attempted = @ \union {Slug(h)}]

\* renewLease; the attempt is recorded before the command that makes it.
Renew(h) ==
  /\ At(h, "renew")
  /\ \/ /\ Leased(h)
        /\ record' = Attempt(h)
        /\ Goto(h, "deploy")
        /\ UNCHANGED <<remote, faults>>
     \/ ~Leased(h) /\ Throw(h)
     \/ Fault /\ Goto(h, "recover") /\ UNCHANGED <<remote, record>>

\* A command of the CLI that puts a build in place: it may fail before its
\* remote write or after it, and nothing bounds the time it takes.
Puts(slug, build) == fn' = [fn EXCEPT ![slug] = build]
Command(h, slug, build, next, failed) ==
  /\ \/ Puts(slug, build) /\ next /\ UNCHANGED faults
     \/ (Puts(slug, build) \/ UNCHANGED fn) /\ Fault /\ Goto(h, failed)
  /\ UNCHANGED <<dep, schema, paused, backups, record>>

\* functions deploy
Deploy(h) ==
  /\ At(h, "deploy")
  /\ Command(h, Slug(h), op[h].target, Goto(h, "list"), "recover")

\* functionList and assertFunctionTransition
TransitionFits(h) ==
  /\ fn[Slug(h)] # None
  /\ fn[Other(Slug(h))] = op[h].inventory[Other(Slug(h))]
List(h) ==
  /\ At(h, "list")
  /\ \/ /\ TransitionFits(h)
        /\ op' = [op EXCEPT ![h].inventory = fn, ![h].next = 2,
                            ![h].pc = IF op[h].next = 2 THEN "verify" ELSE "renew"]
        /\ UNCHANGED <<remote, record, faults>>
     \/ ~TransitionFits(h) /\ Throw(h)
     \/ Fault /\ Goto(h, "recover") /\ UNCHANGED <<remote, record>>

\* inspectCurrent
VerifyControl(h) ==
  Inspect(h, "verify", "control", op[h].target, "verify-gateway", Goto(h, "recover"))
VerifyGateway(h) ==
  Inspect(h, "verify-gateway", "gateway", op[h].target, "complete", Goto(h, "recover"))

\* of_complete_deployment asks for a lease that has not expired.  completed
\* is set, and the lease no more to be given back, when the answer is here.
Completes(h) == Leased(h)
Complete(h) ==
  /\ At(h, "complete")
  /\ \/ /\ Completes(h)
        /\ dep' = Unleased(op[h].target)
        /\ \/ /\ op' = [op EXCEPT ![h].leased = FALSE,
                          ![h].pc = IF Update(h) /\ op[h].resume THEN "resume"
                                    ELSE "finish"]
              /\ UNCHANGED faults
           \/ Fault /\ Goto(h, "recover")
        /\ UNCHANGED <<fn, schema, paused, backups, record>>
     \/ ~Completes(h) /\ Throw(h)

\* --resume, after the lease is gone: a failure is recorded, and no more.
Resume(h) ==
  /\ At(h, "resume")
  /\ \/ paused' = FALSE /\ Goto(h, "finish") /\ UNCHANGED faults
     \/ paused' \in {paused, FALSE} /\ Fault /\ Goto(h, "release")
  /\ UNCHANGED <<dep, fn, schema, backups, record>>
Finish(h) ==
  /\ At(h, "finish")
  /\ record' = [record EXCEPT ![h].status = "verified"]
  /\ Exit(h)
  /\ UNCHANGED <<remote, faults>>

-----------------------------------------------------------------------------
(* The catch block: tryRecovery, of_fail_deployment, the record             *)

\* An update puts back both Functions, Control first; a first install removes
\* those it attempted, Gateway first.
Left(h) ==
  (IF Update(h) THEN DOMAIN fn ELSE record[h].attempted) \ op[h].restored
Undone(h) ==
  LET first == IF Update(h) THEN "control" ELSE "gateway"
  IN  IF first \in Left(h) THEN first ELSE Other(first)

\* tryRecovery renews the lease before each command.
Recover(h) ==
  /\ At(h, "recover")
  /\ \/ /\ record[h].attempted # {} /\ Leased(h)
        /\ Goto(h, "restore") /\ UNCHANGED faults
     \/ /\ record[h].attempted = {} \/ ~Leased(h)
        /\ Goto(h, "release") /\ UNCHANGED faults
     \/ Fault /\ Goto(h, "release")
  /\ UNCHANGED <<remote, record>>

\* What a recovery puts in place: what was captured, or nothing.
Restored(h) == IF Update(h) THEN op[h].captured[Undone(h)] ELSE None
AfterRestore(h) ==
  IF Left(h) # {Undone(h)} THEN "recover"
  ELSE IF Update(h) THEN "confirm" ELSE "confirm-absent"
Restore(h) ==
  /\ At(h, "restore")
  /\ Command(h, Undone(h), Restored(h),
             op' = [op EXCEPT ![h].restored = @ \union {Undone(h)},
                              ![h].pc = AfterRestore(h)],
             "release")

\* The inspection of what was restored, and the pause; or of its absence.
Recovered(h) == op' = [op EXCEPT ![h].recovered = TRUE, ![h].pc = "release"]
ConfirmControl(h) ==
  Inspect(h, "confirm", "control", op[h].expected, "confirm-gateway", Goto(h, "release"))
ConfirmGateway(h) ==
  Inspect(h, "confirm-gateway", "gateway", op[h].expected, "confirm-paused",
          Goto(h, "release"))
ConfirmPaused(h) ==
  /\ At(h, "confirm-paused")
  /\ \/ paused' = TRUE /\ Recovered(h) /\ UNCHANGED faults
     \/ paused' \in {paused, TRUE} /\ Fault /\ Goto(h, "release")
  /\ UNCHANGED <<dep, fn, schema, backups, record>>
ConfirmAbsent(h) ==
  /\ At(h, "confirm-absent")
  /\ \/ fn = Both(None) /\ Recovered(h) /\ UNCHANGED faults
     \/ fn # Both(None) /\ Goto(h, "release") /\ UNCHANGED faults
     \/ Fault /\ Goto(h, "release")
  /\ UNCHANGED <<remote, record>>

\* of_fail_deployment asks for the lease, expired or not.
Release(h) ==
  /\ At(h, "release")
  /\ \/ /\ op[h].leased /\ dep.lease = h
        /\ dep' = Unleased(dep.build) /\ UNCHANGED faults
     \/ ~(op[h].leased /\ dep.lease = h) /\ UNCHANGED <<dep, faults>>
     \/ op[h].leased /\ Fault /\ UNCHANGED dep
  /\ Goto(h, "fail")
  /\ UNCHANGED <<fn, schema, paused, backups, record>>
Fail(h) ==
  /\ At(h, "fail")
  /\ record' = [record EXCEPT ![h].status = "failed", ![h].recovered = op[h].recovered]
  /\ Exit(h)
  /\ UNCHANGED <<remote, faults>>

-----------------------------------------------------------------------------
\* The 900 seconds of the lease run out, also under a command: nothing bounds
\* one, and the operator's machine may sleep.
Commanding == {"deploy", "restore"}
Expire ==
  /\ dep.live
  /\ dep' = [dep EXCEPT !.live = FALSE]
  /\ op' = [op EXCEPT ![dep.lease].late =
              @ \/ op[dep.lease].pc \in Commanding]
  /\ UNCHANGED <<fn, schema, paused, backups, record, faults>>

Crash(h) ==
  /\ op[h].pc \notin {"idle", "done"}
  /\ Fault
  /\ Exit(h)
  /\ UNCHANGED <<remote, record>>

Preflight(h) ==
  \/ \E b \in Builds, e \in Builds \union {None}, r \in BOOLEAN : Begin(h, b, e, r)
  \/ InspectControl(h) \/ InspectGateway(h)
Apply(h) ==
  \/ Pause(h) \/ Capture(h) \/ Backup(h) \/ Lease(h) \/ Push(h)
  \/ LeaseFirst(h) \/ Secrets(h) \/ Renew(h) \/ Deploy(h) \/ List(h)
  \/ VerifyControl(h) \/ VerifyGateway(h) \/ Complete(h) \/ Resume(h) \/ Finish(h)
Catch(h) ==
  \/ Recover(h) \/ Restore(h)
  \/ ConfirmControl(h) \/ ConfirmGateway(h) \/ ConfirmPaused(h) \/ ConfirmAbsent(h)
  \/ Release(h) \/ Fail(h)
Run(h) == Preflight(h) \/ Apply(h) \/ Catch(h) \/ Crash(h)

Next == (\E h \in Helpers : Run(h)) \/ Expire

Spec == Init /\ [][Next]_vars

-----------------------------------------------------------------------------
(* A Control and a Gateway of different builds, with nobody at work, are   *)
(* on record: the state file of some run was left applying, or says that   *)
(* its attempt was not recovered.                                          *)
DegradedIsRecorded ==
  fn.control = fn.gateway
    \/ \E h \in Helpers :
         /\ record[h].attempted # {}
         /\ \/ record[h].status = "applying"
            \/ record[h].status = "failed" /\ ~record[h].recovered

\* Some run's command was under way when its lease ran out: it may write over
\* what others do, and nothing in the script or the database keeps it from that.
Overrun == \E h \in Helpers : op[h].late

(* Unless a lease ran out under a running command, a deployment completes   *)
(* only when both Functions run the build it records, on a schema that      *)
(* build can use, whatever other runs started, failed or recovered.         *)
CompletedIsWhole ==
  dep'.build # dep.build /\ ~Overrun =>
    fn = Both(dep'.build) /\ schema >= Schema[dep'.build]

(* Unless a lease ran out under a running command, no update replaces a     *)
(* Function of a pair other than the one its preflight listed, although it  *)
(* listed the pair before it asked for the lease.                           *)
StartsFromListed ==
  \A h \in Helpers :
    /\ Update(h) /\ At(h, "deploy") /\ op[h].next = 1 /\ fn' # fn
    /\ op'[h] # op[h] /\ ~Overrun
    => fn = op[h].inventory
=============================================================================
