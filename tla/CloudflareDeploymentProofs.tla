--------------------- MODULE CloudflareDeploymentProofs ---------------------
(***************************************************************************)
(* Proofs about the Cloudflare deployment helper, for every set of         *)
(* operators, machines and builds and for every bound, and the promises it *)
(* shares with the helpers of Node and Supabase.                           *)
(*                                                                         *)
(* The facts about the account are proved in two layers: RunsKept, which   *)
(* says what each run knows while it owns the coordination row, and        *)
(* WayKept, which says what the checkpoints hold when Workers of two       *)
(* builds serve.                                                           *)
(***************************************************************************)
EXTENDS AdministrationProofs

-----------------------------------------------------------------------------
(* The Cloudflare deployment helper.  While a run owns the coordination row *)
(* nobody else changes a Worker, the database or a checkpoint, so what it   *)
(* has checked and done still holds; an adoption, which has no row yet, is  *)
(* safe because without a row nobody else can act at all.                   *)

SomeBuild == Builds \cup {Nobody}

WorkerPairs == [control : SomeBuild, gateway : SomeBuild]

Settled == {"awaiting-verification", "verified", "rolled-back"}

Checkpoints ==
  [status : {"none", "provisioning", "updating", "failed", "cleanup-database-intent",
             "cleanup-verified"} \cup Settled,
   build : SomeBuild, db : Nat, versions : WorkerPairs,
   previous : [build : SomeBuild, schema : Nat]]

RunSteps ==
  {"idle", "create", "initialize", "insert", "acquire", "check", "pause", "backup",
   "recorded", "recheck", "migrate", "control", "gateway", "finish", "resume",
   "record", "complete", "intent", "database", "export"}

Runs ==
  [kind : {"none", "install", "apply", "adopt", "verify", "rollback", "cleanup"},
   pc : RunSteps, target : SomeBuild, mine : Checkpoints, revision : Int,
   build : SomeBuild, recover : [owner : Helpers \cup {Nobody}, revision : Int]]

AccountType ==
  /\ coordination \in [is : {"absent", "empty", "present"}, owner : Helpers \cup {Nobody},
                       build : SomeBuild, revision : Int]
  /\ d1 \in [id : Nat, live : BOOLEAN] /\ d1Schema \in Nat
  /\ active \in WorkerPairs
  /\ stateFile \in [Machines -> Checkpoints]
  /\ host \in [Helpers -> Machines]

RunType == cloudflareOp \in [Helpers -> Runs]

\* What a checkpoint says of the database it names
FileSound(s) ==
  /\ s.db <= d1.id
  /\ foreign \/ s.versions.control = s.versions.gateway
  /\ d1.live /\ s.db = d1.id =>
       /\ s.status \in Settled \cup {"updating"} =>
            s.build \in Builds /\ Schema[s.build] <= d1Schema
       /\ s.previous # Cloudflare!NoPrevious =>
            s.previous.build \in Builds /\ Schema[s.previous.build] <= d1Schema

AccountSound ==
  /\ coordination.is # "present" => coordination.owner = Nobody
  /\ coordination.is # "absent" => d1.live
  /\ Cloudflare!FreeMeansWhole /\ Cloudflare!NoDeadEnd
  /\ Cloudflare!DatabaseOutlivesWorkers
  /\ \A s \in Checkpoints, m \in Machines : stateFile[m] = s => FileSound(s)

Serves(b) == foreign \/ active = Cloudflare!Both(b)

\* Which operation is at which step, and what it asked before it started
Began(o) ==
  /\ o.pc # "idle" => o.kind # "none"
  /\ o.kind \in {"install", "apply"} => o.target \in Builds
  /\ o.kind \in {"install", "apply", "adopt"} => o.recover = Cloudflare!NoLock
  /\ o.kind = "adopt" => o.mine.status \in {"verified", "rolled-back"}
  /\ o.kind = "verify" => o.mine.status \in Settled
  /\ o.kind = "rollback" => o.mine.previous # Cloudflare!NoPrevious
  /\ o.kind = "apply" /\ o.pc \in {"pause", "backup", "recorded"} =>
       o.mine.status = "updating"

\* The owner of the row: what it has done so far
Works(h, o) ==
  coordination.owner = h =>
    /\ o.kind \in {"install", "apply"} /\ o.pc \in {"control", "gateway", "finish"} =>
         Schema[o.target] <= d1Schema
    /\ o.kind \in {"install", "apply"} /\ o.pc = "gateway" =>
         foreign \/ active.control = o.target
    /\ o.kind \in {"install", "apply"} /\ o.pc = "finish" => Serves(o.target)
    /\ o.kind = "verify" /\ o.pc \in {"resume", "record"} => Serves(o.mine.build)
    /\ o.kind = "adopt" /\ o.pc = "record" => Serves(o.mine.build)
    /\ o.kind = "cleanup" /\ o.pc = "control" => foreign \/ active.gateway = Nobody
    /\ o.kind = "cleanup" /\ o.pc \in {"intent", "database"} => Serves(Nobody)
    /\ o.pc = "complete" =>
         /\ Serves(o.mine.build)
         /\ o.mine.status \in Settled /\ stateFile[host[h]] = o.mine

\* Without a row: the one that creates it, and the adoptions that may
Adopts(h, o) ==
  /\ o.kind = "adopt" /\ o.pc # "idle" /\ coordination.is # "present"
       /\ d1.live /\ d1.id = o.mine.db => stateFile[host[h]] = o.mine
  /\ o.kind = "adopt" /\ o.pc \in {"pause", "export", "initialize"}
       /\ coordination.is = "absent" /\ d1.live /\ d1.id = o.mine.db =>
         Serves(o.mine.build)
  /\ o.pc = "insert" => coordination.is = "empty"
  /\ o.pc = "insert" /\ o.kind = "adopt" => d1.id = o.mine.db /\ Serves(o.mine.build)

ProcessSound(h, o) == Began(o) /\ FileSound(o.mine) /\ Works(h, o) /\ Adopts(h, o)

ProcessesSound ==
  \A h \in Helpers, o \in Runs : cloudflareOp[h] = o => ProcessSound(h, o)

\* One process at most is between CREATE TABLE and INSERT.
OneCreates ==
  \A g, h \in Helpers :
    cloudflareOp[g].pc = "insert" /\ cloudflareOp[h].pc = "insert" => g = h

RunsKept == AccountType /\ RunType /\ AccountSound /\ ProcessesSound /\ OneCreates

RunsInv == subject = "cloudflare" => RunsKept

\* What a step of one process begins with
LEMMA RunOf ==
  ASSUME RunsKept, NEW h \in Helpers
  PROVE  /\ cloudflareOp[h] \in Runs /\ ProcessSound(h, cloudflareOp[h])
         /\ host[h] \in Machines
         /\ stateFile[host[h]] \in Checkpoints /\ FileSound(stateFile[host[h]])
         /\ \A s : [cloudflareOp EXCEPT ![h].pc = s]
                   = [cloudflareOp EXCEPT ![h] = [cloudflareOp[h] EXCEPT !.pc = s]]
<1>1. /\ cloudflareOp \in [Helpers -> Runs] /\ host \in [Helpers -> Machines]
      /\ stateFile \in [Machines -> Checkpoints]
  BY DEF RunsKept, RunType, AccountType
<1>2. ProcessSound(h, cloudflareOp[h])
  BY <1>1 DEF RunsKept, ProcessesSound
<1>3. FileSound(stateFile[host[h]])
  BY <1>1 DEF RunsKept, AccountSound
<1> QED BY <1>1, <1>2, <1>3

LEMMA IdleRun ==
  /\ Cloudflare!Idle \in Runs /\ Cloudflare!Idle.pc = "idle"
  /\ Cloudflare!Idle.kind = "none" /\ Cloudflare!Idle.mine = Cloudflare!NoState
  /\ Cloudflare!Idle.recover = Cloudflare!NoLock
  /\ Cloudflare!NoState \in Checkpoints
  /\ Cloudflare!NoState.status = "none" /\ Cloudflare!NoState.db = 0
  /\ Cloudflare!NoState.previous = Cloudflare!NoPrevious
  /\ Cloudflare!NoState.versions.control = Cloudflare!NoState.versions.gateway
  /\ Cloudflare!NoState.versions \in WorkerPairs /\ Cloudflare!NoLock.owner = Nobody
  /\ Cloudflare!NoPrevious \in [build : SomeBuild, schema : Nat]
<1>1. /\ Cloudflare!NoState.versions = [control |-> Nobody, gateway |-> Nobody]
      /\ Cloudflare!NoState.previous = Cloudflare!NoPrevious
      /\ Cloudflare!NoState.status = "none" /\ Cloudflare!NoState.db = 0
  BY DEF Cloudflare!NoState, Cloudflare!None, Nobody
<1>2. Cloudflare!NoPrevious \in [build : SomeBuild, schema : Nat]
  BY DEF Cloudflare!NoPrevious, Cloudflare!None, SomeBuild, Nobody
<1>3. [control |-> Nobody, gateway |-> Nobody] \in WorkerPairs
  BY DEF WorkerPairs, SomeBuild
<1>4. Cloudflare!NoState \in Checkpoints
  BY <1>2, <1>3 DEF Cloudflare!NoState, Cloudflare!None, Checkpoints, SomeBuild, Nobody
<1>5. Cloudflare!NoLock \in [owner : Helpers \cup {Nobody}, revision : Int]
      /\ Cloudflare!NoLock.owner = Nobody
  BY DEF Cloudflare!NoLock, Cloudflare!None, Nobody
<1>6. Cloudflare!Idle \in Runs
  BY <1>4, <1>5 DEF Cloudflare!Idle, Cloudflare!None, Runs, RunSteps, SomeBuild, Nobody
<1>7. /\ Cloudflare!Idle.pc = "idle" /\ Cloudflare!Idle.kind = "none"
      /\ Cloudflare!Idle.mine = Cloudflare!NoState
      /\ Cloudflare!Idle.recover = Cloudflare!NoLock
  BY DEF Cloudflare!Idle, Cloudflare!None
<1> QED BY <1>1, <1>2, <1>3, <1>4, <1>5, <1>6, <1>7

\* A checkpoint keeps what it says: databases are new, schemas only grow.
LEMMA FileLasts ==
  ASSUME RunsKept, NEW s \in Checkpoints, FileSound(s),
         foreign => foreign', d1'.id >= d1.id,
         d1'.id = d1.id /\ d1'.live => d1.live /\ d1Schema' >= d1Schema,
         AccountType'
  PROVE  FileSound(s)'
<1>1. /\ d1.id \in Nat /\ d1'.id \in Nat /\ d1Schema \in Nat /\ d1Schema' \in Nat
      /\ s.db \in Nat
  BY DEF RunsKept, AccountType, Checkpoints
<1>2. \A b \in Builds : Schema[b] \in Nat
  BY AdministrationAssumption
<1>3. foreign' \/ s.versions.control = s.versions.gateway
  BY DEF FileSound
<1>4. s.db <= d1'.id
  BY <1>1 DEF FileSound
<1>5. ASSUME d1'.live, s.db = d1'.id
      PROVE  d1.live /\ s.db = d1.id /\ d1Schema' >= d1Schema
  BY <1>1, <1>5 DEF FileSound
<1> QED BY <1>1, <1>2, <1>3, <1>4, <1>5 DEF FileSound

\* What others do while a process is at work
Apart(h) ==
  \/ UNCHANGED <<coordination, d1, d1Schema, active, stateFile>>
  \/ /\ coordination.is = "present" \/ cloudflareOp[h].pc = "insert"
     /\ coordination'.is = "present" /\ coordination'.owner \in {h, Nobody}
     /\ d1' = d1 /\ d1Schema' >= d1Schema
  \/ /\ coordination.is = "absent" /\ coordination'.is = "empty"
     /\ coordination'.owner = Nobody
     /\ UNCHANGED <<d1, d1Schema, active, stateFile>>
  \/ /\ coordination.is = "present" /\ coordination' = Cloudflare!NoRow
     /\ d1' = [d1 EXCEPT !.live = FALSE]
  \/ /\ ~d1.live /\ coordination' = coordination
     /\ d1' = [id |-> d1.id + 1, live |-> TRUE]

LEMMA RunStep ==
  ASSUME RunsKept, NEW h \in Helpers, NEW o \in Runs, Apart(h),
         cloudflareOp' = [cloudflareOp EXCEPT ![h] = o],
         host' = host, foreign' = foreign,
         AccountType', AccountSound', ProcessSound(h, o)',
         o.pc = "insert" => coordination.is = "absent"
  PROVE  RunsKept'
<1>1. RunType'
  BY DEF RunsKept, RunType
<1>2. /\ cloudflareOp'[h] = o
      /\ \A g \in Helpers \ {h} : cloudflareOp'[g] = cloudflareOp[g]
  BY DEF RunsKept, RunType
<1>3. \A g \in Helpers : cloudflareOp[g] \in Runs /\ ProcessSound(g, cloudflareOp[g])
  BY RunOf
<1>4. OneCreates'
  <2>1. \A g \in Helpers : cloudflareOp[g].pc = "insert" => coordination.is = "empty"
    BY <1>3 DEF ProcessSound, Adopts
  <2> QED BY <1>2, <2>1 DEF OneCreates, RunsKept
<1>5. h # Nobody
  BY AdministrationAssumption DEF Nobody
<1>6. /\ d1.id \in Nat /\ d1Schema \in Nat /\ d1.live \in BOOLEAN
      /\ d1' = [d1 EXCEPT !.live = FALSE] => d1'.id = d1.id /\ d1'.live = FALSE
      /\ Cloudflare!NoRow.owner = Nobody /\ Cloudflare!NoRow.is = "absent"
  BY DEF RunsKept, AccountType, Cloudflare!NoRow, Cloudflare!None, Nobody
<1>7. /\ d1'.id >= d1.id
      /\ d1'.id = d1.id /\ d1'.live => d1.live /\ d1Schema' >= d1Schema
  BY <1>6 DEF Apart
<1>8. ASSUME NEW g \in Helpers, g # h, NEW p \in Runs, ProcessSound(g, p),
             p.pc = "insert" => cloudflareOp[h].pc # "insert"
      PROVE  ProcessSound(g, p)'
  <2>1. p.mine \in Checkpoints /\ p.mine.db \in Nat
    BY DEF Runs, Checkpoints
  <2>2. FileSound(p.mine)'
    BY <1>7, <1>8, <2>1, FileLasts DEF ProcessSound
  <2>3. p.mine.db <= d1.id /\ (p.pc = "insert" => coordination.is = "empty")
        /\ g # Nobody
    BY <1>8, AdministrationAssumption DEF ProcessSound, FileSound, Adopts, Nobody
  <2>4. (coordination.is # "present" => coordination.owner = Nobody)
        /\ (coordination.is # "absent" => d1.live)
    BY DEF RunsKept, AccountSound
  <2>5. CASE UNCHANGED <<coordination, d1, d1Schema, active, stateFile>>
    BY <1>8, <2>2, <2>5 DEF ProcessSound, Began, Works, Adopts, Serves
  <2>6. CASE /\ coordination.is = "present" \/ cloudflareOp[h].pc = "insert"
             /\ coordination'.is = "present" /\ coordination'.owner \in {h, Nobody}
             /\ d1' = d1 /\ d1Schema' >= d1Schema
    <3>1. p.pc # "insert" /\ coordination'.owner # g
      BY <1>8, <2>3, <2>6
    <3> QED BY <1>8, <2>2, <2>6, <3>1 DEF ProcessSound, Began, Works, Adopts
  <2>7. CASE /\ coordination.is = "absent" /\ coordination'.is = "empty"
             /\ coordination'.owner = Nobody
             /\ UNCHANGED <<d1, d1Schema, active, stateFile>>
    BY <1>8, <2>2, <2>3, <2>7 DEF ProcessSound, Began, Works, Adopts, Serves
  <2>8. CASE /\ coordination.is = "present" /\ coordination' = Cloudflare!NoRow
             /\ d1' = [d1 EXCEPT !.live = FALSE]
    <3>1. p.pc # "insert" /\ coordination'.owner # g /\ ~d1'.live
      BY <1>6, <2>3, <2>8
    <3> QED BY <1>8, <2>2, <3>1 DEF ProcessSound, Began, Works, Adopts
  <2>9. CASE /\ ~d1.live /\ coordination' = coordination
             /\ d1' = [id |-> d1.id + 1, live |-> TRUE]
    <3>1. /\ p.pc # "insert" /\ coordination'.owner # g /\ d1'.id # p.mine.db
      BY <1>6, <2>1, <2>3, <2>4, <2>9
    <3> QED BY <1>8, <2>2, <3>1 DEF ProcessSound, Began, Works, Adopts
  <2> QED BY <2>5, <2>6, <2>7, <2>8, <2>9 DEF Apart
<1>9. ProcessesSound'
  <2> SUFFICES ASSUME NEW g \in Helpers, NEW p \in Runs, cloudflareOp'[g] = p
               PROVE  ProcessSound(g, p)'
    BY DEF ProcessesSound
  <2>1. CASE g = h
    BY <1>2, <2>1
  <2>2. CASE g # h
    BY <1>2, <1>3, <1>8, <2>2 DEF RunsKept, OneCreates
  <2> QED BY <2>1, <2>2
<1> QED BY <1>1, <1>4, <1>9 DEF RunsKept

LEMMA IdleSound ==
  ASSUME NEW h \in Helpers, AccountType'
  PROVE  ProcessSound(h, Cloudflare!Idle)'
<1>1. d1'.id \in Nat
  BY DEF AccountType
<1> QED BY <1>1, IdleRun DEF ProcessSound, Began, FileSound, Works, Adopts, Settled

\* The owner's step: the row stays its own, checkpoints and Workers change.
LEMMA OwnerStep ==
  ASSUME RunsKept, NEW h \in Helpers, NEW o \in Runs, NEW s \in Checkpoints,
         Cloudflare!Owned(h), o.pc # "insert",
         cloudflareOp' = [cloudflareOp EXCEPT ![h] = o],
         UNCHANGED <<host, coordination, d1, foreign>>,
         d1Schema' \in Nat, d1Schema' >= d1Schema, active' \in WorkerPairs,
         stateFile' = [stateFile EXCEPT ![host[h]] = s],
         FileSound(s)', ProcessSound(h, o)'
  PROVE  RunsKept'
<1>1. /\ coordination.owner = h /\ coordination.is = "present" /\ h # Nobody
      /\ d1.live
  BY AdministrationAssumption DEF Cloudflare!Owned, Cloudflare!Reached, Nobody
<1>2. AccountType'
  BY DEF RunsKept, AccountType
<1>3. \A t \in Checkpoints : FileSound(t) => FileSound(t)'
  <2>1. d1'.id >= d1.id
    BY DEF RunsKept, AccountType
  <2> QED BY <1>1, <1>2, <2>1, FileLasts
<1>4. \A m \in Machines : stateFile[m] \in Checkpoints /\ FileSound(stateFile[m])
  BY DEF RunsKept, AccountType, AccountSound
<1>5. \A t \in Checkpoints, m \in Machines : stateFile'[m] = t => FileSound(t)'
  <2>1. SUFFICES ASSUME NEW m \in Machines, NEW t \in Checkpoints, stateFile'[m] = t
                 PROVE  FileSound(t)'
    OBVIOUS
  <2>2. CASE m = host[h]
    BY <2>1, <2>2 DEF RunsKept, AccountType
  <2>3. CASE m # host[h]
    <3>1. t = stateFile[m]
      BY <2>1, <2>3 DEF RunsKept, AccountType
    <3> QED BY <1>3, <1>4, <3>1
  <2> QED BY <2>2, <2>3
<1>6. AccountSound'
  BY <1>1, <1>5 DEF AccountSound, Cloudflare!FreeMeansWhole, Cloudflare!NoDeadEnd,
     Cloudflare!DatabaseOutlivesWorkers, Cloudflare!None, Nobody
<1>7. Apart(h)
  BY <1>1 DEF Apart
<1> QED BY <1>2, <1>6, <1>7, RunStep

\* A step that leaves the account as it is
LEMMA RunOnly ==
  ASSUME RunsKept, NEW h \in Helpers, NEW o \in Runs, o.pc # "insert",
         cloudflareOp' = [cloudflareOp EXCEPT ![h] = o],
         UNCHANGED <<host, coordination, d1, d1Schema, active, stateFile, foreign>>,
         ProcessSound(h, o)
  PROVE  RunsKept'
<1>1. AccountType' /\ AccountSound'
  BY DEF RunsKept, AccountType, AccountSound, FileSound, Cloudflare!FreeMeansWhole,
     Cloudflare!NoDeadEnd, Cloudflare!DatabaseOutlivesWorkers, Cloudflare!Uncoordinated
<1>2. ProcessSound(h, o)'
  BY DEF ProcessSound, Began, FileSound, Works, Adopts, Serves
<1> QED BY <1>1, <1>2, RunStep DEF Apart

\* What throws ends the process, and a failed apply marks its checkpoint.
LEMMA EndsKeep ==
  ASSUME RunsKept, NEW h \in Helpers,
         cloudflareOp' = [cloudflareOp EXCEPT ![h] = Cloudflare!Idle],
         UNCHANGED <<host, coordination, d1, foreign>>,
         d1Schema' \in Nat, d1Schema' >= d1Schema, active' \in WorkerPairs,
         stateFile' = IF Cloudflare!Marks(h)
                        THEN [stateFile EXCEPT ![host[h]].status = "failed"]
                        ELSE stateFile,
         Cloudflare!Owned(h) \/ UNCHANGED <<d1Schema, active>>
  PROVE  RunsKept'
<1>1. CASE Cloudflare!Owned(h)
  <2>1. stateFile \in [Machines -> Checkpoints] /\ host[h] \in Machines
    BY DEF RunsKept, AccountType
  <2>2. PICK s : s = IF Cloudflare!Marks(h)
                       THEN [stateFile[host[h]] EXCEPT !.status = "failed"]
                       ELSE stateFile[host[h]]
    OBVIOUS
  <2>3. /\ stateFile[host[h]] \in Checkpoints /\ FileSound(stateFile[host[h]])
    BY RunOf
  <2>4. AccountType'
    <3>1. [stateFile[host[h]] EXCEPT !.status = "failed"] \in Checkpoints
      BY <2>3 DEF Checkpoints
    <3> QED BY <2>1, <3>1 DEF RunsKept, AccountType
  <2>5. /\ s \in Checkpoints /\ s.db = stateFile[host[h]].db
        /\ s.versions = stateFile[host[h]].versions
        /\ s.previous = stateFile[host[h]].previous
        /\ s.build = stateFile[host[h]].build
        /\ s.status \in {stateFile[host[h]].status, "failed"}
    <3>1. CASE Cloudflare!Marks(h)
      BY <2>2, <2>3, <3>1 DEF Checkpoints
    <3>2. CASE ~Cloudflare!Marks(h)
      BY <2>2, <2>3, <3>2
    <3> QED BY <3>1, <3>2
  <2>6. FileSound(s)'
    <3>1. FileSound(s)
      BY <2>3, <2>5 DEF FileSound, Settled
    <3>2. d1'.id >= d1.id
      BY DEF RunsKept, AccountType
    <3> QED BY <1>1, <2>4, <2>5, <3>1, <3>2, FileLasts DEF Cloudflare!Owned,
              Cloudflare!Reached
  <2>7. stateFile' = [stateFile EXCEPT ![host[h]] = s]
    BY <2>1, <2>2
  <2>8. ProcessSound(h, Cloudflare!Idle)' /\ Cloudflare!Idle \in Runs
        /\ Cloudflare!Idle.pc = "idle"
    BY <2>4, IdleSound, IdleRun
  <2>9. PICK o \in Runs : o = Cloudflare!Idle
    BY <2>8
  <2> QED BY ONLY RunsKept, <1>1, <2>5, <2>6, <2>7, <2>8, <2>9, OwnerStep, h \in Helpers,
         cloudflareOp' = [cloudflareOp EXCEPT ![h] = Cloudflare!Idle],
         UNCHANGED <<host, coordination, d1, foreign>>,
         d1Schema' \in Nat, d1Schema' >= d1Schema, active' \in WorkerPairs
<1>2. CASE ~Cloudflare!Owned(h)
  <2>1. UNCHANGED <<d1Schema, active, stateFile>>
    BY <1>2 DEF Cloudflare!Marks
  <2>2. AccountType'
    BY <2>1 DEF RunsKept, AccountType
  <2>3. ProcessSound(h, Cloudflare!Idle)' /\ Cloudflare!Idle \in Runs
        /\ Cloudflare!Idle.pc = "idle"
    BY <2>2, IdleSound, IdleRun
  <2>4. ProcessSound(h, Cloudflare!Idle)
    <3>1. d1.id \in Nat
      BY DEF RunsKept, AccountType
    <3> QED BY <3>1, IdleRun DEF ProcessSound, Began, FileSound, Works, Adopts, Settled
  <2> QED BY <2>1, <2>3, <2>4, RunOnly
<1> QED BY <1>1, <1>2

LEMMA ThrowKeeps ==
  ASSUME RunsKept, NEW h \in Helpers, Cloudflare!Throw(h)
  PROVE  RunsKept'
<1>1. d1Schema \in Nat /\ active \in WorkerPairs
  BY DEF RunsKept, AccountType
<1>2. /\ UNCHANGED <<host, coordination, d1, d1Schema, active, foreign>>
      /\ cloudflareOp' = [cloudflareOp EXCEPT ![h] = Cloudflare!Idle]
      /\ stateFile' = IF Cloudflare!Marks(h)
                        THEN [stateFile EXCEPT ![host[h]].status = "failed"]
                        ELSE stateFile
  BY DEF Cloudflare!Throw, Cloudflare!Retained
<1>3. d1Schema' \in Nat /\ d1Schema' >= d1Schema /\ active' \in WorkerPairs
  BY <1>1, <1>2
<1> QED BY <1>2, <1>3, EndsKeep

LEMMA CrashKeeps ==
  ASSUME RunsKept, NEW h \in Helpers, Cloudflare!Crash(h)
  PROVE  RunsKept'
<1>1. ProcessSound(h, Cloudflare!Idle)
  <2>1. d1.id \in Nat
    BY DEF RunsKept, AccountType
  <2> QED BY <2>1, IdleRun DEF ProcessSound, Began, FileSound, Works, Adopts, Settled
<1> QED BY <1>1, IdleRun, RunOnly DEF Cloudflare!Crash, Cloudflare!remote

LEMMA BeginRunKeeps ==
  ASSUME RunsKept, NEW h \in Helpers, NEW t \in SomeBuild, NEW r \in BOOLEAN,
         NEW k \in {"install", "apply", "adopt", "verify", "rollback", "cleanup"},
         Cloudflare!Begin(h, k, t, r),
         k \in {"install", "apply"} => t \in Builds,
         k \in {"install", "apply", "adopt"} => r = FALSE
  PROVE  RunsKept'
<1>1. PICK p : p = CASE k = "install" -> "create"
                     [] k = "adopt" -> "check"
                     [] OTHER -> "acquire"
  OBVIOUS
<1>2. PICK l : l = IF r THEN Cloudflare!TheLock ELSE Cloudflare!NoLock
  OBVIOUS
<1>3. PICK f : f = stateFile[host[h]]
  OBVIOUS
<1>4. /\ f \in Checkpoints /\ FileSound(f) /\ f = stateFile[host[h]]
  BY <1>3, RunOf
<1>5. PICK z \in Runs : z = Cloudflare!Idle
  BY IdleRun
<1>6. PICK o : o = [z EXCEPT !.kind = k, !.target = t, !.recover = l, !.mine = f, !.pc = p]
  OBVIOUS
<1>7. /\ UNCHANGED <<host, coordination, d1, d1Schema, active, stateFile, foreign>>
      /\ Cloudflare!Ready(k, f, t)
      /\ cloudflareOp' = [cloudflareOp EXCEPT ![h] = o]
  <2>1. [Cloudflare!Idle EXCEPT !.kind = k, !.target = t, !.recover = l, !.mine = f,
                                !.pc = p] = o
    BY <1>5, <1>6
  <2> QED BY <1>1, <1>2, <1>3, <2>1 DEF Cloudflare!Begin, Cloudflare!remote
<1>8. l \in [owner : Helpers \cup {Nobody}, revision : Int]
      /\ (k \in {"install", "apply", "adopt"} => l = Cloudflare!NoLock)
  <2>1. Cloudflare!NoLock \in [owner : Helpers \cup {Nobody}, revision : Int]
    BY DEF Cloudflare!NoLock, Cloudflare!None, Nobody
  <2>2. Cloudflare!TheLock \in [owner : Helpers \cup {Nobody}, revision : Int]
    BY DEF Cloudflare!TheLock, RunsKept, AccountType
  <2> QED BY <1>2, <2>1, <2>2
<1>9. p \in {"create", "check", "acquire"}
  BY <1>1
<1>10. /\ o \in Runs
       /\ o.kind = k /\ o.pc = p /\ o.target = t /\ o.mine = f /\ o.recover = l
  <2>1. p \in RunSteps
    BY <1>9 DEF RunSteps
  <2>2. o \in Runs
    BY ONLY <1>4, <1>5, <1>6, <1>8, <2>1, t \in SomeBuild,
       k \in {"install", "apply", "adopt", "verify", "rollback", "cleanup"} DEF Runs
  <2>3. o.kind = k /\ o.pc = p /\ o.target = t /\ o.mine = f /\ o.recover = l
    BY ONLY <1>5, <1>6 DEF Runs
  <2> QED BY <2>2, <2>3
<1>11. ProcessSound(h, o)
  <2>1. k = "adopt" => f.status \in {"verified", "rolled-back"}
    BY <1>7 DEF Cloudflare!Ready
  <2>2. k = "rollback" => f.previous # Cloudflare!NoPrevious
    BY <1>7 DEF Cloudflare!Ready
  <2>3. k = "verify" => f.status \in Settled
    BY <1>7 DEF Cloudflare!Ready, Settled
  <2> QED BY <1>4, <1>8, <1>9, <1>10, <2>1, <2>2, <2>3 DEF ProcessSound, Began, Works, Adopts
<1> QED BY <1>7, <1>9, <1>10, <1>11, RunOnly

\* What an operation does after it has taken the row
FirstSteps == {<<"apply", "check">>, <<"verify", "check">>, <<"rollback", "pause">>,
               <<"cleanup", "gateway">>, <<"install", "migrate">>, <<"adopt", "record">>}

\* A free row is taken as it is found; a recovered one only changes owner.
LEMMA AcquireKeeps ==
  ASSUME RunsKept, NEW h \in Helpers, NEW next, cloudflareOp[h].pc = "acquire",
         <<cloudflareOp[h].kind, next>> \in FirstSteps,
         Cloudflare!Acquire(h, next)
  PROVE  RunsKept'
<1>1. CASE Cloudflare!Throw(h)
  BY <1>1, ThrowKeeps
<1>2. CASE ~Cloudflare!Throw(h)
  <2>1. /\ Cloudflare!Acquirable(h)
        /\ coordination' = [coordination EXCEPT !.owner = h, !.revision = @ + 1]
        /\ UNCHANGED <<host, d1, d1Schema, active, stateFile, foreign>>
        /\ \/ cloudflareOp' = [cloudflareOp EXCEPT ![h].pc = next,
                                 ![h].build = coordination.build,
                                 ![h].revision = coordination.revision + 1]
           \/ cloudflareOp' = [cloudflareOp EXCEPT ![h] = Cloudflare!Idle]
    BY <1>2 DEF Cloudflare!Acquire
  <2>2. /\ coordination'.owner = h /\ coordination'.is = "present"
        /\ coordination.is = "present" /\ h # Nobody
        /\ coordination'.build = coordination.build
    BY <2>1, AdministrationAssumption DEF Cloudflare!Acquirable, RunsKept, AccountType,
       Nobody
  <2>3. AccountType'
    <3>1. coordination' \in [is : {"absent", "empty", "present"},
                             owner : Helpers \cup {Nobody},
                             build : SomeBuild, revision : Int]
      <4>1. PICK c \in [is : {"absent", "empty", "present"}, owner : Helpers \cup {Nobody},
                         build : SomeBuild, revision : Int] : c = coordination
        BY DEF RunsKept, AccountType
      <4>2. PICK n \in Int : n = c.revision + 1
        OBVIOUS
      <4>3. coordination' = [c EXCEPT !.owner = h, !.revision = n]
        BY <2>1, <4>1, <4>2
      <4> QED BY ONLY <4>1, <4>2, <4>3, h \in Helpers
    <3> QED BY <2>1, <3>1 DEF RunsKept, AccountType
  <2>4. AccountSound'
    BY <2>1, <2>2 DEF RunsKept, AccountSound, FileSound, Cloudflare!FreeMeansWhole,
       Cloudflare!NoDeadEnd, Cloudflare!DatabaseOutlivesWorkers, Cloudflare!None, Nobody
  <2>5. Apart(h)
    <3>1. d1Schema' >= d1Schema
      BY <2>1 DEF RunsKept, AccountType
    <3> QED BY <2>1, <2>2, <3>1 DEF Apart
  <2>6. CASE cloudflareOp' = [cloudflareOp EXCEPT ![h] = Cloudflare!Idle]
    BY <2>1, <2>3, <2>4, <2>5, <2>6, IdleSound, IdleRun, RunStep
  <2>7. CASE cloudflareOp' = [cloudflareOp EXCEPT ![h].pc = next,
                                ![h].build = coordination.build,
                                ![h].revision = coordination.revision + 1]
    <3>1. cloudflareOp[h] \in Runs /\ ProcessSound(h, cloudflareOp[h])
      BY RunOf
    <3>2. PICK o : o = [cloudflareOp[h] EXCEPT !.pc = next, !.build = coordination.build,
                                          !.revision = coordination.revision + 1]
      OBVIOUS
    <3>3. cloudflareOp' = [cloudflareOp EXCEPT ![h] = o]
      BY <2>7, <3>2
    <3>4. /\ coordination.build \in SomeBuild /\ coordination.revision \in Int
      BY DEF RunsKept, AccountType
    <3>5. /\ next \in {"check", "pause", "gateway", "migrate", "record"}
          /\ next \in RunSteps
      BY DEF FirstSteps, RunSteps
    <3>6. /\ o \in Runs /\ o.pc = next /\ o.kind = cloudflareOp[h].kind
          /\ o.target = cloudflareOp[h].target /\ o.mine = cloudflareOp[h].mine
          /\ o.recover = cloudflareOp[h].recover
      <4>1. PICK q \in Runs : q = cloudflareOp[h]
        BY <3>1
      <4>2. PICK b \in SomeBuild, n \in Int :
              b = coordination.build /\ n = coordination.revision + 1
        BY <3>4
      <4>3. o = [q EXCEPT !.pc = next, !.build = b, !.revision = n]
        BY <3>2, <4>1, <4>2
      <4>4. o \in Runs /\ o.pc = next
        BY ONLY <3>5, <4>1, <4>2, <4>3 DEF Runs
      <4>5. /\ o.kind = q.kind /\ o.target = q.target /\ o.mine = q.mine
            /\ o.recover = q.recover
        BY ONLY <4>1, <4>3 DEF Runs
      <4> QED BY <4>1, <4>4, <4>5
    <3>7. FileSound(o.mine)'
      BY <2>1, <3>1, <3>6 DEF ProcessSound, FileSound
    <3>8. next = "pause" => o.kind = "rollback"
      BY <3>6 DEF FirstSteps
    <3>9. Began(o)'
      BY <3>1, <3>5, <3>6, <3>8 DEF ProcessSound, Began
    <3>10. o.kind = "adopt" => Serves(o.mine.build)
      <4>1. SUFFICES ASSUME o.kind = "adopt"
                     PROVE  Serves(o.mine.build)
        OBVIOUS
      <4>2. /\ coordination.build = o.mine.build /\ coordination.owner = Nobody
            /\ d1.live /\ d1.id = o.mine.db
        BY <2>1, <3>1, <3>6, <4>1 DEF Cloudflare!Acquirable, Cloudflare!ExpectedBuild,
           Cloudflare!Recovers, Cloudflare!Reached, Cloudflare!Mine, ProcessSound, Began,
           Cloudflare!None, Nobody
      <4>3. o.mine.build \in Builds
        BY <3>1, <3>6, <4>1, <4>2 DEF ProcessSound, Began, FileSound, Settled
      <4>4. o.mine.build # Nobody
        BY <4>3, AdministrationAssumption DEF Nobody
      <4> QED BY <2>2, <4>2, <4>4 DEF RunsKept, AccountSound,
                Cloudflare!FreeMeansWhole, Cloudflare!Uncoordinated, Cloudflare!None,
                Nobody, Serves
    <3>11. Works(h, o)' /\ Adopts(h, o)'
      <4>1. next \notin {"control", "finish", "resume", "intent", "database", "complete",
                         "export", "initialize", "insert"}
        BY <3>5
      <4>2. /\ next = "gateway" => o.kind = "cleanup"
            /\ next = "record" => o.kind = "adopt"
        BY <3>6 DEF FirstSteps
      <4> QED BY <2>1, <2>2, <3>6, <3>8, <3>10, <4>1, <4>2 DEF Works, Adopts, Serves
    <3>12. ProcessSound(h, o)' /\ o.pc # "insert"
      BY <3>5, <3>6, <3>7, <3>9, <3>11 DEF ProcessSound
    <3> QED BY ONLY RunsKept, <2>1, <2>3, <2>4, <2>5, <3>3, <3>6, <3>12, RunStep,
           h \in Helpers
  <2> QED BY <2>1, <2>6, <2>7
<1> QED BY <1>1, <1>2

LEMMA GuardedKeeps ==
  ASSUME RunsKept, NEW h \in Helpers, Cloudflare!Guarded(h) \/ Cloudflare!AcquireFirst(h)
  PROVE  RunsKept'
<1>1. CASE Cloudflare!AcquireFirst(h)
  <2>1. PICK next : /\ next = IF cloudflareOp[h].kind = "install" THEN "migrate"
                              ELSE "record"
                    /\ Cloudflare!Acquire(h, next)
    BY <1>1 DEF Cloudflare!AcquireFirst
  <2> QED BY <1>1, <2>1, AcquireKeeps DEF Cloudflare!AcquireFirst, FirstSteps
<1>2. CASE Cloudflare!Guarded(h)
  <2>1. PICK next : /\ next = [apply |-> "check", verify |-> "check",
                               rollback |-> "pause",
                               cleanup |-> "gateway"][cloudflareOp[h].kind]
                    /\ Cloudflare!Acquire(h, next)
    BY <1>2 DEF Cloudflare!Guarded
  <2>2. cloudflareOp[h].kind \in {"apply", "verify", "rollback", "cleanup"}
        /\ cloudflareOp[h].pc = "acquire"
    BY <1>2 DEF Cloudflare!Guarded, Cloudflare!Kinds
  <2>3. <<cloudflareOp[h].kind, next>> \in FirstSteps
    BY <2>1, <2>2 DEF FirstSteps
  <2> QED BY <2>1, <2>2, <2>3, AcquireKeeps
<1> QED BY <1>1, <1>2

\* A row that is free, or gone
LEMMA Rows ==
  ASSUME NEW b \in SomeBuild, NEW n \in Int
  PROVE  /\ [Cloudflare!Free(b) EXCEPT !.revision = n]
              = [is |-> "present", owner |-> Nobody, build |-> b, revision |-> n]
         /\ Cloudflare!Free(b)
              = [is |-> "present", owner |-> Nobody, build |-> b, revision |-> 0]
         /\ Cloudflare!NoRow
              = [is |-> "absent", owner |-> Nobody, build |-> Nobody, revision |-> 0]
<1>1. PICK z : z = Cloudflare!NoRow
  OBVIOUS
<1>2. z = [is |-> "absent", owner |-> Nobody, build |-> Nobody, revision |-> 0]
  BY <1>1 DEF Cloudflare!NoRow, Cloudflare!None, Nobody
<1>3. PICK f : f = [z EXCEPT !.is = "present", !.build = b]
  OBVIOUS
<1>4. f = [is |-> "present", owner |-> Nobody, build |-> b, revision |-> 0]
  BY ONLY <1>2, <1>3
<1>5. [f EXCEPT !.revision = n]
        = [is |-> "present", owner |-> Nobody, build |-> b, revision |-> n]
  BY ONLY <1>4
<1>6. f = Cloudflare!Free(b)
  BY <1>1, <1>3 DEF Cloudflare!Free
<1> QED BY <1>1, <1>2, <1>4, <1>5, <1>6

\* Two CREATE TABLE: the second finds the table there and throws.
LEMMA CreateTableKeeps ==
  ASSUME RunsKept, NEW h \in Helpers, Cloudflare!CreateTable(h)
  PROVE  RunsKept'
<1>1. CASE Cloudflare!Throw(h)
  BY <1>1, ThrowKeeps
<1>2. CASE ~Cloudflare!Throw(h)
  <2>1. cloudflareOp[h] \in Runs /\ ProcessSound(h, cloudflareOp[h])
    BY RunOf
  <2>2. /\ cloudflareOp[h].kind \in {"install", "adopt"}
        /\ cloudflareOp[h].pc = "initialize"
        /\ coordination.is = "absent" /\ d1.live /\ d1.id = cloudflareOp[h].mine.db
        /\ coordination' = [coordination EXCEPT !.is = "empty"]
        /\ UNCHANGED <<host, d1, d1Schema, active, stateFile, foreign>>
    BY <1>2 DEF Cloudflare!CreateTable, Cloudflare!Reached, Cloudflare!Mine
  <2>3. PICK o : o = [cloudflareOp[h] EXCEPT !.pc = "insert"]
    OBVIOUS
  <2>4. /\ o \in Runs /\ o.pc = "insert" /\ o.kind = cloudflareOp[h].kind
        /\ o.mine = cloudflareOp[h].mine /\ o.target = cloudflareOp[h].target
        /\ o.recover = cloudflareOp[h].recover
    BY ONLY <2>1, <2>3 DEF Runs, RunSteps
  <2>5. cloudflareOp' = [cloudflareOp EXCEPT ![h] = o]
    BY <1>2, <2>3, RunOf DEF Cloudflare!CreateTable, Cloudflare!Goto
  <2>6. /\ coordination'.owner = Nobody /\ coordination'.is = "empty"
        /\ coordination' \in [is : {"absent", "empty", "present"},
                              owner : Helpers \cup {Nobody},
                              build : SomeBuild, revision : Int]
    BY <2>2 DEF RunsKept, AccountType, AccountSound
  <2>7. AccountType'
    BY <2>2, <2>6 DEF RunsKept, AccountType
  <2>8. AccountSound'
    BY <2>2, <2>6 DEF RunsKept, AccountSound, FileSound, Cloudflare!FreeMeansWhole,
       Cloudflare!NoDeadEnd, Cloudflare!DatabaseOutlivesWorkers,
       Cloudflare!Uncoordinated
  <2>9. h # Nobody
    BY AdministrationAssumption DEF Nobody
  <2>10. ProcessSound(h, o)'
    <3>1. FileSound(o.mine)'
      BY <2>1, <2>2, <2>4 DEF ProcessSound, FileSound
    <3>2. Began(o)'
      BY <2>1, <2>2, <2>4 DEF ProcessSound, Began
    <3>3. Works(h, o)'
      BY <2>6, <2>9 DEF Works
    <3>4. Adopts(h, o)'
      BY <2>1, <2>2, <2>4, <2>6 DEF ProcessSound, Adopts, Serves
    <3> QED BY <3>1, <3>2, <3>3, <3>4 DEF ProcessSound
  <2> QED BY <2>2, <2>4, <2>5, <2>6, <2>7, <2>8, <2>10, RunStep DEF Apart
<1> QED BY <1>1, <1>2

\* The row of an installation names no build yet, the row of an adoption the
\* build that is deployed.
LEMMA InsertRowKeeps ==
  ASSUME RunsKept, NEW h \in Helpers, Cloudflare!InsertRow(h)
  PROVE  RunsKept'
<1>1. cloudflareOp[h] \in Runs /\ ProcessSound(h, cloudflareOp[h]) /\ host[h] \in Machines
  BY RunOf
<1>2. PICK b : b = IF cloudflareOp[h].kind = "install" THEN Nobody
                   ELSE cloudflareOp[h].mine.build
  OBVIOUS
<1>3. b \in SomeBuild
  BY <1>1, <1>2 DEF Runs, Checkpoints, SomeBuild
<1>4. /\ cloudflareOp[h].kind \in {"install", "adopt"} /\ cloudflareOp[h].pc = "insert"
      /\ coordination' = [is |-> "present", owner |-> Nobody, build |-> b, revision |-> 0]
      /\ UNCHANGED <<host, d1, d1Schema, active, stateFile, foreign>>
  <2>1. coordination' = Cloudflare!Free(b)
    BY <1>2 DEF Cloudflare!InsertRow, Cloudflare!Mine, Cloudflare!None, Nobody
  <2>2. coordination' = [is |-> "present", owner |-> Nobody, build |-> b, revision |-> 0]
    <3>1. 0 \in Int
      OBVIOUS
    <3> QED BY <1>3, <2>1, <3>1, Rows
  <2> QED BY <2>2 DEF Cloudflare!InsertRow
<1>5. PICK o : o = [cloudflareOp[h] EXCEPT !.pc = "acquire"]
  OBVIOUS
<1>6. /\ o \in Runs /\ o.pc = "acquire" /\ o.kind = cloudflareOp[h].kind
      /\ o.mine = cloudflareOp[h].mine /\ o.target = cloudflareOp[h].target
      /\ o.recover = cloudflareOp[h].recover
  BY ONLY <1>1, <1>5 DEF Runs, RunSteps
<1>7. cloudflareOp' = [cloudflareOp EXCEPT ![h] = o]
  BY <1>5, RunOf DEF Cloudflare!InsertRow, Cloudflare!Goto
<1>8. coordination.is = "empty" /\ d1.live
  BY <1>1, <1>4 DEF ProcessSound, Adopts, RunsKept, AccountSound
<1>9. cloudflareOp[h].kind = "adopt" =>
        /\ Serves(b) /\ b \in Builds /\ Schema[b] <= d1Schema
        /\ stateFile[host[h]].build = b /\ stateFile[host[h]].db = d1.id
        /\ stateFile[host[h]].status \in {"verified", "rolled-back"}
  BY <1>1, <1>2, <1>4, <1>8 DEF ProcessSound, Began, Adopts, FileSound, Settled
<1>10. AccountType'
  BY <1>3, <1>4 DEF RunsKept, AccountType
<1>11. AccountSound'
  <2>1. cloudflareOp[h].kind = "install" => b = Nobody
    BY <1>2
  <2>2. /\ Cloudflare!FreeMeansWhole' /\ Cloudflare!NoDeadEnd'
        /\ Cloudflare!DatabaseOutlivesWorkers'
    <3>1. Cloudflare!FreeMeansWhole'
      BY <1>4, <1>9, <2>1 DEF Cloudflare!FreeMeansWhole, Cloudflare!Uncoordinated,
         Cloudflare!None, Nobody, Serves, RunsKept, AccountType
    <3>2. Cloudflare!NoDeadEnd'
      BY <1>1, <1>4, <1>9, <2>1 DEF Cloudflare!NoDeadEnd, Cloudflare!None, Nobody
    <3>3. Cloudflare!DatabaseOutlivesWorkers'
      BY <1>4, <1>8 DEF Cloudflare!DatabaseOutlivesWorkers
    <3> QED BY <3>1, <3>2, <3>3
  <2> QED BY <1>4, <1>8, <2>2 DEF RunsKept, AccountSound, FileSound
<1>12. ProcessSound(h, o)'
  <2>1. FileSound(o.mine)'
    BY <1>1, <1>4, <1>6 DEF ProcessSound, FileSound
  <2>2. Began(o)'
    BY <1>1, <1>4, <1>6 DEF ProcessSound, Began
  <2>3. h # Nobody
    BY AdministrationAssumption DEF Nobody
  <2> QED BY <1>4, <1>6, <2>1, <2>2, <2>3 DEF ProcessSound, Works, Adopts
<1>13. Apart(h)
  BY <1>4, <1>8 DEF Apart, RunsKept, AccountType
<1> QED BY <1>4, <1>6, <1>7, <1>10, <1>11, <1>12, <1>13, RunStep

\* The only release: what is deployed is what the row will name.
LEMMA CompleteKeeps ==
  ASSUME RunsKept, NEW h \in Helpers, Cloudflare!Complete(h)
  PROVE  RunsKept'
<1>1. CASE Cloudflare!Throw(h)
  BY <1>1, ThrowKeeps
<1>2. CASE ~Cloudflare!Throw(h)
  <2>1. cloudflareOp[h] \in Runs /\ ProcessSound(h, cloudflareOp[h]) /\ host[h] \in Machines
    BY RunOf
  <2>2. PICK b \in SomeBuild : b = cloudflareOp[h].mine.build
    BY <2>1 DEF Runs, Checkpoints
  <2>3. PICK n \in Int : n = coordination.revision + 1
    BY DEF RunsKept, AccountType
  <2>4. /\ Cloudflare!Owned(h) /\ cloudflareOp[h].pc = "complete"
        /\ coordination' = [is |-> "present", owner |-> Nobody, build |-> b,
                            revision |-> n]
        /\ cloudflareOp' = [cloudflareOp EXCEPT ![h] = Cloudflare!Idle]
        /\ UNCHANGED <<host, d1, d1Schema, active, stateFile, foreign>>
    BY <1>2, <2>2, <2>3, Rows DEF Cloudflare!Complete, Cloudflare!Mine
  <2>5. /\ coordination.owner = h /\ coordination.is = "present"
        /\ d1.live /\ d1.id = cloudflareOp[h].mine.db
    BY <2>4 DEF Cloudflare!Owned, Cloudflare!Reached, Cloudflare!Mine
  <2>6. /\ Serves(b) /\ b \in Builds /\ Schema[b] <= d1Schema
        /\ stateFile[host[h]].build = b /\ stateFile[host[h]].db = d1.id
        /\ stateFile[host[h]].status \in Settled
    BY <2>1, <2>2, <2>4, <2>5 DEF ProcessSound, Works, FileSound
  <2>7. AccountType'
    BY <2>4 DEF RunsKept, AccountType
  <2>8. AccountSound'
    <3>1. Cloudflare!FreeMeansWhole'
      BY <2>4, <2>6 DEF Cloudflare!FreeMeansWhole, Cloudflare!Uncoordinated, Serves,
         RunsKept, AccountType
    <3>2. Cloudflare!NoDeadEnd'
      BY <2>1, <2>4, <2>6 DEF Cloudflare!NoDeadEnd, Settled
    <3>3. Cloudflare!DatabaseOutlivesWorkers'
      BY <2>4, <2>5 DEF Cloudflare!DatabaseOutlivesWorkers
    <3> QED BY <2>4, <2>5, <3>1, <3>2, <3>3 DEF RunsKept, AccountSound, FileSound
  <2>9. Apart(h)
    BY <2>4, <2>5 DEF Apart, RunsKept, AccountType
  <2> QED BY <2>4, <2>7, <2>8, <2>9, RunStep, IdleSound, IdleRun
<1> QED BY <1>1, <1>2

\* The database goes last, and its row with it.
LEMMA DeleteDatabaseKeeps ==
  ASSUME RunsKept, NEW h \in Helpers, Cloudflare!DeleteDatabase(h)
  PROVE  RunsKept'
<1>1. CASE Cloudflare!Throw(h)
  BY <1>1, ThrowKeeps
<1>2. CASE ~Cloudflare!Throw(h)
  <2>1. cloudflareOp[h] \in Runs /\ ProcessSound(h, cloudflareOp[h]) /\ host[h] \in Machines
        /\ stateFile[host[h]] \in Checkpoints
    BY RunOf
  <2>2. PICK s : s = IF active = Cloudflare!Both(Nobody)
                       THEN [stateFile[host[h]] EXCEPT !.status = "cleanup-verified"]
                       ELSE stateFile[host[h]]
    OBVIOUS
  <2>3. /\ Cloudflare!Owned(h) /\ Cloudflare!At(h, "cleanup", "database")
        /\ coordination' = Cloudflare!NoRow
        /\ d1' = [d1 EXCEPT !.live = FALSE] /\ d1Schema' = 0
        /\ stateFile' = [stateFile EXCEPT ![host[h]].status =
             IF active = Cloudflare!Both(Cloudflare!None) THEN "cleanup-verified" ELSE @]
        /\ cloudflareOp' = [cloudflareOp EXCEPT ![h] = Cloudflare!Idle]
        /\ UNCHANGED <<host, active, foreign>>
    BY <1>2 DEF Cloudflare!DeleteDatabase
  <2>4. /\ coordination.owner = h /\ coordination.is = "present"
        /\ cloudflareOp[h].kind = "cleanup" /\ cloudflareOp[h].pc = "database"
    BY <2>3 DEF Cloudflare!Owned, Cloudflare!At
  <2>5. coordination' = [is |-> "absent", owner |-> Nobody, build |-> Nobody,
                         revision |-> 0]
    <3>1. 0 \in Int /\ Nobody \in SomeBuild
      BY DEF SomeBuild
    <3> QED BY <2>3, <3>1, Rows
  <2>6. d1'.id = d1.id /\ d1'.live = FALSE /\ d1' \in [id : Nat, live : BOOLEAN]
    BY <2>3 DEF RunsKept, AccountType
  <2>7. /\ s \in Checkpoints /\ s.db = stateFile[host[h]].db
        /\ s.versions = stateFile[host[h]].versions
    <3>1. CASE active = Cloudflare!Both(Nobody)
      BY <2>1, <2>2, <3>1 DEF Checkpoints
    <3>2. CASE active # Cloudflare!Both(Nobody)
      BY <2>1, <2>2, <3>2
    <3> QED BY <3>1, <3>2
  <2>8. stateFile' = [stateFile EXCEPT ![host[h]] = s]
    <3>1. stateFile \in [Machines -> Checkpoints] /\ Cloudflare!None = Nobody
      BY DEF RunsKept, AccountType, Cloudflare!None, Nobody
    <3>2. CASE active = Cloudflare!Both(Nobody)
      BY <2>2, <2>3, <3>1, <3>2
    <3>3. CASE active # Cloudflare!Both(Nobody)
      <4>1. /\ s = stateFile[host[h]]
            /\ stateFile' = [stateFile EXCEPT ![host[h]].status = @]
        BY <2>2, <2>3, <3>1, <3>3
      <4>2. [stateFile[host[h]] EXCEPT !.status = stateFile[host[h]].status]
              = stateFile[host[h]]
        BY <2>1 DEF Checkpoints
      <4> QED BY <2>1, <3>1, <4>1, <4>2
    <3> QED BY <3>2, <3>3
  <2>9. AccountType'
    BY <2>1, <2>3, <2>5, <2>6, <2>7, <2>8 DEF RunsKept, AccountType, SomeBuild
  <2>10. \A t \in Checkpoints, m \in Machines : stateFile'[m] = t => FileSound(t)'
    <3>1. SUFFICES ASSUME NEW t \in Checkpoints, NEW m \in Machines, stateFile'[m] = t
                   PROVE  FileSound(t)'
      OBVIOUS
    <3>2. stateFile[m] \in Checkpoints /\ FileSound(stateFile[m])
      BY DEF RunsKept, AccountType, AccountSound
    <3>3. t.db = stateFile[m].db /\ t.versions = stateFile[m].versions
      BY <2>7, <2>8, <3>1 DEF RunsKept, AccountType
    <3> QED BY <2>3, <2>6, <3>2, <3>3 DEF FileSound
  <2>11. AccountSound'
    <3>1. Cloudflare!DatabaseOutlivesWorkers'
      BY <2>1, <2>3, <2>4 DEF ProcessSound, Works, Serves,
         Cloudflare!DatabaseOutlivesWorkers, Cloudflare!None, Nobody
    <3> QED BY <2>5, <2>10, <3>1 DEF AccountSound, Cloudflare!FreeMeansWhole,
              Cloudflare!NoDeadEnd, Cloudflare!Uncoordinated
  <2>12. Apart(h)
    BY <2>3, <2>4 DEF Apart
  <2> QED BY <2>3, <2>9, <2>11, <2>12, RunStep, IdleSound, IdleRun
<1> QED BY <1>1, <1>2

-----------------------------------------------------------------------------
\* A checkpoint is written only by the owner of the row, to memory and disk.
LEMMA CheckpointKeeps ==
  ASSUME RunsKept, NEW h \in Helpers, NEW s \in Checkpoints,
         NEW p \in {"pause", "recheck", "migrate", "database", "complete"},
         Cloudflare!Owned(h), Cloudflare!Write(h, s, p),
         UNCHANGED <<host, coordination, d1, d1Schema, active, foreign>>,
         cloudflareOp[h].pc # "idle", FileSound(s),
         cloudflareOp[h].kind = "adopt" => s.status \in {"verified", "rolled-back"},
         cloudflareOp[h].kind = "verify" => s.status \in Settled,
         cloudflareOp[h].kind = "rollback" => s.previous # Cloudflare!NoPrevious,
         cloudflareOp[h].kind = "apply" /\ p = "pause" => s.status = "updating",
         p = "database" => Serves(Nobody),
         p = "complete" => Serves(s.build) /\ s.status \in Settled
  PROVE  RunsKept'
<1>1. cloudflareOp[h] \in Runs /\ ProcessSound(h, cloudflareOp[h]) /\ host[h] \in Machines
  BY RunOf
<1>2. PICK o : o = [cloudflareOp[h] EXCEPT !.mine = s, !.pc = p]
  OBVIOUS
<1>3. /\ o \in Runs /\ o.pc = p /\ o.mine = s /\ o.kind = cloudflareOp[h].kind
      /\ o.target = cloudflareOp[h].target /\ o.recover = cloudflareOp[h].recover
  <2>1. p \in RunSteps
    BY DEF RunSteps
  <2> QED BY ONLY <1>1, <1>2, <2>1, s \in Checkpoints DEF Runs
<1>4. /\ cloudflareOp' = [cloudflareOp EXCEPT ![h] = o]
      /\ stateFile' = [stateFile EXCEPT ![host[h]] = s] /\ stateFile'[host[h]] = s
  BY <1>1, <1>2 DEF Cloudflare!Write, RunsKept, RunType, AccountType
<1>5. coordination.owner = h /\ coordination.is = "present"
  BY DEF Cloudflare!Owned
<1>6. FileSound(s)'
  BY DEF FileSound
<1>7. Began(o)'
  BY <1>1, <1>3 DEF ProcessSound, Began
<1>8. Works(h, o)' /\ Adopts(h, o)'
  BY <1>3, <1>4, <1>5 DEF Works, Adopts, Serves
<1>9. ProcessSound(h, o)' /\ o.pc # "insert"
  BY <1>3, <1>6, <1>7, <1>8 DEF ProcessSound
<1>10. d1Schema' \in Nat /\ d1Schema' >= d1Schema /\ active' \in WorkerPairs
  BY DEF RunsKept, AccountType
<1> QED BY ONLY RunsKept, <1>3, <1>4, <1>6, <1>9, <1>10, OwnerStep, h \in Helpers,
       s \in Checkpoints, Cloudflare!Owned(h),
       UNCHANGED <<host, coordination, d1, foreign>>

\* What the owner of the row knows of its own operation
LEMMA OwnerKnows ==
  ASSUME RunsKept, NEW h \in Helpers, Cloudflare!Owned(h)
  PROVE  /\ cloudflareOp[h] \in Runs /\ cloudflareOp[h].mine \in Checkpoints
         /\ Began(cloudflareOp[h]) /\ FileSound(cloudflareOp[h].mine)
         /\ Works(h, cloudflareOp[h])
         /\ coordination.owner = h /\ coordination.is = "present" /\ d1.live
         /\ d1.id = cloudflareOp[h].mine.db /\ h # Nobody
BY RunOf, AdministrationAssumption DEF Cloudflare!Owned, Cloudflare!Reached, Cloudflare!Mine,
   ProcessSound, Runs, Nobody

LEMMA CheckUpdateKeeps ==
  ASSUME RunsKept, NEW h \in Helpers, Cloudflare!CheckUpdate(h)
  PROVE  RunsKept'
<1>1. CASE Cloudflare!Throw(h)
  BY <1>1, ThrowKeeps
<1>2. CASE ~Cloudflare!Throw(h)
  <2>1. PICK q : q = cloudflareOp[h].mine
    OBVIOUS
  <2>2. PICK s : s = [[q EXCEPT !.status = "updating"]
                        EXCEPT !.previous = Cloudflare!NoPrevious]
    OBVIOUS
  <2>3. /\ Cloudflare!Owned(h) /\ q.status \in {"verified", "rolled-back"}
        /\ Cloudflare!Write(h, s, "pause")
        /\ UNCHANGED <<host, coordination, d1, d1Schema, active, foreign>>
        /\ cloudflareOp[h].kind = "apply" /\ cloudflareOp[h].pc = "check"
    BY <1>2, <2>1, <2>2 DEF Cloudflare!CheckUpdate, Cloudflare!Checkpoint, Cloudflare!At,
       Cloudflare!Mine, Cloudflare!Status, Cloudflare!remote
  <2>4. q \in Checkpoints /\ FileSound(q)
    BY <2>1, <2>3, OwnerKnows
  <2>5. /\ s \in Checkpoints /\ s.status = "updating" /\ s.build = q.build /\ s.db = q.db
        /\ s.versions = q.versions /\ s.previous = Cloudflare!NoPrevious
    BY ONLY <2>2, <2>4, IdleRun DEF Checkpoints
  <2>6. FileSound(s)
    BY <2>3, <2>4, <2>5 DEF FileSound, Settled
  <2> QED BY <2>3, <2>5, <2>6, CheckpointKeeps
<1> QED BY <1>1, <1>2

LEMMA RecordBackupKeeps ==
  ASSUME RunsKept, NEW h \in Helpers, Cloudflare!RecordBackup(h)
  PROVE  RunsKept'
<1>1. CASE Cloudflare!Throw(h)
  BY <1>1, ThrowKeeps
<1>2. CASE ~Cloudflare!Throw(h)
  <2>1. PICK q : q = cloudflareOp[h].mine
    OBVIOUS
  <2>2. PICK b : b = [build |-> q.build, schema |-> d1Schema]
    OBVIOUS
  <2>3. PICK s : s = [q EXCEPT !.previous = b]
    OBVIOUS
  <2>4. /\ Cloudflare!Owned(h) /\ Cloudflare!Write(h, s, "recheck")
        /\ UNCHANGED <<host, coordination, d1, d1Schema, active, foreign>>
        /\ cloudflareOp[h].kind = "apply" /\ cloudflareOp[h].pc = "recorded"
    BY <1>2, <2>1, <2>2, <2>3 DEF Cloudflare!RecordBackup, Cloudflare!Checkpoint,
       Cloudflare!At, Cloudflare!Mine, Cloudflare!BackedUp, Cloudflare!remote
  <2>5. q \in Checkpoints /\ FileSound(q) /\ q.status = "updating" /\ d1.live
        /\ q.db = d1.id
    BY <2>1, <2>4, OwnerKnows DEF Began
  <2>6. b \in [build : SomeBuild, schema : Nat] /\ b.build = q.build
    BY <2>2, <2>5 DEF Checkpoints, RunsKept, AccountType
  <2>7. /\ s \in Checkpoints /\ s.status = q.status /\ s.build = q.build /\ s.db = q.db
        /\ s.versions = q.versions /\ s.previous = b
    BY ONLY <2>3, <2>5, <2>6 DEF Checkpoints
  <2>8. FileSound(s)
    BY <2>5, <2>6, <2>7 DEF FileSound, Settled
  <2> QED BY <2>4, <2>8, <2>7, CheckpointKeeps
<1> QED BY <1>1, <1>2

\* A checkpoint written again as it is
LEMMA RewritesKeep ==
  ASSUME RunsKept, NEW h \in Helpers, Cloudflare!RecheckUpdate(h) \/ Cloudflare!RecordAdopt(h)
  PROVE  RunsKept'
<1>1. CASE Cloudflare!Throw(h)
  BY <1>1, ThrowKeeps
<1>2. CASE ~Cloudflare!Throw(h)
  <2>1. PICK q : q = cloudflareOp[h].mine
    OBVIOUS
  <2>2. /\ Cloudflare!Owned(h)
        /\ UNCHANGED <<host, coordination, d1, d1Schema, active, foreign>>
        /\ \/ /\ Cloudflare!Write(h, q, "migrate") /\ cloudflareOp[h].kind = "apply"
              /\ cloudflareOp[h].pc = "recheck"
           \/ /\ Cloudflare!Write(h, q, "complete") /\ cloudflareOp[h].kind = "adopt"
              /\ cloudflareOp[h].pc = "record"
    BY <1>2, <2>1 DEF Cloudflare!RecheckUpdate, Cloudflare!RecordAdopt,
       Cloudflare!Checkpoint, Cloudflare!At, Cloudflare!Mine, Cloudflare!remote
  <2>3. /\ q \in Checkpoints /\ FileSound(q)
        /\ Began(cloudflareOp[h]) /\ Works(h, cloudflareOp[h])
        /\ coordination.owner = h
    BY <2>1, <2>2, OwnerKnows
  <2>4. cloudflareOp[h].kind = "adopt" /\ cloudflareOp[h].pc = "record" =>
          Serves(q.build) /\ q.status \in {"verified", "rolled-back"}
    BY <2>1, <2>3 DEF Began, Works
  <2>5. CASE cloudflareOp[h].kind = "apply"
    <3>1. Cloudflare!Write(h, q, "migrate")
      BY <2>2, <2>5
    <3> QED BY <2>2, <2>3, <2>5, <3>1, CheckpointKeeps
  <2>6. CASE cloudflareOp[h].kind = "adopt"
    <3>1. Cloudflare!Write(h, q, "complete") /\ Serves(q.build)
          /\ q.status \in {"verified", "rolled-back"}
      BY <2>2, <2>4, <2>6
    <3> QED BY <2>2, <2>3, <2>6, <3>1, CheckpointKeeps DEF Settled
  <2> QED BY <2>2, <2>5, <2>6
<1> QED BY <1>1, <1>2

\* The build that is deployed becomes the build of the checkpoint.
LEMMA FinishDeployKeeps ==
  ASSUME RunsKept, NEW h \in Helpers, Cloudflare!FinishDeploy(h)
  PROVE  RunsKept'
<1>1. CASE Cloudflare!Throw(h)
  BY <1>1, ThrowKeeps
<1>2. CASE ~Cloudflare!Throw(h)
  <2>1. PICK q : q = cloudflareOp[h].mine
    OBVIOUS
  <2>2. PICK t : t = cloudflareOp[h].target
    OBVIOUS
  <2>3. PICK a : a = active
    OBVIOUS
  <2>4. PICK s : s = [[q EXCEPT !.status = "awaiting-verification"]
                        EXCEPT !.build = t, !.versions = a]
    OBVIOUS
  <2>5. /\ Cloudflare!Owned(h) /\ Cloudflare!Write(h, s, "complete")
        /\ UNCHANGED <<host, coordination, d1, d1Schema, active, foreign>>
        /\ cloudflareOp[h].kind \in {"install", "apply"} /\ cloudflareOp[h].pc = "finish"
    BY <1>2, <2>1, <2>2, <2>3, <2>4 DEF Cloudflare!FinishDeploy, Cloudflare!Checkpoint,
       Cloudflare!Mine, Cloudflare!Status, Cloudflare!remote
  <2>6. /\ q \in Checkpoints /\ FileSound(q) /\ t \in Builds /\ Serves(t)
        /\ Schema[t] <= d1Schema /\ a \in WorkerPairs
    BY <2>1, <2>2, <2>3, <2>5, OwnerKnows DEF Began, Works, RunsKept, AccountType
  <2>7. /\ s \in Checkpoints /\ s.status = "awaiting-verification" /\ s.build = t
        /\ s.db = q.db /\ s.versions = a /\ s.previous = q.previous
    <3>1. t \in SomeBuild
      BY <2>6 DEF SomeBuild
    <3> QED BY ONLY <2>4, <2>6, <3>1 DEF Checkpoints, Settled
  <2>8. foreign \/ s.versions.control = s.versions.gateway
    BY <2>3, <2>6, <2>7 DEF Serves, Cloudflare!Both
  <2>9. FileSound(s)
    BY <2>6, <2>7, <2>8 DEF FileSound
  <2> QED BY <2>5, <2>6, <2>7, <2>9, CheckpointKeeps DEF Settled
<1> QED BY <1>1, <1>2

LEMMA RecordVerifyKeeps ==
  ASSUME RunsKept, NEW h \in Helpers, Cloudflare!RecordVerify(h)
  PROVE  RunsKept'
<1>1. CASE Cloudflare!Throw(h)
  BY <1>1, ThrowKeeps
<1>2. CASE ~Cloudflare!Throw(h)
  <2>1. PICK q : q = cloudflareOp[h].mine
    OBVIOUS
  <2>2. PICK s : s = [q EXCEPT !.status = "verified"]
    OBVIOUS
  <2>3. /\ Cloudflare!Owned(h) /\ Cloudflare!Write(h, s, "complete")
        /\ UNCHANGED <<host, coordination, d1, d1Schema, active, foreign>>
        /\ cloudflareOp[h].kind = "verify" /\ cloudflareOp[h].pc = "record"
    BY <1>2, <2>1, <2>2 DEF Cloudflare!RecordVerify, Cloudflare!Checkpoint, Cloudflare!At,
       Cloudflare!Mine, Cloudflare!Status, Cloudflare!remote
  <2>4. q \in Checkpoints /\ FileSound(q) /\ q.status \in Settled /\ Serves(q.build)
    BY <2>1, <2>3, OwnerKnows DEF Began, Works
  <2>5. /\ s \in Checkpoints /\ s.status = "verified" /\ s.build = q.build
        /\ s.db = q.db /\ s.versions = q.versions /\ s.previous = q.previous
    BY ONLY <2>2, <2>4 DEF Checkpoints, Settled
  <2>6. FileSound(s)
    BY <2>4, <2>5 DEF FileSound
  <2> QED BY <2>3, <2>4, <2>5, <2>6, CheckpointKeeps DEF Settled
<1> QED BY <1>1, <1>2

LEMMA RecordRollbackKeeps ==
  ASSUME RunsKept, NEW h \in Helpers, Cloudflare!RecordRollback(h)
  PROVE  RunsKept'
<1>1. CASE Cloudflare!Throw(h)
  BY <1>1, ThrowKeeps
<1>2. CASE ~Cloudflare!Throw(h)
  <2>1. PICK q : q = cloudflareOp[h].mine
    OBVIOUS
  <2>2. PICK b : b = q.previous.build
    OBVIOUS
  <2>3. PICK v : v = Cloudflare!Both(b)
    OBVIOUS
  <2>4. PICK s : s = [[q EXCEPT !.status = "rolled-back"]
                        EXCEPT !.build = b, !.versions = v]
    OBVIOUS
  <2>5. /\ Cloudflare!Owned(h) /\ Cloudflare!Write(h, s, "complete")
        /\ active = v
        /\ UNCHANGED <<host, coordination, d1, d1Schema, active, foreign>>
        /\ cloudflareOp[h].kind = "rollback" /\ cloudflareOp[h].pc = "record"
    BY <1>2, <2>1, <2>2, <2>3, <2>4 DEF Cloudflare!RecordRollback,
       Cloudflare!Checkpoint, Cloudflare!At, Cloudflare!Mine, Cloudflare!Status,
       Cloudflare!remote
  <2>6. /\ q \in Checkpoints /\ FileSound(q) /\ q.previous # Cloudflare!NoPrevious
        /\ d1.live /\ d1.id = q.db
    BY <2>1, <2>5, OwnerKnows DEF Began
  <2>7. b \in Builds /\ Schema[b] <= d1Schema
    BY <2>2, <2>6 DEF FileSound
  <2>8. v \in WorkerPairs /\ v.control = v.gateway /\ b \in SomeBuild
    BY <2>3, <2>7 DEF Cloudflare!Both, WorkerPairs, SomeBuild
  <2>9. /\ s \in Checkpoints /\ s.status = "rolled-back" /\ s.build = b
        /\ s.db = q.db /\ s.versions = v /\ s.previous = q.previous
    BY ONLY <2>4, <2>6, <2>8 DEF Checkpoints, Settled
  <2>10. FileSound(s) /\ Serves(b)
    BY <2>3, <2>5, <2>6, <2>7, <2>8, <2>9 DEF FileSound, Serves
  <2> QED BY <2>5, <2>6, <2>9, <2>10, CheckpointKeeps DEF Settled
<1> QED BY <1>1, <1>2

LEMMA RecordCleanupKeeps ==
  ASSUME RunsKept, NEW h \in Helpers, Cloudflare!RecordCleanup(h)
  PROVE  RunsKept'
<1>1. CASE Cloudflare!Throw(h)
  BY <1>1, ThrowKeeps
<1>2. CASE ~Cloudflare!Throw(h)
  <2>1. PICK q : q = cloudflareOp[h].mine
    OBVIOUS
  <2>2. PICK s : s = [q EXCEPT !.status = "cleanup-database-intent"]
    OBVIOUS
  <2>3. /\ Cloudflare!Owned(h) /\ Cloudflare!Write(h, s, "database")
        /\ UNCHANGED <<host, coordination, d1, d1Schema, active, foreign>>
        /\ cloudflareOp[h].kind = "cleanup" /\ cloudflareOp[h].pc = "intent"
    BY <1>2, <2>1, <2>2 DEF Cloudflare!RecordCleanup, Cloudflare!Checkpoint,
       Cloudflare!At, Cloudflare!Mine, Cloudflare!Status, Cloudflare!remote
  <2>4. q \in Checkpoints /\ FileSound(q) /\ Serves(Nobody)
    BY <2>1, <2>3, OwnerKnows DEF Works
  <2>5. /\ s \in Checkpoints /\ s.status = "cleanup-database-intent"
        /\ s.db = q.db /\ s.versions = q.versions /\ s.previous = q.previous
    BY ONLY <2>2, <2>4 DEF Checkpoints
  <2>6. FileSound(s)
    BY <2>4, <2>5 DEF FileSound, Settled
  <2> QED BY <2>3, <2>4, <2>5, <2>6, CheckpointKeeps
<1> QED BY <1>1, <1>2

-----------------------------------------------------------------------------
\* A command of the owner goes on, or fails after it may have had its effect.
LEMMA CommandKeeps ==
  ASSUME RunsKept, NEW h \in Helpers, NEW p \in RunSteps, p # "insert", p # "complete",
         Cloudflare!Owned(h),
         UNCHANGED <<host, coordination, d1, foreign>>,
         d1Schema' \in Nat, d1Schema' >= d1Schema, active' \in WorkerPairs,
         \/ Cloudflare!Goto(h, p) /\ stateFile' = stateFile
         \/ /\ cloudflareOp' = [cloudflareOp EXCEPT ![h] = Cloudflare!Idle]
            /\ stateFile' = IF Cloudflare!Marks(h)
                              THEN [stateFile EXCEPT ![host[h]].status = "failed"]
                              ELSE stateFile,
         \A o \in Runs :
           /\ o.pc = p /\ o.kind = cloudflareOp[h].kind
           /\ o.target = cloudflareOp[h].target
           /\ o.mine = cloudflareOp[h].mine /\ o.recover = cloudflareOp[h].recover
           => Began(o) /\ Works(h, o)'
  PROVE  RunsKept'
<1>1. CASE /\ cloudflareOp' = [cloudflareOp EXCEPT ![h] = Cloudflare!Idle]
           /\ stateFile' = IF Cloudflare!Marks(h)
                             THEN [stateFile EXCEPT ![host[h]].status = "failed"]
                             ELSE stateFile
  BY ONLY RunsKept, h \in Helpers, <1>1, Cloudflare!Owned(h),
     UNCHANGED <<host, coordination, d1, foreign>>,
     d1Schema' \in Nat, d1Schema' >= d1Schema, active' \in WorkerPairs, EndsKeep
<1>2. CASE Cloudflare!Goto(h, p) /\ stateFile' = stateFile
  <2>1. cloudflareOp[h] \in Runs /\ ProcessSound(h, cloudflareOp[h]) /\ host[h] \in Machines
        /\ stateFile[host[h]] \in Checkpoints /\ FileSound(stateFile[host[h]])
    BY RunOf
  <2>2. PICK o : o = [cloudflareOp[h] EXCEPT !.pc = p]
    OBVIOUS
  <2>3. /\ o \in Runs /\ o.pc = p /\ o.kind = cloudflareOp[h].kind
        /\ o.target = cloudflareOp[h].target
        /\ o.mine = cloudflareOp[h].mine /\ o.recover = cloudflareOp[h].recover
    BY ONLY <2>1, <2>2, p \in RunSteps DEF Runs
  <2>4. cloudflareOp' = [cloudflareOp EXCEPT ![h] = o]
    BY <1>2, <2>2, RunOf DEF Cloudflare!Goto
  <2>5. Began(o) /\ Works(h, o)'
    BY <2>3
  <2>6. coordination.is = "present" /\ d1.live /\ o.mine \in Checkpoints
    BY <2>3, OwnerKnows
  <2>7. AccountType'
    BY <1>2 DEF RunsKept, AccountType
  <2>8. FileSound(stateFile[host[h]])' /\ FileSound(o.mine)'
    <3>1. d1'.id >= d1.id /\ FileSound(o.mine)
      BY <2>1, <2>3 DEF RunsKept, AccountType, ProcessSound
    <3>2. PICK s \in Checkpoints : s = stateFile[host[h]] /\ FileSound(s)
      BY <2>1
    <3>3. FileSound(s)' /\ FileSound(o.mine)'
      BY <2>6, <2>7, <3>1, <3>2, FileLasts
    <3> QED BY <1>2, <3>2, <3>3
  <2>9. ProcessSound(h, o)'
    <3>1. Adopts(h, o)'
      BY <2>3, <2>6 DEF Adopts
    <3>2. Began(o)'
      BY <2>5 DEF Began
    <3> QED BY <2>5, <2>8, <3>1, <3>2 DEF ProcessSound
  <2>10. PICK s \in Checkpoints : s = stateFile[host[h]] /\ FileSound(s)'
    BY <1>2, <2>1, <2>8
  <2>11. stateFile' = [stateFile EXCEPT ![host[h]] = s]
    BY <1>2, <2>10 DEF RunsKept, AccountType
  <2> QED BY ONLY RunsKept, h \in Helpers, <2>3, <2>4, <2>9, <2>10, <2>11,
         p # "insert", Cloudflare!Owned(h),
         UNCHANGED <<host, coordination, d1, foreign>>,
         d1Schema' \in Nat, d1Schema' >= d1Schema, active' \in WorkerPairs, OwnerStep
<1> QED BY <1>1, <1>2

\* Commands that leave both Workers and the schema as they are
LEMMA PausesKeep ==
  ASSUME RunsKept, NEW h \in Helpers,
         \/ Cloudflare!PauseUpdate(h) \/ Cloudflare!BackupUpdate(h)
         \/ Cloudflare!PauseRollback(h) \/ Cloudflare!Resume(h)
  PROVE  RunsKept'
<1>1. CASE Cloudflare!Throw(h)
  BY <1>1, ThrowKeeps
<1>2. CASE ~Cloudflare!Throw(h)
  <2>1. PICK p \in RunSteps :
          /\ Cloudflare!Owned(h)
          /\ UNCHANGED <<host, coordination, d1, d1Schema, active, foreign>>
          /\ \/ Cloudflare!Goto(h, p) /\ stateFile' = stateFile
             \/ /\ cloudflareOp' = [cloudflareOp EXCEPT ![h] = Cloudflare!Idle]
                /\ stateFile' = IF Cloudflare!Marks(h)
                                  THEN [stateFile EXCEPT ![host[h]].status = "failed"]
                                  ELSE stateFile
          /\ <<cloudflareOp[h].kind, cloudflareOp[h].pc, p>> \in
               {<<"apply", "pause", "backup">>, <<"apply", "backup", "recorded">>,
                <<"rollback", "pause", "gateway">>, <<"verify", "resume", "record">>}
    <3>1. {"backup", "recorded", "gateway", "record"} \subseteq RunSteps
      BY DEF RunSteps
    <3>2. CASE Cloudflare!PauseUpdate(h)
      BY <1>2, <3>1, <3>2 DEF Cloudflare!PauseUpdate, Cloudflare!At, Cloudflare!Command,
         Cloudflare!Pauses, Cloudflare!Retained
    <3>3. CASE Cloudflare!BackupUpdate(h)
      BY <1>2, <3>1, <3>3 DEF Cloudflare!BackupUpdate, Cloudflare!At, Cloudflare!Command,
         Cloudflare!Exports, Cloudflare!Retained
    <3>4. CASE Cloudflare!PauseRollback(h)
      BY <1>2, <3>1, <3>4 DEF Cloudflare!PauseRollback, Cloudflare!At,
         Cloudflare!Command, Cloudflare!Pauses, Cloudflare!Retained
    <3>5. CASE Cloudflare!Resume(h)
      BY <1>2, <3>1, <3>5 DEF Cloudflare!Resume, Cloudflare!At, Cloudflare!Command,
         Cloudflare!Pauses, Cloudflare!Retained
    <3> QED BY <3>2, <3>3, <3>4, <3>5
  <2>2. /\ p \in {"backup", "recorded", "gateway", "record"}
        /\ p = "gateway" => cloudflareOp[h].kind = "rollback"
        /\ p = "record" => cloudflareOp[h].kind = "verify" /\ cloudflareOp[h].pc = "resume"
        /\ cloudflareOp[h].kind = "apply" => cloudflareOp[h].pc \in {"pause", "backup"}
        /\ cloudflareOp[h].kind \in {"apply", "rollback", "verify"}
        /\ cloudflareOp[h].pc # "idle"
    BY <2>1
  <2>3. Began(cloudflareOp[h]) /\ Works(h, cloudflareOp[h]) /\ coordination.owner = h
    BY <2>1, OwnerKnows
  <2>4. \A o \in Runs :
          /\ o.pc = p /\ o.kind = cloudflareOp[h].kind
          /\ o.target = cloudflareOp[h].target
          /\ o.mine = cloudflareOp[h].mine /\ o.recover = cloudflareOp[h].recover
          => Began(o) /\ Works(h, o)'
    <3>1. cloudflareOp[h].kind = "verify" /\ cloudflareOp[h].pc = "resume" =>
            Serves(cloudflareOp[h].mine.build)
      BY <2>3 DEF Works
    <3>2. cloudflareOp[h].kind = "apply" => cloudflareOp[h].mine.status = "updating"
      BY <2>2, <2>3 DEF Began
    <3> SUFFICES ASSUME NEW o \in Runs, o.pc = p, o.kind = cloudflareOp[h].kind,
                        o.target = cloudflareOp[h].target, o.mine = cloudflareOp[h].mine,
                        o.recover = cloudflareOp[h].recover
                 PROVE  Began(o) /\ Works(h, o)'
      OBVIOUS
    <3>3. Began(o)
      BY <2>2, <2>3, <3>2 DEF Began
    <3>4. Works(h, o)'
      BY <2>1, <2>2, <3>1 DEF Works, Serves
    <3> QED BY <3>3, <3>4
  <2>5. d1Schema' \in Nat /\ d1Schema' >= d1Schema /\ active' \in WorkerPairs
    BY <2>1 DEF RunsKept, AccountType
  <2> QED BY <2>1, <2>2, <2>4, <2>5, CommandKeeps
<1> QED BY <1>1, <1>2

LEMMA MigrateKeeps ==
  ASSUME RunsKept, NEW h \in Helpers, Cloudflare!Migrate(h)
  PROVE  RunsKept'
<1>1. CASE Cloudflare!Throw(h)
  BY <1>1, ThrowKeeps
<1>2. CASE ~Cloudflare!Throw(h)
  <2>1. PICK t : t = cloudflareOp[h].target
    OBVIOUS
  <2>2. /\ Cloudflare!Owned(h)
        /\ UNCHANGED <<host, coordination, d1, active, foreign>>
        /\ d1Schema' = IF Schema[t] > d1Schema THEN Schema[t] ELSE d1Schema
        /\ \/ Cloudflare!Goto(h, "control") /\ stateFile' = stateFile
           \/ /\ cloudflareOp' = [cloudflareOp EXCEPT ![h] = Cloudflare!Idle]
              /\ stateFile' = IF Cloudflare!Marks(h)
                                THEN [stateFile EXCEPT ![host[h]].status = "failed"]
                                ELSE stateFile
        /\ cloudflareOp[h].kind \in {"install", "apply"} /\ cloudflareOp[h].pc = "migrate"
    BY <1>2, <2>1 DEF Cloudflare!Migrate, Cloudflare!Command, Cloudflare!Migrates,
       Cloudflare!Retained
  <2>3. t \in Builds /\ Began(cloudflareOp[h])
    BY <2>1, <2>2, OwnerKnows DEF Began
  <2>4. Schema[t] \in Nat /\ d1Schema \in Nat /\ active' \in WorkerPairs
    BY <2>2, <2>3, AdministrationAssumption DEF RunsKept, AccountType
  <2>5. d1Schema' \in Nat /\ d1Schema' >= d1Schema /\ Schema[t] <= d1Schema'
    BY <2>2, <2>4
  <2>6. \A o \in Runs :
          /\ o.pc = "control" /\ o.kind = cloudflareOp[h].kind
          /\ o.target = cloudflareOp[h].target
          /\ o.mine = cloudflareOp[h].mine /\ o.recover = cloudflareOp[h].recover
          => Began(o) /\ Works(h, o)'
    BY <2>1, <2>2, <2>3, <2>5 DEF Began, Works
  <2>7. "control" \in RunSteps
    BY DEF RunSteps
  <2> QED BY <2>2, <2>4, <2>5, <2>6, <2>7, CommandKeeps
<1> QED BY <1>1, <1>2

\* What a command that deploys or deletes Worker w leaves
DeploySteps ==
  {<<"install", "control", "gateway">>, <<"apply", "control", "gateway">>,
   <<"install", "gateway", "finish">>, <<"apply", "gateway", "finish">>,
   <<"rollback", "gateway", "control">>, <<"rollback", "control", "record">>,
   <<"cleanup", "gateway", "control">>, <<"cleanup", "control", "intent">>}

LEMMA DeployKeeps ==
  ASSUME RunsKept, NEW h \in Helpers, NEW p \in RunSteps, NEW b \in SomeBuild,
         <<cloudflareOp[h].kind, cloudflareOp[h].pc, p>> \in DeploySteps,
         Cloudflare!Owned(h),
         UNCHANGED <<host, coordination, d1, d1Schema, foreign>>,
         active' = IF cloudflareOp[h].pc = "control" THEN [active EXCEPT !.control = b]
                   ELSE [active EXCEPT !.gateway = b],
         b = CASE cloudflareOp[h].kind = "rollback" -> cloudflareOp[h].mine.previous.build
               [] cloudflareOp[h].kind = "cleanup" -> Nobody
               [] OTHER -> cloudflareOp[h].target,
         \/ Cloudflare!Goto(h, p) /\ stateFile' = stateFile
         \/ /\ cloudflareOp' = [cloudflareOp EXCEPT ![h] = Cloudflare!Idle]
            /\ stateFile' = IF Cloudflare!Marks(h)
                              THEN [stateFile EXCEPT ![host[h]].status = "failed"]
                              ELSE stateFile
  PROVE  RunsKept'
<1>1. active \in WorkerPairs /\ d1Schema \in Nat
  BY DEF RunsKept, AccountType
<1>2. /\ active' \in WorkerPairs
      /\ cloudflareOp[h].pc = "control" =>
           active'.control = b /\ active'.gateway = active.gateway
      /\ cloudflareOp[h].pc # "control" =>
           active'.gateway = b /\ active'.control = active.control
      /\ \A c \in SomeBuild :
           active' = Cloudflare!Both(c) <=> active'.control = c /\ active'.gateway = c
  <2>1. PICK a \in WorkerPairs : a = active
    BY <1>1
  <2>2. CASE cloudflareOp[h].pc = "control"
    <3>1. active' = [a EXCEPT !.control = b]
      BY <2>1, <2>2
    <3> QED BY ONLY <2>1, <2>2, <3>1, b \in SomeBuild DEF WorkerPairs, Cloudflare!Both
  <2>3. CASE cloudflareOp[h].pc # "control"
    <3>1. active' = [a EXCEPT !.gateway = b]
      BY <2>1, <2>3
    <3> QED BY ONLY <2>1, <2>3, <3>1, b \in SomeBuild DEF WorkerPairs, Cloudflare!Both
  <2> QED BY <2>2, <2>3
<1>3. Began(cloudflareOp[h]) /\ Works(h, cloudflareOp[h]) /\ coordination.owner = h
  BY OwnerKnows
<1>4. /\ p # "insert" /\ p # "complete" /\ p # "resume" /\ cloudflareOp[h].pc # "idle"
      /\ cloudflareOp[h].kind \in {"install", "apply", "rollback", "cleanup"}
      /\ cloudflareOp[h].kind \in {"install", "apply"} =>
           p = IF cloudflareOp[h].pc = "control" THEN "gateway" ELSE "finish"
      /\ cloudflareOp[h].kind \in {"install", "apply"} => b = cloudflareOp[h].target
      /\ cloudflareOp[h].kind = "cleanup" =>
           p = IF cloudflareOp[h].pc = "control" THEN "intent" ELSE "control"
      /\ cloudflareOp[h].kind = "cleanup" => b = Nobody
      /\ cloudflareOp[h].pc \in {"control", "gateway"}
  BY DEF DeploySteps
<1>5. \A o \in Runs :
        /\ o.pc = p /\ o.kind = cloudflareOp[h].kind
        /\ o.target = cloudflareOp[h].target
        /\ o.mine = cloudflareOp[h].mine /\ o.recover = cloudflareOp[h].recover
        => Began(o) /\ Works(h, o)'
  <2> SUFFICES ASSUME NEW o \in Runs, o.pc = p, o.kind = cloudflareOp[h].kind,
                      o.target = cloudflareOp[h].target, o.mine = cloudflareOp[h].mine,
                      o.recover = cloudflareOp[h].recover
               PROVE  Began(o) /\ Works(h, o)'
    OBVIOUS
  <2>1. Began(o)
    BY <1>3, <1>4 DEF Began
  <2>2. CASE o.kind \in {"install", "apply"}
    <3>1. o.target \in SomeBuild /\ Schema[o.target] <= d1Schema
      BY <1>3, <1>4, <2>2 DEF Works, Began, SomeBuild
    <3>2. cloudflareOp[h].pc = "gateway" => foreign \/ active.control = o.target
      BY <1>3, <2>2 DEF Works
    <3>3. p = "finish" => Serves(o.target)'
      BY <1>2, <1>4, <2>2, <3>1, <3>2 DEF Serves
    <3> QED BY <1>2, <1>4, <2>1, <2>2, <3>1, <3>3 DEF Works
  <2>3. CASE o.kind = "cleanup"
    <3>1. Nobody \in SomeBuild
      BY DEF SomeBuild
    <3>2. cloudflareOp[h].pc = "control" => foreign \/ active.gateway = Nobody
      BY <1>3, <2>3 DEF Works
    <3>3. p = "intent" => Serves(Nobody)'
      BY <1>2, <1>4, <2>3, <3>1, <3>2 DEF Serves
    <3> QED BY <1>2, <1>4, <2>1, <2>3, <3>3 DEF Works
  <2>4. CASE o.kind = "rollback"
    BY <1>4, <2>1, <2>4 DEF Works
  <2> QED BY <1>4, <2>2, <2>3, <2>4
<1>6. d1Schema' \in Nat /\ d1Schema' >= d1Schema
  BY <1>1
<1> QED BY ONLY RunsKept, <1>2, <1>4, <1>5, <1>6, h \in Helpers, p \in RunSteps,
       Cloudflare!Owned(h),
       UNCHANGED <<host, coordination, d1, d1Schema, foreign>>,
       \/ Cloudflare!Goto(h, p) /\ stateFile' = stateFile
       \/ /\ cloudflareOp' = [cloudflareOp EXCEPT ![h] = Cloudflare!Idle]
          /\ stateFile' = IF Cloudflare!Marks(h)
                            THEN [stateFile EXCEPT ![host[h]].status = "failed"]
                            ELSE stateFile,
       CommandKeeps

LEMMA DeploysKeep ==
  ASSUME RunsKept, NEW h \in Helpers,
         \/ Cloudflare!DeployControl(h) \/ Cloudflare!DeployGateway(h)
         \/ Cloudflare!RollbackControl(h) \/ Cloudflare!RollbackGateway(h)
         \/ Cloudflare!DeleteControl(h) \/ Cloudflare!DeleteGateway(h)
  PROVE  RunsKept'
<1>1. CASE Cloudflare!Throw(h)
  BY <1>1, ThrowKeeps
<1>2. ASSUME ~Cloudflare!Throw(h),
             NEW p \in RunSteps, NEW b,
             b = CASE cloudflareOp[h].kind = "rollback" ->
                        cloudflareOp[h].mine.previous.build
                   [] cloudflareOp[h].kind = "cleanup" -> Nobody
                   [] OTHER -> cloudflareOp[h].target,
             <<cloudflareOp[h].kind, cloudflareOp[h].pc, p>> \in DeploySteps,
             \/ /\ cloudflareOp[h].pc = "control"
                /\ \/ Cloudflare!Command(h, p, Cloudflare!Deploys("control", b))
                   \/ Cloudflare!Command(h, p, Cloudflare!Introduces(b))
             \/ /\ cloudflareOp[h].pc = "gateway"
                /\ Cloudflare!Command(h, p, Cloudflare!Deploys("gateway", b))
      PROVE  RunsKept'
  <2>1. /\ Cloudflare!Owned(h)
        /\ UNCHANGED <<host, coordination, d1, d1Schema, foreign>>
        /\ active' = IF cloudflareOp[h].pc = "control" THEN [active EXCEPT !.control = b]
                     ELSE [active EXCEPT !.gateway = b]
        /\ \/ Cloudflare!Goto(h, p) /\ stateFile' = stateFile
           \/ /\ cloudflareOp' = [cloudflareOp EXCEPT ![h] = Cloudflare!Idle]
              /\ stateFile' = IF Cloudflare!Marks(h)
                                THEN [stateFile EXCEPT ![host[h]].status = "failed"]
                                ELSE stateFile
    <3>1. CASE cloudflareOp[h].pc = "control"
      <4>1. CASE Cloudflare!Command(h, p, Cloudflare!Deploys("control", b))
        BY <1>2, <3>1, <4>1 DEF Cloudflare!Command, Cloudflare!Deploys,
           Cloudflare!Retained
      <4>2. CASE Cloudflare!Command(h, p, Cloudflare!Introduces(b))
        BY <1>2, <3>1, <4>2 DEF Cloudflare!Command, Cloudflare!Introduces,
           Cloudflare!Retained
      <4> QED BY <1>2, <3>1, <4>1, <4>2
    <3>2. CASE cloudflareOp[h].pc = "gateway"
      BY <1>2, <3>2 DEF Cloudflare!Command, Cloudflare!Deploys, Cloudflare!Retained
    <3> QED BY <1>2, <3>1, <3>2
  <2>2. b \in SomeBuild
    <3>1. cloudflareOp[h] \in Runs
      BY RunOf
    <3>2. cloudflareOp[h].target \in SomeBuild /\ Nobody \in SomeBuild
          /\ cloudflareOp[h].mine.previous.build \in SomeBuild
      BY <3>1 DEF Runs, Checkpoints, SomeBuild
    <3> QED BY <1>2, <3>2
  <2> QED BY ONLY RunsKept, h \in Helpers, <1>2, <2>1, <2>2, DeployKeeps
<1>3. {"gateway", "finish", "control", "record", "intent"} \subseteq RunSteps
  BY DEF RunSteps
<1>4. CASE ~Cloudflare!Throw(h) /\ Cloudflare!DeployControl(h)
  BY <1>2, <1>3, <1>4 DEF Cloudflare!DeployControl, DeploySteps
<1>5. CASE ~Cloudflare!Throw(h) /\ Cloudflare!DeployGateway(h)
  BY <1>2, <1>3, <1>5 DEF Cloudflare!DeployGateway, DeploySteps
<1>6. CASE ~Cloudflare!Throw(h) /\ Cloudflare!RollbackControl(h)
  BY <1>2, <1>3, <1>6 DEF Cloudflare!RollbackControl, Cloudflare!At, Cloudflare!Mine,
     DeploySteps
<1>7. CASE ~Cloudflare!Throw(h) /\ Cloudflare!RollbackGateway(h)
  BY <1>2, <1>3, <1>7 DEF Cloudflare!RollbackGateway, Cloudflare!At, Cloudflare!Mine,
     DeploySteps
<1>8. ASSUME ~Cloudflare!Throw(h), cloudflareOp[h].kind = "cleanup",
             NEW w \in {"control", "gateway"}, NEW p \in {"control", "intent"},
             cloudflareOp[h].pc = w, w = "control" <=> p = "intent",
             Cloudflare!Owned(h),
             UNCHANGED <<host, coordination, d1, d1Schema, active, stateFile, foreign>>,
             IF active[w] = Nobody THEN Cloudflare!Goto(h, p)
             ELSE cloudflareOp' = [cloudflareOp EXCEPT ![h] = Cloudflare!Idle]
      PROVE  RunsKept'
  <2>1. CASE active[w] = Nobody
    <3>1. Cloudflare!Goto(h, p) /\ stateFile' = stateFile
      BY <1>8, <2>1
    <3>2. /\ active' = IF cloudflareOp[h].pc = "control"
                        THEN [active EXCEPT !.control = Nobody]
                        ELSE [active EXCEPT !.gateway = Nobody]
      <4>1. CASE w = "control"
        BY <1>8, <2>1, <4>1 DEF RunsKept, AccountType, WorkerPairs
      <4>2. CASE w = "gateway"
        BY <1>8, <2>1, <4>2 DEF RunsKept, AccountType, WorkerPairs
      <4> QED BY <4>1, <4>2
    <3>3. /\ <<cloudflareOp[h].kind, cloudflareOp[h].pc, p>> \in DeploySteps
          /\ p \in RunSteps /\ Nobody \in SomeBuild
      BY <1>3, <1>8 DEF DeploySteps, SomeBuild
    <3> QED BY ONLY RunsKept, h \in Helpers, <1>8, <3>1, <3>2, <3>3, DeployKeeps
  <2>2. CASE active[w] # Nobody
    <3>1. ~Cloudflare!Marks(h)
      BY <1>8 DEF Cloudflare!Marks
    <3>2. d1Schema' \in Nat /\ d1Schema' >= d1Schema /\ active' \in WorkerPairs
      BY <1>8 DEF RunsKept, AccountType
    <3> QED BY <1>8, <2>2, <3>1, <3>2, EndsKeep
  <2> QED BY <2>1, <2>2
<1>9. CASE ~Cloudflare!Throw(h) /\ Cloudflare!DeleteControl(h)
  <2>1. cloudflareOp[h].kind = "cleanup" /\ cloudflareOp[h].pc = "control"
        /\ Cloudflare!DeleteWorker(h, "control", "intent")
    BY <1>9 DEF Cloudflare!DeleteControl, Cloudflare!DeleteWorker, Cloudflare!At
  <2>2. CASE Cloudflare!Command(h, "intent", Cloudflare!Deploys("control", Nobody))
    BY <1>2, <1>3, <1>9, <2>1, <2>2 DEF DeploySteps
  <2>3. CASE ~Cloudflare!Command(h, "intent", Cloudflare!Deploys("control", Nobody))
    <3>1. /\ Cloudflare!Owned(h)
          /\ UNCHANGED <<host, coordination, d1, d1Schema, active, stateFile, foreign>>
          /\ IF active["control"] = Nobody THEN Cloudflare!Goto(h, "intent")
             ELSE cloudflareOp' = [cloudflareOp EXCEPT ![h] = Cloudflare!Idle]
      BY <2>1, <2>3 DEF Cloudflare!DeleteWorker, Cloudflare!Gone, Cloudflare!remote,
         Cloudflare!None, Nobody
    <3> QED BY <1>8, <1>9, <2>1, <3>1
  <2> QED BY <2>2, <2>3
<1>10. CASE ~Cloudflare!Throw(h) /\ Cloudflare!DeleteGateway(h)
  <2>1. cloudflareOp[h].kind = "cleanup" /\ cloudflareOp[h].pc = "gateway"
        /\ Cloudflare!DeleteWorker(h, "gateway", "control")
    BY <1>10 DEF Cloudflare!DeleteGateway, Cloudflare!DeleteWorker, Cloudflare!At
  <2>2. CASE Cloudflare!Command(h, "control", Cloudflare!Deploys("gateway", Nobody))
    BY <1>2, <1>3, <1>10, <2>1, <2>2 DEF DeploySteps
  <2>3. CASE ~Cloudflare!Command(h, "control", Cloudflare!Deploys("gateway", Nobody))
    <3>1. /\ Cloudflare!Owned(h)
          /\ UNCHANGED <<host, coordination, d1, d1Schema, active, stateFile, foreign>>
          /\ IF active["gateway"] = Nobody THEN Cloudflare!Goto(h, "control")
             ELSE cloudflareOp' = [cloudflareOp EXCEPT ![h] = Cloudflare!Idle]
      BY <2>1, <2>3 DEF Cloudflare!DeleteWorker, Cloudflare!Gone, Cloudflare!remote,
         Cloudflare!None, Nobody
    <3> QED BY <1>8, <1>10, <2>1, <3>1
  <2> QED BY <2>2, <2>3
<1> QED BY <1>1, <1>4, <1>5, <1>6, <1>7, <1>9, <1>10

\* Verification resumes and records only what it has found whole.
LEMMA CheckVerifyKeeps ==
  ASSUME RunsKept, NEW h \in Helpers, Cloudflare!CheckVerify(h)
  PROVE  RunsKept'
<1>1. CASE Cloudflare!Throw(h)
  BY <1>1, ThrowKeeps
<1>2. CASE ~Cloudflare!Throw(h)
  <2>1. PICK p \in {"resume", "record"} :
          /\ Cloudflare!Goto(h, p)
          /\ Cloudflare!Owned(h) /\ cloudflareOp[h].kind = "verify"
          /\ active = cloudflareOp[h].mine.versions
          /\ active.control = cloudflareOp[h].mine.build
          /\ UNCHANGED <<host, coordination, d1, d1Schema, active, stateFile, foreign>>
    BY <1>2 DEF Cloudflare!CheckVerify, Cloudflare!At, Cloudflare!ActiveVersions,
       Cloudflare!Mine, Cloudflare!remote
  <2>2. /\ cloudflareOp[h] \in Runs /\ Began(cloudflareOp[h])
        /\ FileSound(cloudflareOp[h].mine)
    BY <2>1, OwnerKnows
  <2>3. Serves(cloudflareOp[h].mine.build)
    <3>1. active \in WorkerPairs
      BY DEF RunsKept, AccountType
    <3>2. foreign \/ active.gateway = cloudflareOp[h].mine.build
      BY <2>1, <2>2 DEF FileSound
    <3> QED BY <2>1, <3>1, <3>2 DEF Serves, Cloudflare!Both, WorkerPairs
  <2>4. \A o \in Runs :
          /\ o.pc = p /\ o.kind = cloudflareOp[h].kind
          /\ o.target = cloudflareOp[h].target
          /\ o.mine = cloudflareOp[h].mine /\ o.recover = cloudflareOp[h].recover
          => Began(o) /\ Works(h, o)'
    BY <2>1, <2>2, <2>3 DEF Began, Works, Serves
  <2>5. d1Schema' \in Nat /\ d1Schema' >= d1Schema /\ active' \in WorkerPairs
        /\ p \in RunSteps
    BY <2>1 DEF RunsKept, AccountType, RunSteps
  <2> QED BY <2>1, <2>4, <2>5, CommandKeeps
<1> QED BY <1>1, <1>2

\* Before there is a row an adoption only looks, pauses and exports.
LEMMA AdoptKeeps ==
  ASSUME RunsKept, NEW h \in Helpers,
         Cloudflare!CheckAdopt(h) \/ Cloudflare!PauseAdopt(h) \/ Cloudflare!ExportAdopt(h)
  PROVE  RunsKept'
<1>1. CASE Cloudflare!Throw(h)
  BY <1>1, ThrowKeeps
<1>2. CASE ~Cloudflare!Throw(h)
  <2>1. cloudflareOp[h] \in Runs /\ ProcessSound(h, cloudflareOp[h])
    BY RunOf
  <2>2. PICK p \in {"pause", "export", "initialize"} :
          /\ Cloudflare!Goto(h, p) /\ cloudflareOp[h].kind = "adopt"
          /\ UNCHANGED <<host, coordination, d1, d1Schema, active, stateFile, foreign>>
          /\ \/ cloudflareOp[h].pc \in {"pause", "export"}
             \/ /\ cloudflareOp[h].pc = "check"
                /\ active = cloudflareOp[h].mine.versions
                /\ active.control = cloudflareOp[h].mine.build
    <3>1. CASE Cloudflare!CheckAdopt(h)
      BY <1>2, <3>1 DEF Cloudflare!CheckAdopt, Cloudflare!At, Cloudflare!Mine,
         Cloudflare!ActiveVersions, Cloudflare!remote
    <3>2. CASE Cloudflare!PauseAdopt(h)
      BY <1>2, <3>2 DEF Cloudflare!PauseAdopt, Cloudflare!At, Cloudflare!Pauses
    <3>3. CASE Cloudflare!ExportAdopt(h)
      BY <1>2, <3>3 DEF Cloudflare!ExportAdopt, Cloudflare!At, Cloudflare!Exports
    <3> QED BY <3>1, <3>2, <3>3
  <2>3. PICK o : o = [cloudflareOp[h] EXCEPT !.pc = p]
    OBVIOUS
  <2>4. /\ o \in Runs /\ o.pc = p /\ o.kind = cloudflareOp[h].kind
        /\ o.target = cloudflareOp[h].target
        /\ o.mine = cloudflareOp[h].mine /\ o.recover = cloudflareOp[h].recover
    <3>1. p \in RunSteps
      BY DEF RunSteps
    <3> QED BY ONLY <2>1, <2>3, <3>1 DEF Runs
  <2>5. cloudflareOp' = [cloudflareOp EXCEPT ![h] = o]
    BY <2>2, <2>3, RunOf DEF Cloudflare!Goto
  <2>6. cloudflareOp[h].pc = "check" => Serves(o.mine.build)
    <3>1. active \in WorkerPairs
      BY DEF RunsKept, AccountType
    <3>2. cloudflareOp[h].pc = "check" => foreign \/ active.gateway = o.mine.build
      BY <2>1, <2>2, <2>4 DEF ProcessSound, FileSound
    <3> QED BY <2>2, <2>4, <3>1, <3>2 DEF Serves, Cloudflare!Both, WorkerPairs
  <2>7. ProcessSound(h, o)
    <3>1. Adopts(h, o)
      <4>1. CASE cloudflareOp[h].pc = "check"
        BY <2>1, <2>2, <2>4, <2>6, <4>1 DEF ProcessSound, Adopts
      <4>2. CASE cloudflareOp[h].pc \in {"pause", "export"}
        BY <2>1, <2>2, <2>4, <4>2 DEF ProcessSound, Adopts
      <4> QED BY <2>2, <4>1, <4>2
    <3>2. Began(o)
      BY <2>1, <2>2, <2>4 DEF ProcessSound, Began
    <3>3. Works(h, o)
      BY <2>2, <2>4 DEF Works
    <3> QED BY <2>1, <2>4, <3>1, <3>2, <3>3 DEF ProcessSound
  <2> QED BY <2>2, <2>4, <2>5, <2>7, RunOnly
<1> QED BY <1>1, <1>2

\* A new database has a new identity; no checkpoint names it yet.
LEMMA CreateDatabaseKeeps ==
  ASSUME RunsKept, NEW h \in Helpers, Cloudflare!CreateDatabase(h)
  PROVE  RunsKept'
<1>1. CASE Cloudflare!Throw(h)
  BY <1>1, ThrowKeeps
<1>2. CASE ~Cloudflare!Throw(h)
  <2>1. cloudflareOp[h] \in Runs /\ ProcessSound(h, cloudflareOp[h]) /\ host[h] \in Machines
    BY RunOf
  <2>2. PICK z \in Checkpoints : z = Cloudflare!NoState
    BY IdleRun
  <2>3. PICK n \in Nat : n = d1.id + 1
    BY DEF RunsKept, AccountType
  <2>4. PICK t : t = cloudflareOp[h].target
    OBVIOUS
  <2>5. PICK s : s = [z EXCEPT !.status = "provisioning", !.build = t, !.db = n]
    OBVIOUS
  <2>6. /\ cloudflareOp[h].kind = "install" /\ cloudflareOp[h].pc = "create"
        /\ ~d1.live /\ d1' = [id |-> n, live |-> TRUE]
        /\ Cloudflare!Write(h, s, "initialize")
        /\ UNCHANGED <<host, coordination, d1Schema, active, foreign>>
    BY <1>2, <2>2, <2>3, <2>4, <2>5 DEF Cloudflare!CreateDatabase, Cloudflare!At
  <2>7. t \in SomeBuild
    BY <2>1, <2>4 DEF Runs
  <2>8. /\ s \in Checkpoints /\ s.status = "provisioning" /\ s.db = n
        /\ s.versions = z.versions /\ s.previous = z.previous
    BY ONLY <2>2, <2>3, <2>5, <2>7 DEF Checkpoints
  <2>9. PICK o : o = [cloudflareOp[h] EXCEPT !.mine = s, !.pc = "initialize"]
    OBVIOUS
  <2>10. /\ o \in Runs /\ o.pc = "initialize" /\ o.kind = cloudflareOp[h].kind
         /\ o.mine = s /\ o.target = cloudflareOp[h].target
         /\ o.recover = cloudflareOp[h].recover
    BY ONLY <2>1, <2>8, <2>9 DEF Runs, RunSteps
  <2>11. /\ cloudflareOp' = [cloudflareOp EXCEPT ![h] = o]
         /\ stateFile' = [stateFile EXCEPT ![host[h]] = s]
    BY <2>6, <2>9 DEF Cloudflare!Write, RunsKept, RunType
  <2>12. AccountType'
    BY <2>1, <2>6, <2>8, <2>11 DEF RunsKept, AccountType
  <2>13. /\ d1'.id = d1.id + 1 /\ d1.id \in Nat /\ d1'.id = n /\ d1'.live
         /\ coordination.is = "absent" /\ coordination.owner = Nobody
         /\ d1'.id >= d1.id
    BY <2>3, <2>6 DEF RunsKept, AccountType, AccountSound
  <2>14. FileSound(s)'
    BY <2>2, <2>8, <2>13, IdleRun DEF FileSound, Settled
  <2>15. AccountSound'
    <3>1. ASSUME NEW f \in Checkpoints, NEW m \in Machines, stateFile'[m] = f
          PROVE  FileSound(f)'
      <4>1. CASE m = host[h]
        BY <2>11, <2>14, <3>1, <4>1 DEF RunsKept, AccountType
      <4>2. CASE m # host[h]
        <5>1. f = stateFile[m] /\ FileSound(f)
          BY <2>11, <3>1, <4>2 DEF RunsKept, AccountType, AccountSound
        <5> QED BY <2>6, <2>12, <2>13, <5>1, FileLasts
      <4> QED BY <4>1, <4>2
    <3> QED BY <2>6, <2>13, <3>1 DEF AccountSound, Cloudflare!FreeMeansWhole,
              Cloudflare!NoDeadEnd, Cloudflare!Uncoordinated,
              Cloudflare!DatabaseOutlivesWorkers
  <2>16. ProcessSound(h, o)'
    <3>1. Began(o)'
      BY <2>1, <2>6, <2>10 DEF ProcessSound, Began
    <3>2. h # Nobody
      BY AdministrationAssumption DEF Nobody
    <3> QED BY <2>6, <2>10, <2>13, <2>14, <3>1, <3>2 DEF ProcessSound, Works, Adopts
  <2>17. Apart(h)
    BY <2>3, <2>6 DEF Apart
  <2> QED BY <2>6, <2>10, <2>11, <2>12, <2>15, <2>16, <2>17, RunStep
<1> QED BY <1>1, <1>2

\* A Worker deployed without the helper voids what the helper knew, and the
\* history variable says so.
LEMMA OutOfBandKeeps ==
  ASSUME RunsKept, NEW w \in {"control", "gateway"}, NEW b \in Builds,
         Cloudflare!OutOfBand(w, b)
  PROVE  RunsKept'
<1>1. /\ foreign' = TRUE /\ active' = [active EXCEPT ![w] = b]
      /\ UNCHANGED <<host, coordination, d1, d1Schema, stateFile, cloudflareOp>>
  BY DEF Cloudflare!OutOfBand
<1>2. active' \in WorkerPairs
  <2>1. active \in WorkerPairs /\ b \in SomeBuild
    BY DEF RunsKept, AccountType, SomeBuild
  <2> QED BY <1>1, <2>1 DEF WorkerPairs
<1>3. AccountType' /\ RunType' /\ OneCreates'
  BY <1>1, <1>2 DEF RunsKept, AccountType, RunType, OneCreates
<1>4. AccountSound'
  BY <1>1 DEF RunsKept, AccountSound, FileSound, Cloudflare!FreeMeansWhole,
     Cloudflare!NoDeadEnd, Cloudflare!DatabaseOutlivesWorkers, Cloudflare!Uncoordinated
<1>5. ProcessesSound'
  BY <1>1 DEF RunsKept, ProcessesSound, ProcessSound, Began, FileSound, Works, Adopts, Serves
<1> QED BY <1>3, <1>4, <1>5 DEF RunsKept

LEMMA RunsStutter ==
  ASSUME RunsKept,
         UNCHANGED <<host, coordination, d1, d1Schema, active, stateFile, cloudflareOp,
                     foreign>>
  PROVE  RunsKept'
BY DEF RunsKept, AccountType, RunType, AccountSound, FileSound, ProcessesSound, ProcessSound,
   Began, Works, Adopts, Serves, OneCreates, Cloudflare!FreeMeansWhole,
   Cloudflare!NoDeadEnd, Cloudflare!DatabaseOutlivesWorkers, Cloudflare!Uncoordinated

LEMMA RunsNextKeeps ==
  ASSUME RunsKept, Cloudflare!Next
  PROVE  RunsKept'
<1>1. ASSUME NEW h \in Helpers,
             \/ \E b \in Builds, k \in {"install", "apply"} :
                  Cloudflare!Begin(h, k, b, FALSE)
             \/ Cloudflare!Begin(h, "adopt", Cloudflare!None, FALSE)
             \/ \E k \in Cloudflare!Kinds, r \in BOOLEAN :
                  Cloudflare!Begin(h, k, Cloudflare!None, r)
      PROVE  RunsKept'
  <2>1. Builds \subseteq SomeBuild /\ Cloudflare!None \in SomeBuild
    BY DEF SomeBuild, Cloudflare!None, Nobody
  <2> QED BY <1>1, <2>1, BeginRunKeeps DEF Cloudflare!Kinds
<1>2. ASSUME NEW h \in Helpers,
             \/ Cloudflare!Guarded(h) \/ Cloudflare!CreateDatabase(h)
             \/ Cloudflare!CreateTable(h) \/ Cloudflare!InsertRow(h)
             \/ Cloudflare!AcquireFirst(h) \/ Cloudflare!Complete(h)
             \/ Cloudflare!Apply(h) \/ Cloudflare!Verify(h) \/ Cloudflare!Rollback(h)
             \/ Cloudflare!Cleanup(h) \/ Cloudflare!Adopt(h) \/ Cloudflare!Crash(h)
      PROVE  RunsKept'
  <2>1. CASE Cloudflare!Apply(h)
    BY <2>1, CheckUpdateKeeps, PausesKeep, RecordBackupKeeps, RewritesKeep, MigrateKeeps,
       DeploysKeep, FinishDeployKeeps DEF Cloudflare!Apply
  <2>2. CASE Cloudflare!Verify(h)
    BY <2>2, CheckVerifyKeeps, PausesKeep, RecordVerifyKeeps DEF Cloudflare!Verify
  <2>3. CASE Cloudflare!Rollback(h)
    BY <2>3, PausesKeep, DeploysKeep, RecordRollbackKeeps DEF Cloudflare!Rollback
  <2>4. CASE Cloudflare!Cleanup(h)
    BY <2>4, DeploysKeep, RecordCleanupKeeps, DeleteDatabaseKeeps DEF Cloudflare!Cleanup
  <2>5. CASE Cloudflare!Adopt(h)
    BY <2>5, AdoptKeeps, RewritesKeep DEF Cloudflare!Adopt
  <2> QED BY <1>2, <2>1, <2>2, <2>3, <2>4, <2>5, GuardedKeeps, CreateDatabaseKeeps,
         CreateTableKeeps, InsertRowKeeps, CompleteKeeps, CrashKeeps
<1>3. CASE \E w \in {"control", "gateway"}, b \in Builds : Cloudflare!OutOfBand(w, b)
  BY <1>3, OutOfBandKeeps
<1>4. CASE Cloudflare!Administer
  BY <1>4, RunsStutter DEF Cloudflare!Administer
<1> QED BY <1>1, <1>2, <1>3, <1>4 DEF Cloudflare!Next

\* The checkpoint of a deployment that was there before
LEMMA DeployedFile ==
  ASSUME NEW b \in Builds
  PROVE  /\ Cloudflare!Deployed(b) \in Checkpoints
         /\ Cloudflare!Deployed(b).status = "verified"
         /\ Cloudflare!Deployed(b).build = b
         /\ Cloudflare!Deployed(b).db = 1
         /\ Cloudflare!Deployed(b).versions = Cloudflare!Both(b)
         /\ Cloudflare!Deployed(b).previous = Cloudflare!NoPrevious
<1>1. PICK z \in Checkpoints : z = Cloudflare!NoState
                               /\ z.previous = Cloudflare!NoPrevious
  BY IdleRun
<1>2. PICK v \in WorkerPairs : v = Cloudflare!Both(b)
  BY DEF Cloudflare!Both, WorkerPairs, SomeBuild
<1>3. PICK f : f = [z EXCEPT !.status = "verified", !.build = b, !.db = 1,
                             !.versions = v]
  OBVIOUS
<1>4. f = Cloudflare!Deployed(b)
  BY <1>1, <1>2, <1>3 DEF Cloudflare!Deployed
<1>5. b \in SomeBuild
  BY DEF SomeBuild
<1>6. f \in Checkpoints /\ f.status = "verified" /\ f.build = b /\ f.db = 1
      /\ f.versions = v /\ f.previous = z.previous
  BY ONLY <1>1, <1>2, <1>3, <1>5 DEF Checkpoints, Settled
<1> QED BY <1>1, <1>2, <1>4, <1>6

LEMMA RunsStart == subject = "cloudflare" /\ Cloudflare!Init => RunsKept
<1> SUFFICES ASSUME Cloudflare!Init
             PROVE  RunsKept
  OBVIOUS
<1>1. PICK n \in SomeBuild : n = Nobody /\ n = Cloudflare!None
  BY DEF SomeBuild, Nobody, Cloudflare!None
<1>2. \A b \in SomeBuild : Cloudflare!Both(b) \in WorkerPairs
        /\ Cloudflare!Both(b).control = Cloudflare!Both(b).gateway
  BY DEF Cloudflare!Both, WorkerPairs
<1>3. \A b \in Builds : /\ Cloudflare!Deployed(b) \in Checkpoints
                        /\ Cloudflare!Deployed(b).status = "verified"
                        /\ Cloudflare!Deployed(b).build = b
                        /\ Cloudflare!Deployed(b).db = 1
                        /\ Cloudflare!Deployed(b).versions = Cloudflare!Both(b)
                        /\ Cloudflare!Deployed(b).previous = Cloudflare!NoPrevious
  BY DeployedFile
<1>4. /\ host \in [Helpers -> Machines]
      /\ cloudflareOp = [h \in Helpers |-> Cloudflare!Idle]
      /\ foreign = FALSE
  BY DEF Cloudflare!Init
<1>5. CASE /\ d1 = [id |-> 0, live |-> FALSE] /\ d1Schema = 0
           /\ active = Cloudflare!Both(Cloudflare!None)
           /\ coordination = Cloudflare!NoRow
           /\ stateFile = [m \in Machines |-> Cloudflare!NoState]
  <2>1. coordination = [is |-> "absent", owner |-> Nobody, build |-> Nobody,
                        revision |-> 0]
    <3>1. 0 \in Int
      OBVIOUS
    <3> QED BY <1>1, <1>5, <3>1, Rows
  <2>2. AccountType
    BY <1>1, <1>2, <1>4, <1>5, <2>1, IdleRun DEF AccountType
  <2>3. AccountSound
    BY <1>5, <2>1, IdleRun DEF AccountSound, FileSound, Settled,
       Cloudflare!FreeMeansWhole, Cloudflare!NoDeadEnd, Cloudflare!Uncoordinated,
       Cloudflare!DatabaseOutlivesWorkers
  <2>4. ProcessesSound /\ RunType /\ OneCreates
    BY <1>4, <1>5, <2>1, IdleRun DEF ProcessesSound, RunType, OneCreates, ProcessSound, Began,
       FileSound, Works, Adopts, Settled
  <2> QED BY <2>2, <2>3, <2>4 DEF RunsKept
<1>6. ASSUME NEW b \in Builds,
             d1 = [id |-> 1, live |-> TRUE], d1Schema = Schema[b],
             active = Cloudflare!Both(b),
             coordination \in {Cloudflare!NoRow, Cloudflare!Free(b)},
             stateFile = [m \in Machines |-> Cloudflare!Deployed(b)]
      PROVE  RunsKept
  <2>1. /\ coordination.owner = Nobody /\ b \in SomeBuild
        /\ coordination = [is |-> "absent", owner |-> Nobody, build |-> Nobody,
                           revision |-> 0]
           \/ coordination = [is |-> "present", owner |-> Nobody, build |-> b,
                              revision |-> 0]
    <3>1. 0 \in Int /\ b \in SomeBuild
      BY DEF SomeBuild
    <3>2. /\ Cloudflare!NoRow = [is |-> "absent", owner |-> Nobody, build |-> Nobody,
                                  revision |-> 0]
          /\ Cloudflare!Free(b) = [is |-> "present", owner |-> Nobody, build |-> b,
                                   revision |-> 0]
      BY <3>1, Rows
    <3>3. PICK r : r = coordination
      OBVIOUS
    <3>4. r = [is |-> "absent", owner |-> Nobody, build |-> Nobody, revision |-> 0]
          \/ r = [is |-> "present", owner |-> Nobody, build |-> b, revision |-> 0]
      BY <1>6, <3>2, <3>3
    <3> QED BY <3>1, <3>3, <3>4
  <2>2. Schema[b] \in Nat
    BY AdministrationAssumption
  <2>3. AccountType
    BY <1>1, <1>2, <1>3, <1>4, <1>6, <2>1, <2>2 DEF AccountType
  <2>4. \A s \in Checkpoints, m \in Machines : stateFile[m] = s => FileSound(s)
    BY <1>2, <1>3, <1>6, <2>1, <2>2 DEF FileSound
  <2>5. AccountSound
    <3>1. Cloudflare!FreeMeansWhole
      BY <1>6, <2>1, <2>2 DEF Cloudflare!FreeMeansWhole, Cloudflare!Uncoordinated
    <3>2. Cloudflare!NoDeadEnd
      BY <1>3, <1>6, <2>1, AdministrationAssumption DEF Cloudflare!NoDeadEnd,
         Cloudflare!Uncoordinated
    <3>3. Cloudflare!DatabaseOutlivesWorkers
      BY <1>6 DEF Cloudflare!DatabaseOutlivesWorkers
    <3> QED BY <1>6, <2>1, <2>4, <3>1, <3>2, <3>3 DEF AccountSound
  <2>6. ProcessesSound /\ RunType /\ OneCreates
    BY <1>4, <1>6, <2>1, IdleRun DEF ProcessesSound, RunType, OneCreates, ProcessSound, Began,
       FileSound, Works, Adopts, Settled
  <2> QED BY <2>3, <2>5, <2>6 DEF RunsKept
<1> QED BY <1>5, <1>6 DEF Cloudflare!Init

LEMMA RunsInvariant == AdministrationSpec => []RunsInv
<1>1. AdministrationInit => RunsInv
  <2>1. AdministrationInit /\ subject = "cloudflare" => Cloudflare!Init
    BY DEF AdministrationInit, ConfigurationsInit
  <2> QED BY <2>1, RunsStart DEF RunsInv
<1>2. RunsInv /\ [AdministrationNext]_administrationVars => RunsInv'
  <2> SUFFICES ASSUME RunsInv, [AdministrationNext]_administrationVars,
                      subject' = "cloudflare"
               PROVE  RunsKept'
    BY DEF RunsInv
  <2>1. subject = "cloudflare" /\ (Cloudflare!Next \/ UNCHANGED cloudflareVars)
    BY DEF AdministrationNext, administrationVars, ConfigurationsNext, NodeNext,
           CloudflareNext, SupabaseNext, ConsoleNext
  <2>2. RunsKept
    BY <2>1 DEF RunsInv
  <2> QED BY <2>1, <2>2, RunsNextKeeps, RunsStutter DEF cloudflareVars
<1> QED BY <1>1, <1>2, PTL DEF AdministrationSpec

(* Cloudflare: whoever failed, was killed or lost a race, a free row names  *)
(* the build that both Workers run, on a schema that suffices for it.       *)
THEOREM FreeMeansWholeHolds == AdministrationSpec => []FreeMeansWhole
<1>1. RunsInv => FreeMeansWhole
  BY DEF RunsInv, RunsKept, AccountSound, FreeMeansWhole
<1> QED BY <1>1, RunsInvariant, PTL

(* Cloudflare: with a free row goes a checkpoint, of the same build and the *)
(* same database, that verify and apply accept.                             *)
THEOREM NoDeadEndHolds == AdministrationSpec => []NoDeadEnd
<1>1. RunsInv => NoDeadEnd
  BY DEF RunsInv, RunsKept, AccountSound, NoDeadEnd
<1> QED BY <1>1, RunsInvariant, PTL

(* Cloudflare: cleanup deletes the database, and the lock in it, only after *)
(* it has seen both Workers gone.                                           *)
THEOREM DatabaseOutlivesWorkersHolds == AdministrationSpec => []DatabaseOutlivesWorkers
<1>1. RunsInv => DatabaseOutlivesWorkers
  BY DEF RunsInv, RunsKept, AccountSound, DatabaseOutlivesWorkers
<1> QED BY <1>1, RunsInvariant, PTL

\* Nobody writes the operation of another process.
LEMMA OwnRun ==
  ASSUME RunsKept, NEW h \in Helpers, NEW g \in Helpers, g # h,
         \/ \E k, t, r : Cloudflare!Begin(g, k, t, r)
         \/ Cloudflare!Guarded(g) \/ Cloudflare!CreateDatabase(g)
         \/ Cloudflare!CreateTable(g) \/ Cloudflare!InsertRow(g)
         \/ Cloudflare!AcquireFirst(g) \/ Cloudflare!Complete(g)
         \/ Cloudflare!Apply(g) \/ Cloudflare!Verify(g) \/ Cloudflare!Rollback(g)
         \/ Cloudflare!Cleanup(g) \/ Cloudflare!Adopt(g) \/ Cloudflare!Crash(g)
  PROVE  cloudflareOp'[h] = cloudflareOp[h]
<1>1. cloudflareOp \in [Helpers -> Runs]
  BY DEF RunsKept, RunType
<1>2. SUFFICES \E o : cloudflareOp' = [cloudflareOp EXCEPT ![g] = o]
  BY <1>1
<1>3. \A p : Cloudflare!Goto(g, p) => \E o : cloudflareOp' = [cloudflareOp EXCEPT ![g] = o]
  BY <1>1 DEF Cloudflare!Goto
<1>4. Cloudflare!Throw(g) => \E o : cloudflareOp' = [cloudflareOp EXCEPT ![g] = o]
  BY DEF Cloudflare!Throw
<1>5. \A s, p : Cloudflare!Write(g, s, p) =>
        \E o : cloudflareOp' = [cloudflareOp EXCEPT ![g] = o]
  BY <1>1 DEF Cloudflare!Write
<1>6. CASE \/ \E k, t, r : Cloudflare!Begin(g, k, t, r)
           \/ Cloudflare!Complete(g) \/ Cloudflare!Crash(g)
  BY <1>4, <1>6 DEF Cloudflare!Begin, Cloudflare!Complete, Cloudflare!Crash
<1>7. CASE Cloudflare!Guarded(g) \/ Cloudflare!AcquireFirst(g)
  <2>1. \A next : Cloudflare!Acquire(g, next) =>
          \E o : cloudflareOp' = [cloudflareOp EXCEPT ![g] = o]
    BY <1>1, <1>4 DEF Cloudflare!Acquire
  <2> QED BY <1>7, <2>1 DEF Cloudflare!Guarded, Cloudflare!AcquireFirst
<1>8. CASE Cloudflare!CreateDatabase(g) \/ Cloudflare!CreateTable(g)
           \/ Cloudflare!InsertRow(g)
  BY <1>3, <1>4, <1>5, <1>8 DEF Cloudflare!CreateDatabase, Cloudflare!CreateTable,
     Cloudflare!InsertRow
<1>9. CASE Cloudflare!Apply(g)
  BY <1>3, <1>4, <1>5, <1>9 DEF Cloudflare!Apply, Cloudflare!CheckUpdate,
     Cloudflare!PauseUpdate, Cloudflare!BackupUpdate, Cloudflare!RecordBackup,
     Cloudflare!RecheckUpdate, Cloudflare!Migrate, Cloudflare!DeployControl,
     Cloudflare!DeployGateway, Cloudflare!FinishDeploy, Cloudflare!Command,
     Cloudflare!Checkpoint
<1>10. CASE Cloudflare!Verify(g)
  BY <1>3, <1>4, <1>5, <1>10 DEF Cloudflare!Verify, Cloudflare!CheckVerify,
     Cloudflare!Resume, Cloudflare!RecordVerify, Cloudflare!Command,
     Cloudflare!Checkpoint
<1>11. CASE Cloudflare!Rollback(g)
  BY <1>3, <1>4, <1>5, <1>11 DEF Cloudflare!Rollback, Cloudflare!PauseRollback,
     Cloudflare!RollbackGateway, Cloudflare!RollbackControl,
     Cloudflare!RecordRollback, Cloudflare!Command, Cloudflare!Checkpoint
<1>12. CASE Cloudflare!Cleanup(g)
  BY <1>3, <1>4, <1>5, <1>12 DEF Cloudflare!Cleanup, Cloudflare!DeleteGateway,
     Cloudflare!DeleteControl, Cloudflare!DeleteWorker, Cloudflare!RecordCleanup,
     Cloudflare!DeleteDatabase, Cloudflare!Command, Cloudflare!Checkpoint
<1>13. CASE Cloudflare!Adopt(g)
  BY <1>3, <1>4, <1>5, <1>13 DEF Cloudflare!Adopt, Cloudflare!CheckAdopt,
     Cloudflare!PauseAdopt, Cloudflare!ExportAdopt, Cloudflare!RecordAdopt,
     Cloudflare!Checkpoint
<1> QED BY <1>6, <1>7, <1>8, <1>9, <1>10, <1>11, <1>12, <1>13

(* Cloudflare: between the check and the request that resumes traffic the   *)
(* Workers may only be changed behind the helper's back, whoever else runs  *)
(* and whatever was recovered in the meantime.                              *)
THEOREM ResumesWholeHolds == AdministrationSpec => ResumesWhole
<1>1. ASSUME RunsInv, [AdministrationNext]_administrationVars
      PROVE  [subject = "cloudflare" => Cloudflare!ResumesWhole]_cloudflareVars
  <2> SUFFICES ASSUME subject = "cloudflare", ~UNCHANGED cloudflareVars, NEW h \in Helpers,
                      Cloudflare!At(h, "verify", "resume"),
                      cloudflareOp'[h].pc = "record"
               PROVE  Serves(cloudflareOp[h].mine.build)
    BY DEF Cloudflare!ResumesWhole, Serves, Cloudflare!Mine
  <2>1. Cloudflare!Next /\ RunsKept
    BY <1>1 DEF AdministrationNext, administrationVars, ConfigurationsNext, NodeNext,
                CloudflareNext, SupabaseNext, ConsoleNext, RunsInv
  <2>2. /\ cloudflareOp[h] \in Runs /\ cloudflareOp[h].pc = "resume"
        /\ cloudflareOp[h].kind = "verify" /\ cloudflareOp \in [Helpers -> Runs]
    BY <2>1, RunOf DEF Cloudflare!At, RunsKept, RunType
  <2>3. cloudflareOp' # cloudflareOp
    BY <2>2
  <2>4. ~Cloudflare!Throw(h) /\ ~Cloudflare!Crash(h)
    BY <2>2, IdleRun DEF Cloudflare!Throw, Cloudflare!Crash
  <2>5. \/ \E k, t, r : Cloudflare!Begin(h, k, t, r)
        \/ Cloudflare!Guarded(h) \/ Cloudflare!CreateDatabase(h)
        \/ Cloudflare!CreateTable(h) \/ Cloudflare!InsertRow(h)
        \/ Cloudflare!AcquireFirst(h) \/ Cloudflare!Complete(h)
        \/ Cloudflare!Apply(h) \/ Cloudflare!Verify(h) \/ Cloudflare!Rollback(h)
        \/ Cloudflare!Cleanup(h) \/ Cloudflare!Adopt(h) \/ Cloudflare!Crash(h)
    <3>1. ~Cloudflare!Administer
          /\ \A w \in {"control", "gateway"}, b \in Builds : ~Cloudflare!OutOfBand(w, b)
      BY <2>3 DEF Cloudflare!Administer, Cloudflare!OutOfBand
    <3>2. PICK g \in Helpers :
            \/ \E k, t, r : Cloudflare!Begin(g, k, t, r)
            \/ Cloudflare!Guarded(g) \/ Cloudflare!CreateDatabase(g)
            \/ Cloudflare!CreateTable(g) \/ Cloudflare!InsertRow(g)
            \/ Cloudflare!AcquireFirst(g) \/ Cloudflare!Complete(g)
            \/ Cloudflare!Apply(g) \/ Cloudflare!Verify(g) \/ Cloudflare!Rollback(g)
            \/ Cloudflare!Cleanup(g) \/ Cloudflare!Adopt(g) \/ Cloudflare!Crash(g)
      BY <2>1, <3>1 DEF Cloudflare!Next
    <3>3. g = h
      BY <2>1, <2>2, <3>2, OwnRun
    <3> QED BY <3>2, <3>3
  <2>6. Cloudflare!Resume(h)
    BY <2>2, <2>4, <2>5 DEF Cloudflare!At, Cloudflare!Begin, Cloudflare!Guarded,
       Cloudflare!CreateDatabase, Cloudflare!CreateTable, Cloudflare!InsertRow,
       Cloudflare!AcquireFirst, Cloudflare!Complete, Cloudflare!Apply,
       Cloudflare!CheckUpdate, Cloudflare!PauseUpdate, Cloudflare!BackupUpdate,
       Cloudflare!RecordBackup, Cloudflare!RecheckUpdate, Cloudflare!Migrate,
       Cloudflare!DeployControl, Cloudflare!DeployGateway, Cloudflare!FinishDeploy,
       Cloudflare!Verify, Cloudflare!CheckVerify, Cloudflare!RecordVerify,
       Cloudflare!Rollback, Cloudflare!PauseRollback, Cloudflare!RollbackGateway,
       Cloudflare!RollbackControl, Cloudflare!RecordRollback, Cloudflare!Cleanup,
       Cloudflare!DeleteGateway, Cloudflare!DeleteControl, Cloudflare!DeleteWorker,
       Cloudflare!RecordCleanup, Cloudflare!DeleteDatabase, Cloudflare!Adopt,
       Cloudflare!CheckAdopt, Cloudflare!PauseAdopt, Cloudflare!ExportAdopt,
       Cloudflare!RecordAdopt
  <2>7. Cloudflare!Owned(h)
    BY <2>4, <2>6 DEF Cloudflare!Resume, Cloudflare!Command
  <2> QED BY <2>1, <2>2, <2>7, OwnerKnows DEF Works
<1> QED BY <1>1, RunsInvariant, PTL DEF AdministrationSpec, ResumesWhole

(* No helper replaces or resumes what it has not checked, although another  *)
(* operator may be at work, on any of the three platforms.                  *)
THEOREM ActsOnWhatItCheckedHolds == AdministrationSpec => ActsOnWhatItChecked
BY ReplacesExpectedHolds, ResumesActiveBuildHolds, ResumesWholeHolds,
   CompletedIsWholeHolds, StartsFromListedHolds DEF ActsOnWhatItChecked

-----------------------------------------------------------------------------
(* The way back from two builds.  A checkpoint is read before the row is    *)
(* taken, so it may be out of date when it is used.  As long as no build is *)
(* deployed twice every build has one predecessor, and every checkpoint of  *)
(* a build names that predecessor or the build itself as the one to return  *)
(* to: then the checkpoint that another machine keeps of the same build     *)
(* will do as well.  A recovered operation has read its own since the last  *)
(* write, because no helper was running.                                    *)

Pasts == [builds : SUBSET Builds, reused : BOOLEAN]

Lineages == [Builds -> SomeBuild]

\* p gives the predecessor of each build.
Descends(p, s) ==
  s.db = d1.id =>
    /\ s.previous # Cloudflare!NoPrevious =>
         /\ s.previous \in d1Backups
         /\ s.previous.build \in past.builds /\ s.build \in past.builds
         /\ s.previous.build \in {p[s.build], s.build}
    /\ s.status \in Settled =>
         /\ s.build \in past.builds
         /\ s.previous = Cloudflare!NoPrevious => p[s.build] = Nobody

\* Workers of builds c and g can be brought together again.
HasWay(c, g) ==
  \/ c = g \/ c = Nobody \/ g = Nobody
  \/ \E m \in Machines :
       /\ stateFile[m].db = d1.id
       /\ stateFile[m].previous.build \in {c, g}
       /\ stateFile[m].previous \in d1Backups

MixedIsRepairable ==
  coordination.is = "present" /\ coordination.build # Nobody =>
    HasWay(active.control, active.gateway)

\* What the owner of the row knows of the build it replaces
Knows(p, h, o) ==
  coordination.owner = h =>
    /\ o.kind = "install" /\ o.pc \in {"migrate", "control", "gateway", "finish"} =>
         coordination.build = Nobody
    /\ o.kind \in {"install", "apply"} /\ o.pc \in {"gateway", "finish"} =>
         o.target \in past.builds /\ p[o.target] = o.mine.previous.build
    /\ o.kind = "apply"
       /\ o.pc \in {"pause", "backup", "recorded", "recheck", "migrate", "control"} =>
         active = Cloudflare!Both(o.mine.build) /\ o.mine.build \in past.builds
    /\ o.kind = "apply" /\ o.pc = "recorded" =>
         [build |-> o.mine.build, schema |-> d1Schema] \in d1Backups
    /\ o.kind = "apply"
       /\ o.pc \in {"recheck", "migrate", "control", "gateway", "finish"} =>
         /\ stateFile[host[h]] = o.mine /\ o.mine.db = d1.id
         /\ o.mine.previous.build = o.mine.build /\ o.mine.previous \in d1Backups
    /\ o.kind = "rollback" /\ o.pc \in {"pause", "gateway"} =>
         HasWay(active.control, o.mine.previous.build)
    /\ o.kind = "rollback" /\ o.pc \in {"control", "record"} =>
         active.gateway = o.mine.previous.build

Lineage(p) ==
  /\ \A s \in Checkpoints, m \in Machines : stateFile[m] = s => Descends(p, s)
  /\ \A h \in Helpers, o \in Runs :
       cloudflareOp[h] = o => Descends(p, o.mine) /\ Knows(p, h, o)

HoldsRow(h) ==
  coordination.owner = h /\ coordination.revision = cloudflareOp[h].revision

\* Whoever recovers the lock it names has the checkpoint of its machine as it
\* is, and nobody is at work.
RecoversFresh(h, o) ==
  o.recover # Cloudflare!NoLock =>
    /\ o.recover.owner # Nobody
    /\ o.pc = "acquire" /\ o.mine.db = d1.id /\ d1.live =>
         /\ coordination.is = "present"
         /\ o.recover.revision <= coordination.revision
         /\ o.recover = Cloudflare!TheLock =>
              stateFile[host[h]] = o.mine /\ \A g \in Helpers : ~HoldsRow(g)

RecoveriesFresh ==
  /\ coordination.revision >= 0
  /\ \A h \in Helpers, o \in Runs :
       cloudflareOp[h] = o =>
         RecoversFresh(h, o) /\ (o.pc = "idle" => o.revision = -1)

Tracked == MixedIsRepairable /\ \E p \in Lineages : Lineage(p)

WayKept ==
  /\ past \in Pasts
  /\ RecoveriesFresh
  /\ foreign \/ past.reused \/ Tracked

WayInv == subject = "cloudflare" => WayKept

\* What the row does in a step of h
RowMoves(h) ==
  \/ coordination' = coordination
  \/ /\ coordination.is = "present" /\ coordination'.is = "present"
     /\ coordination'.revision > coordination.revision
     /\ coordination'.owner \in {h, Nobody}
  \/ /\ coordination.is # "present" /\ coordination'.owner = Nobody
     /\ coordination'.revision >= 0

LEMMA OwnerHolds ==
  ASSUME RunsKept, NEW h \in Helpers, Cloudflare!Owned(h)
  PROVE  /\ HoldsRow(h) /\ coordination.owner = h /\ coordination.is = "present"
         /\ d1.live /\ d1.id = cloudflareOp[h].mine.db
         /\ coordination.build = cloudflareOp[h].build
BY DEF Cloudflare!Owned, Cloudflare!Reached, Cloudflare!Mine, HoldsRow

\* A checkpoint goes on saying what it says, whatever is deployed or exported.
LEMMA DescendsLasts ==
  ASSUME NEW p, NEW q, NEW t, Descends(p, t), d1' = d1,
         past.builds \subseteq past'.builds, d1Backups \subseteq d1Backups',
         \A b \in past.builds : q[b] = p[b]
  PROVE  Descends(q, t)'
BY DEF Descends

\* A step of one process disturbs no other one.
LEMMA WayStep ==
  ASSUME RunsKept, WayKept, AccountType',
         NEW h \in Helpers, NEW o \in Runs, NEW s \in Checkpoints,
         cloudflareOp' = [cloudflareOp EXCEPT ![h] = o],
         stateFile' = [stateFile EXCEPT ![host[h]] = s],
         host' = host, d1' = d1, foreign' = foreign, past' \in Pasts,
         past.builds \subseteq past'.builds, past.reused => past'.reused,
         d1Backups \subseteq d1Backups', RowMoves(h),
         HoldsRow(h) \/ (UNCHANGED <<d1Schema, active>> /\ s = stateFile[host[h]]),
         coordination' = coordination => o.revision \in {cloudflareOp[h].revision, -1},
         o.pc = "idle" => o.revision = -1,
         RecoversFresh(h, o)',
         ~foreign /\ ~past'.reused =>
           /\ MixedIsRepairable'
           /\ \E p, q \in Lineages :
                /\ Lineage(p) /\ \A b \in past.builds : q[b] = p[b]
                /\ Descends(q, s)' /\ Descends(q, o.mine)' /\ Knows(q, h, o)'
  PROVE  WayKept'
<1>1. /\ cloudflareOp \in [Helpers -> Runs] /\ host \in [Helpers -> Machines]
      /\ stateFile \in [Machines -> Checkpoints] /\ coordination.revision \in Int
      /\ coordination'.revision \in Int /\ coordination.revision >= 0
  BY DEF RunsKept, RunType, AccountType, WayKept, RecoveriesFresh
<1>2. /\ cloudflareOp'[h] = o /\ stateFile'[host[h]] = s
      /\ \A g \in Helpers \ {h} : cloudflareOp'[g] = cloudflareOp[g]
      /\ \A m \in Machines \ {host[h]} : stateFile'[m] = stateFile[m]
  BY <1>1
<1>3. ~HoldsRow(h) => stateFile' = stateFile
  BY <1>1
<1>4. coordination'.revision >= 0
  BY <1>1 DEF RowMoves
<1>5. h # Nobody
  BY AdministrationAssumption DEF Nobody
<1>6. ASSUME NEW g \in Helpers, g # h, NEW t \in Runs, RecoversFresh(g, t)
      PROVE  RecoversFresh(g, t)'
  <2>1. SUFFICES ASSUME t.recover # Cloudflare!NoLock, t.pc = "acquire",
                        t.mine.db = d1.id, d1.live
                 PROVE  /\ coordination'.is = "present"
                        /\ t.recover.revision <= coordination'.revision
                        /\ t.recover = Cloudflare!TheLock' =>
                             /\ stateFile'[host[g]] = t.mine
                             /\ \A k \in Helpers : ~HoldsRow(k)'
    BY <1>6 DEF RecoversFresh
  <2>2. /\ coordination.is = "present" /\ t.recover.revision <= coordination.revision
        /\ t.recover = Cloudflare!TheLock =>
             stateFile[host[g]] = t.mine /\ \A k \in Helpers : ~HoldsRow(k)
        /\ t.recover.revision \in Int
    BY <1>6, <2>1 DEF RecoversFresh, Runs
  <2>3. CASE coordination' = coordination
    <3>1. SUFFICES ASSUME t.recover = Cloudflare!TheLock'
                   PROVE  /\ stateFile'[host[g]] = t.mine
                          /\ \A k \in Helpers : ~HoldsRow(k)'
      BY <2>2, <2>3
    <3>2. stateFile[host[g]] = t.mine /\ \A k \in Helpers : ~HoldsRow(k)
      BY <2>2, <2>3, <3>1 DEF Cloudflare!TheLock
    <3>3. \A k \in Helpers : ~HoldsRow(k)'
      BY <1>1, <1>2, <2>3, <3>2 DEF HoldsRow
    <3> QED BY <1>3, <3>2, <3>3
  <2>4. CASE coordination' # coordination
    <3>1. coordination'.is = "present" /\ coordination'.revision > coordination.revision
      BY <2>2, <2>4 DEF RowMoves
    <3>2. t.recover # Cloudflare!TheLock'
      BY <1>1, <2>2, <3>1 DEF Cloudflare!TheLock
    <3> QED BY <1>1, <2>2, <3>1, <3>2
  <2> QED BY <2>3, <2>4
<1>7. RecoveriesFresh'
  <2> SUFFICES ASSUME NEW g \in Helpers, NEW t \in Runs, cloudflareOp'[g] = t
               PROVE  RecoversFresh(g, t)' /\ (t.pc = "idle" => t.revision = -1)
    BY <1>4 DEF RecoveriesFresh
  <2>1. CASE g = h
    BY <1>2, <2>1
  <2>2. CASE g # h
    BY <1>2, <1>6, <2>2 DEF WayKept, RecoveriesFresh
  <2> QED BY <2>1, <2>2
<1>8. ASSUME ~foreign, ~past'.reused
      PROVE  Tracked'
  <2>1. PICK p \in Lineages, q \in Lineages :
          /\ Lineage(p) /\ \A b \in past.builds : q[b] = p[b]
          /\ Descends(q, s)' /\ Descends(q, o.mine)' /\ Knows(q, h, o)'
    BY <1>8
  <2>2. \A t : Descends(p, t) => Descends(q, t)'
    BY <2>1, DescendsLasts
  <2>3. \A t \in Checkpoints, m \in Machines : stateFile'[m] = t => Descends(q, t)'
    BY <1>1, <1>2, <2>1, <2>2 DEF Lineage
  <2>4. ASSUME NEW g \in Helpers, g # h, NEW t \in Runs, cloudflareOp[g] = t
        PROVE  Descends(q, t.mine)' /\ Knows(q, g, t)'
    <3>1. Descends(p, t.mine) /\ Knows(p, g, t)
      BY <2>1, <2>4 DEF Lineage
    <3>2. ASSUME coordination'.owner = g
          PROVE  /\ coordination' = coordination
                 /\ UNCHANGED <<active, d1Schema, stateFile>>
      <4>1. g # Nobody
        BY AdministrationAssumption DEF Nobody
      <4> QED BY <1>3, <2>4, <3>2, <4>1 DEF RowMoves, HoldsRow
    <3>3. \A c, k : coordination'.owner = g /\ HasWay(c, k) => HasWay(c, k)'
      BY <3>2 DEF HasWay
    <3>4. Knows(q, g, t)'
      BY <2>1, <3>1, <3>2, <3>3 DEF Knows
    <3> QED BY <2>2, <3>1, <3>4
  <2>5. \A g \in Helpers, t \in Runs : cloudflareOp'[g] = t =>
          Descends(q, t.mine)' /\ Knows(q, g, t)'
    BY <1>1, <1>2, <2>1, <2>4
  <2>6. Lineage(q)'
    BY <2>3, <2>5 DEF Lineage
  <2> QED BY <1>8, <2>6 DEF Tracked, Lineages
<1> QED BY <1>7, <1>8 DEF WayKept

LEMMA IdleWay ==
  ASSUME NEW h \in Helpers, NEW p
  PROVE  /\ Descends(p, Cloudflare!Idle.mine)' /\ Knows(p, h, Cloudflare!Idle)'
         /\ RecoversFresh(h, Cloudflare!Idle)' /\ Cloudflare!Idle.revision = -1
<1>1. Cloudflare!Idle.revision = -1
  BY DEF Cloudflare!Idle
<1> QED BY <1>1, IdleRun DEF Descends, Knows, RecoversFresh, Settled

LEMMA HasWayLasts ==
  ASSUME NEW c, NEW g, HasWay(c, g), d1' = d1, d1Backups \subseteq d1Backups',
         \A m \in Machines : /\ stateFile'[m].db = stateFile[m].db
                             /\ stateFile'[m].previous = stateFile[m].previous
  PROVE  HasWay(c, g)'
BY DEF HasWay

\* The operation of h goes on to p, or ends; it may have had an effect.
Proceeds(h, p) ==
  \/ Cloudflare!Goto(h, p) /\ stateFile' = stateFile
  \/ /\ cloudflareOp' = [cloudflareOp EXCEPT ![h] = Cloudflare!Idle]
     /\ \/ stateFile' = stateFile
        \/ /\ Cloudflare!Marks(h)
           /\ stateFile' = [stateFile EXCEPT ![host[h]].status = "failed"]

\* The operation that goes on differs from the one before in its place only.
GetsOn(h, p, o) ==
  /\ stateFile' = stateFile
  /\ o.pc = p /\ o.kind = cloudflareOp[h].kind /\ o.target = cloudflareOp[h].target
  /\ o.mine = cloudflareOp[h].mine /\ o.recover = cloudflareOp[h].recover

LEMMA MovesWay ==
  ASSUME RunsKept, WayKept, RunsKept', NEW h \in Helpers,
         NEW p \in RunSteps \ {"acquire", "idle"},
         Proceeds(h, p), UNCHANGED <<host, coordination, d1, foreign>>,
         Cloudflare!Owned(h) \/ UNCHANGED <<d1Schema, active>>,
         past' \in Pasts, past.builds \subseteq past'.builds,
         past.reused => past'.reused, d1Backups \subseteq d1Backups',
         \A l \in Lineages :
           Lineage(l) /\ MixedIsRepairable /\ ~foreign /\ ~past'.reused =>
             /\ coordination.is = "present" /\ coordination.build # Nobody =>
                  \A c, g : c = active'.control /\ g = active'.gateway => HasWay(c, g)
             /\ \E q \in Lineages :
                  /\ \A b \in past.builds : q[b] = l[b]
                  /\ \A o \in Runs : GetsOn(h, p, o) => Knows(q, h, o)'
  PROVE  WayKept'
<1>1. /\ cloudflareOp[h] \in Runs /\ host[h] \in Machines
      /\ stateFile[host[h]] \in Checkpoints
  BY RunOf
<1>2. AccountType'
  BY DEF RunsKept
<1>3. /\ stateFile \in [Machines -> Checkpoints]
      /\ cloudflareOp \in [Helpers -> Runs]
  BY DEF RunsKept, RunType, AccountType
<1>4. Cloudflare!Owned(h) => HoldsRow(h)
  BY OwnerHolds
<1>5. PICK s : s = IF stateFile' = stateFile THEN stateFile[host[h]]
                     ELSE [stateFile[host[h]] EXCEPT !.status = "failed"]
  OBVIOUS
<1>6. PICK o : o = IF cloudflareOp' = [cloudflareOp EXCEPT ![h] = Cloudflare!Idle]
                     THEN Cloudflare!Idle ELSE [cloudflareOp[h] EXCEPT !.pc = p]
  OBVIOUS
<1>7. /\ s \in Checkpoints /\ s.db = stateFile[host[h]].db
      /\ s.previous = stateFile[host[h]].previous /\ s.build = stateFile[host[h]].build
      /\ s.status \in {stateFile[host[h]].status, "failed"}
      /\ s = stateFile[host[h]] \/ Cloudflare!Owned(h)
  <2>1. CASE s = [stateFile[host[h]] EXCEPT !.status = "failed"] /\ Cloudflare!Marks(h)
    BY <1>1, <2>1 DEF Checkpoints, Cloudflare!Marks
  <2>2. CASE s = stateFile[host[h]]
    BY <1>1, <2>2
  <2> QED BY <1>5, <2>1, <2>2 DEF Proceeds
<1>8. CASE cloudflareOp' = [cloudflareOp EXCEPT ![h] = Cloudflare!Idle]
  <2>1. o = Cloudflare!Idle
    BY <1>6, <1>8
  <2>2. /\ o \in Runs /\ o.pc = "idle" /\ o.revision = -1
        /\ RecoversFresh(h, o)'
        /\ \A q : Descends(q, o.mine)' /\ Knows(q, h, o)'
    BY <2>1, IdleRun, IdleWay
  <2>3. /\ cloudflareOp' = [cloudflareOp EXCEPT ![h] = o]
    BY <1>8, <2>1
  <2>4. stateFile' = [stateFile EXCEPT ![host[h]] = s]
    <3>1. CASE stateFile' = stateFile
      BY <1>1, <1>3, <1>5, <3>1
    <3>2. CASE stateFile' # stateFile
      BY <1>1, <1>3, <1>5, <3>2 DEF Proceeds
    <3> QED BY <3>1, <3>2
  <2>5. \A c, g : HasWay(c, g) => HasWay(c, g)'
    <3>1. \A m \in Machines : /\ stateFile'[m].db = stateFile[m].db
                              /\ stateFile'[m].previous = stateFile[m].previous
      BY <1>1, <1>3, <1>7, <2>4
    <3> QED BY <3>1, HasWayLasts
  <2>6. ASSUME ~foreign, ~past'.reused
        PROVE  /\ MixedIsRepairable'
               /\ \E l, q \in Lineages :
                    /\ Lineage(l) /\ \A b \in past.builds : q[b] = l[b]
                    /\ Descends(q, s)' /\ Descends(q, o.mine)' /\ Knows(q, h, o)'
    <3>1. PICK l \in Lineages : Lineage(l) /\ MixedIsRepairable
      BY <2>6 DEF WayKept, Tracked
    <3>2. MixedIsRepairable'
      BY <2>5, <2>6, <3>1 DEF MixedIsRepairable
    <3>3. Descends(l, stateFile[host[h]])
      BY <1>1, <3>1 DEF Lineage
    <3>4. Descends(l, s)
      BY <1>7, <3>3 DEF Descends, Settled
    <3>5. Descends(l, s)'
      BY <3>4, DescendsLasts
    <3> QED BY <2>2, <3>1, <3>2, <3>5
  <2>7. o \in Runs /\ RecoversFresh(h, o)' /\ o.revision = -1
    BY <2>2
  <2>8. HoldsRow(h) \/ (UNCHANGED <<d1Schema, active>> /\ s = stateFile[host[h]])
    BY <1>4, <1>7
  <2> QED BY ONLY RunsKept, WayKept, <1>2, <1>7, <2>3, <2>4, <2>6, <2>7, <2>8, WayStep,
         h \in Helpers, UNCHANGED <<host, coordination, d1, foreign>>,
         past' \in Pasts, past.builds \subseteq past'.builds,
         past.reused => past'.reused, d1Backups \subseteq d1Backups' DEF RowMoves
<1>9. CASE cloudflareOp' # [cloudflareOp EXCEPT ![h] = Cloudflare!Idle]
  <2>1. /\ o = [cloudflareOp[h] EXCEPT !.pc = p] /\ s = stateFile[host[h]]
        /\ Cloudflare!Goto(h, p) /\ stateFile' = stateFile
    BY <1>5, <1>6, <1>9 DEF Proceeds
  <2>2. /\ o \in Runs /\ o.revision = cloudflareOp[h].revision
        /\ GetsOn(h, p, o)
    <3>1. p \in RunSteps
      OBVIOUS
    <3> QED BY <1>1, <2>1, <3>1 DEF Runs, GetsOn
  <2>3. cloudflareOp' = [cloudflareOp EXCEPT ![h] = o]
    BY <2>1, RunOf DEF Cloudflare!Goto
  <2>4. stateFile' = [stateFile EXCEPT ![host[h]] = s]
    BY <1>1, <1>3, <2>1
  <2>5. o.pc # "idle" /\ o.pc # "acquire"
    BY <2>2 DEF GetsOn
  <2>6. RecoversFresh(h, o)'
    <3>1. RecoversFresh(h, cloudflareOp[h])
      BY <1>1 DEF WayKept, RecoveriesFresh
    <3> QED BY <2>2, <2>5, <3>1 DEF RecoversFresh, GetsOn
  <2>7. ASSUME ~foreign, ~past'.reused
        PROVE  /\ MixedIsRepairable'
               /\ \E l, q \in Lineages :
                    /\ Lineage(l) /\ \A b \in past.builds : q[b] = l[b]
                    /\ Descends(q, s)' /\ Descends(q, o.mine)' /\ Knows(q, h, o)'
    <3>1. PICK l \in Lineages : Lineage(l) /\ MixedIsRepairable
      BY <2>7 DEF WayKept, Tracked
    <3>2. /\ coordination.is = "present" /\ coordination.build # Nobody =>
               \A c, g : c = active'.control /\ g = active'.gateway => HasWay(c, g)
          /\ \E q \in Lineages :
               /\ \A b \in past.builds : q[b] = l[b]
               /\ \A r \in Runs : GetsOn(h, p, r) => Knows(q, h, r)'
      BY <2>7, <3>1
    <3>3. MixedIsRepairable'
      <4>1. \A c, g : HasWay(c, g) => HasWay(c, g)'
        BY <2>1, HasWayLasts
      <4> QED BY <3>2, <4>1 DEF MixedIsRepairable
    <3>4. PICK q \in Lineages :
               /\ \A b \in past.builds : q[b] = l[b]
               /\ \A r \in Runs : GetsOn(h, p, r) => Knows(q, h, r)'
      BY <3>2
    <3>5. Descends(l, s) /\ Descends(l, o.mine)
      BY <1>1, <2>1, <2>2, <3>1 DEF Lineage, GetsOn
    <3>6. Descends(q, s)' /\ Descends(q, o.mine)'
      BY <3>4, <3>5, DescendsLasts
    <3> QED BY <2>2, <3>1, <3>3, <3>4, <3>6
  <2> QED BY ONLY RunsKept, WayKept, <1>2, <1>4, <1>7, <2>1, <2>2, <2>3, <2>4, <2>5, <2>6,
         <2>7, WayStep, h \in Helpers, UNCHANGED <<host, coordination, d1, foreign>>,
         Cloudflare!Owned(h) \/ UNCHANGED <<d1Schema, active>>,
         past' \in Pasts, past.builds \subseteq past'.builds,
         past.reused => past'.reused, d1Backups \subseteq d1Backups' DEF RowMoves
<1> QED BY <1>8, <1>9

\* What leaves rows, Workers, schema and history alone
LEMMA CalmWay ==
  ASSUME RunsKept, WayKept, RunsKept', NEW h \in Helpers,
         NEW p \in RunSteps \ {"acquire", "idle"},
         Proceeds(h, p),
         UNCHANGED <<host, coordination, d1, d1Schema, active, past, foreign>>,
         d1Backups \subseteq d1Backups',
         \A l \in Lineages, o \in Runs : Lineage(l) /\ GetsOn(h, p, o) => Knows(l, h, o)'
  PROVE  WayKept'
<1>1. past' \in Pasts /\ past.builds \subseteq past'.builds
      /\ (past.reused => past'.reused)
  BY DEF WayKept
<1>2. ASSUME NEW l \in Lineages, Lineage(l), MixedIsRepairable
      PROVE  /\ coordination.is = "present" /\ coordination.build # Nobody =>
                  \A c, g : c = active'.control /\ g = active'.gateway => HasWay(c, g)
             /\ \E q \in Lineages :
                  /\ \A b \in past.builds : q[b] = l[b]
                  /\ \A o \in Runs : GetsOn(h, p, o) => Knows(q, h, o)'
  <2>1. coordination.is = "present" /\ coordination.build # Nobody =>
          \A c, g : c = active'.control /\ g = active'.gateway => HasWay(c, g)
    BY <1>2 DEF MixedIsRepairable
  <2>2. \A o \in Runs : GetsOn(h, p, o) => Knows(l, h, o)'
    BY <1>2
  <2> QED BY <2>1, <2>2
<1> QED BY <1>1, <1>2, MovesWay

LEMMA ThrowWay ==
  ASSUME RunsKept, WayKept, RunsKept', NEW h \in Helpers,
         Cloudflare!Throw(h) \/ Cloudflare!Crash(h)
  PROVE  WayKept'
<1>1. /\ Proceeds(h, "create")
      /\ UNCHANGED <<host, coordination, d1, d1Schema, active, past, foreign, d1Backups>>
  BY DEF Proceeds, Cloudflare!Throw, Cloudflare!Crash, Cloudflare!Retained,
     Cloudflare!remote
<1>2. "create" \in RunSteps \ {"acquire", "idle"}
  BY DEF RunSteps
<1>3. \A l, o : GetsOn(h, "create", o) => Knows(l, h, o)'
  BY DEF GetsOn, Knows
<1> QED BY <1>1, <1>2, <1>3, CalmWay

\* An operation knows what it knew at the place before.
LEMMA LineageOf ==
  ASSUME RunsKept, NEW h \in Helpers, NEW l, Lineage(l)
  PROVE  /\ Knows(l, h, cloudflareOp[h]) /\ Descends(l, cloudflareOp[h].mine)
         /\ Descends(l, stateFile[host[h]])
BY RunOf DEF Lineage

\* An effect that leaves both Workers alone
LEMMA StillWay ==
  ASSUME RunsKept, WayKept, RunsKept', NEW h \in Helpers,
         NEW p \in RunSteps \ {"acquire", "idle"},
         <<cloudflareOp[h].kind, cloudflareOp[h].pc, p>> \in
           {<<"apply", "pause", "backup">>, <<"verify", "resume", "record">>,
            <<"rollback", "pause", "gateway">>, <<"verify", "check", "resume">>,
            <<"verify", "check", "record">>, <<"adopt", "check", "pause">>,
            <<"adopt", "pause", "export">>, <<"adopt", "export", "initialize">>},
         Proceeds(h, p),
         UNCHANGED <<host, coordination, d1, d1Schema, active, past, foreign>>,
         d1Backups \subseteq d1Backups'
  PROVE  WayKept'
<1>1. ASSUME NEW l \in Lineages, NEW o \in Runs, Lineage(l), GetsOn(h, p, o)
      PROVE  Knows(l, h, o)'
  <2>1. Knows(l, h, cloudflareOp[h])
    BY <1>1, LineageOf
  <2>2. CASE cloudflareOp[h].kind = "rollback" /\ p = "gateway"
    <3>1. CASE stateFile' = stateFile
      <4>1. \A c, g : HasWay(c, g) => HasWay(c, g)'
        BY <3>1, HasWayLasts
      <4> QED BY <1>1, <2>1, <2>2, <4>1 DEF GetsOn, Knows
    <3>2. CASE stateFile' # stateFile
      BY <2>2, <3>2 DEF Proceeds, Cloudflare!Marks
    <3> QED BY <3>1, <3>2
  <2>3. CASE cloudflareOp[h].kind \in {"apply", "verify", "adopt"}
    BY <1>1, <2>1, <2>3 DEF GetsOn, Knows
  <2> QED BY <2>2, <2>3
<1> QED BY <1>1, CalmWay

LEMMA PausesWay ==
  ASSUME RunsKept, WayKept, RunsKept', NEW h \in Helpers,
         \/ Cloudflare!PauseUpdate(h) \/ Cloudflare!PauseRollback(h)
         \/ Cloudflare!Resume(h) \/ Cloudflare!CheckVerify(h)
         \/ Cloudflare!CheckAdopt(h) \/ Cloudflare!PauseAdopt(h)
         \/ Cloudflare!ExportAdopt(h)
  PROVE  WayKept'
<1>1. CASE Cloudflare!Throw(h)
  BY <1>1, ThrowWay
<1>2. CASE ~Cloudflare!Throw(h)
  <2>1. {"backup", "gateway", "record", "resume", "pause", "export", "initialize"}
          \subseteq RunSteps \ {"acquire", "idle"}
    BY DEF RunSteps
  <2>2. PICK p \in RunSteps \ {"acquire", "idle"} :
          /\ Proceeds(h, p)
          /\ UNCHANGED <<host, coordination, d1, d1Schema, active, past, foreign>>
          /\ d1Backups \subseteq d1Backups'
          /\ <<cloudflareOp[h].kind, cloudflareOp[h].pc, p>> \in
               {<<"apply", "pause", "backup">>, <<"verify", "resume", "record">>,
                <<"rollback", "pause", "gateway">>, <<"verify", "check", "resume">>,
                <<"verify", "check", "record">>, <<"adopt", "check", "pause">>,
                <<"adopt", "pause", "export">>, <<"adopt", "export", "initialize">>}
    <3>1. CASE Cloudflare!PauseUpdate(h)
      BY <1>2, <2>1, <3>1 DEF Cloudflare!PauseUpdate, Cloudflare!At, Cloudflare!Command,
         Cloudflare!Pauses, Cloudflare!Retained, Proceeds
    <3>2. CASE Cloudflare!PauseRollback(h)
      BY <1>2, <2>1, <3>2 DEF Cloudflare!PauseRollback, Cloudflare!At, Cloudflare!Command,
         Cloudflare!Pauses, Cloudflare!Retained, Proceeds
    <3>3. CASE Cloudflare!Resume(h)
      BY <1>2, <2>1, <3>3 DEF Cloudflare!Resume, Cloudflare!At, Cloudflare!Command,
         Cloudflare!Pauses, Cloudflare!Retained, Proceeds
    <3>4. CASE Cloudflare!CheckVerify(h)
      BY <1>2, <2>1, <3>4 DEF Cloudflare!CheckVerify, Cloudflare!At, Cloudflare!remote,
         Proceeds
    <3>5. CASE Cloudflare!CheckAdopt(h)
      BY <1>2, <2>1, <3>5 DEF Cloudflare!CheckAdopt, Cloudflare!At, Cloudflare!remote,
         Proceeds
    <3>6. CASE Cloudflare!PauseAdopt(h)
      BY <1>2, <2>1, <3>6 DEF Cloudflare!PauseAdopt, Cloudflare!At, Cloudflare!Pauses,
         Proceeds
    <3>7. CASE Cloudflare!ExportAdopt(h)
      BY <1>2, <2>1, <3>7 DEF Cloudflare!ExportAdopt, Cloudflare!At, Cloudflare!Exports,
         Proceeds
    <3> QED BY <3>1, <3>2, <3>3, <3>4, <3>5, <3>6, <3>7
  <2> QED BY <2>2, StillWay
<1> QED BY <1>1, <1>2

\* The export that a rollback asks for
LEMMA BackupWay ==
  ASSUME RunsKept, WayKept, RunsKept', NEW h \in Helpers, Cloudflare!BackupUpdate(h)
  PROVE  WayKept'
<1>1. CASE Cloudflare!Throw(h)
  BY <1>1, ThrowWay
<1>2. CASE ~Cloudflare!Throw(h)
  <2>1. /\ Proceeds(h, "recorded") /\ cloudflareOp[h].kind = "apply"
        /\ cloudflareOp[h].pc = "backup"
        /\ UNCHANGED <<host, coordination, d1, d1Schema, active, past, foreign>>
        /\ d1Backups' = d1Backups \cup {[build |-> cloudflareOp[h].mine.build,
                                         schema |-> d1Schema]}
    BY <1>2 DEF Cloudflare!BackupUpdate, Cloudflare!At, Cloudflare!Command,
       Cloudflare!Exports, Cloudflare!Mine, Cloudflare!Retained, Proceeds
  <2>2. ASSUME NEW l \in Lineages, NEW o \in Runs, Lineage(l), GetsOn(h, "recorded", o)
        PROVE  Knows(l, h, o)'
    <3>1. Knows(l, h, cloudflareOp[h])
      BY <2>2, LineageOf
    <3> QED BY <2>1, <2>2, <3>1 DEF GetsOn, Knows
  <2>3. "recorded" \in RunSteps \ {"acquire", "idle"}
    BY DEF RunSteps
  <2> QED BY <2>1, <2>2, <2>3, CalmWay
<1> QED BY <1>1, <1>2

LEMMA MigrateWay ==
  ASSUME RunsKept, WayKept, RunsKept', NEW h \in Helpers, Cloudflare!Migrate(h)
  PROVE  WayKept'
<1>1. CASE Cloudflare!Throw(h)
  BY <1>1, ThrowWay
<1>2. CASE ~Cloudflare!Throw(h)
  <2>1. /\ Proceeds(h, "control") /\ cloudflareOp[h].kind \in {"install", "apply"}
        /\ cloudflareOp[h].pc = "migrate" /\ Cloudflare!Owned(h)
        /\ UNCHANGED <<host, coordination, d1, active, past, foreign, d1Backups>>
    BY <1>2 DEF Cloudflare!Migrate, Cloudflare!Command, Cloudflare!Migrates,
       Cloudflare!Retained, Proceeds
  <2>2. ASSUME NEW l \in Lineages, Lineage(l), MixedIsRepairable
        PROVE  /\ coordination.is = "present" /\ coordination.build # Nobody =>
                    \A c, g : c = active'.control /\ g = active'.gateway => HasWay(c, g)
               /\ \E q \in Lineages :
                    /\ \A b \in past.builds : q[b] = l[b]
                    /\ \A o \in Runs : GetsOn(h, "control", o) => Knows(q, h, o)'
    <3>1. coordination.is = "present" /\ coordination.build # Nobody =>
            \A c, g : c = active'.control /\ g = active'.gateway => HasWay(c, g)
      BY <2>1, <2>2 DEF MixedIsRepairable
    <3>2. ASSUME NEW o \in Runs, GetsOn(h, "control", o)
          PROVE  Knows(l, h, o)'
      <4>1. Knows(l, h, cloudflareOp[h])
        BY <2>2, LineageOf
      <4> QED BY <2>1, <3>2, <4>1 DEF GetsOn, Knows
    <3> QED BY <3>1, <3>2
  <2>3. "control" \in RunSteps \ {"acquire", "idle"}
    BY DEF RunSteps
  <2>4. past' \in Pasts /\ past.builds \subseteq past'.builds
        /\ (past.reused => past'.reused) /\ d1Backups \subseteq d1Backups'
    BY <2>1 DEF WayKept
  <2> QED BY <2>1, <2>2, <2>3, <2>4, MovesWay
<1> QED BY <1>1, <1>2

\* A build that was never deployed has no predecessor yet; it gets the one
\* that it replaces, and the checkpoint of its own machine still names that.
LEMMA DeployControlWay ==
  ASSUME RunsKept, WayKept, RunsKept', NEW h \in Helpers, Cloudflare!DeployControl(h)
  PROVE  WayKept'
<1>1. CASE Cloudflare!Throw(h)
  BY <1>1, ThrowWay
<1>2. CASE ~Cloudflare!Throw(h)
  <2>1. PICK t : t = cloudflareOp[h].target
    OBVIOUS
  <2>2. PICK b : b = cloudflareOp[h].mine.previous.build
    OBVIOUS
  <2>3. /\ Proceeds(h, "gateway") /\ cloudflareOp[h].kind \in {"install", "apply"}
        /\ cloudflareOp[h].pc = "control" /\ Cloudflare!Owned(h)
        /\ UNCHANGED <<host, coordination, d1, d1Schema, foreign, d1Backups>>
        /\ active' = [active EXCEPT !.control = t]
        /\ past' = [builds |-> past.builds \cup {t},
                    reused |-> past.reused \/ t \in past.builds]
    BY <1>2, <2>1 DEF Cloudflare!DeployControl, Cloudflare!Command, Cloudflare!Introduces,
       Cloudflare!Retained, Proceeds
  <2>4. /\ t \in Builds /\ b \in SomeBuild /\ active \in WorkerPairs
        /\ coordination.owner = h /\ cloudflareOp[h] \in Runs
        /\ active'.control = t /\ active'.gateway = active.gateway
    BY <2>1, <2>2, <2>3, OwnerKnows DEF Began, RunsKept, AccountType, WorkerPairs,
       Checkpoints
  <2>5. past' \in Pasts /\ past.builds \subseteq past'.builds
        /\ (past.reused => past'.reused) /\ d1Backups \subseteq d1Backups'
    <3>1. past \in Pasts
      BY DEF WayKept
    <3> QED BY <2>3, <2>4, <3>1 DEF Pasts
  <2>6. ASSUME NEW l \in Lineages, Lineage(l), ~past'.reused
        PROVE  /\ coordination.is = "present" /\ coordination.build # Nobody =>
                    \A c, g : c = active'.control /\ g = active'.gateway => HasWay(c, g)
               /\ \E q \in Lineages :
                    /\ \A a \in past.builds : q[a] = l[a]
                    /\ \A o \in Runs : GetsOn(h, "gateway", o) => Knows(q, h, o)'
    <3>1. t \notin past.builds /\ Knows(l, h, cloudflareOp[h])
      BY <2>3, <2>6, LineageOf
    <3>2. PICK q : q = [l EXCEPT ![t] = b]
      OBVIOUS
    <3>3. /\ q \in Lineages /\ q[t] = b
          /\ \A a \in past.builds : q[a] = l[a]
      <4>1. past.builds \subseteq Builds
        BY DEF WayKept, Pasts
      <4> QED BY <2>4, <3>1, <3>2, <4>1 DEF Lineages
    <3>4. coordination.build # Nobody =>
            \A c, g : c = active'.control /\ g = active'.gateway => HasWay(c, g)
      <4>1. SUFFICES ASSUME coordination.build # Nobody
                     PROVE  HasWay(t, active.gateway)
        BY <2>4
      <4>2. cloudflareOp[h].kind = "apply"
        BY <2>3, <2>4, <3>1, <4>1 DEF Knows
      <4>3. /\ active.gateway = cloudflareOp[h].mine.build
            /\ stateFile[host[h]] = cloudflareOp[h].mine
            /\ cloudflareOp[h].mine.db = d1.id
            /\ cloudflareOp[h].mine.previous.build = cloudflareOp[h].mine.build
            /\ cloudflareOp[h].mine.previous \in d1Backups
        BY <2>3, <2>4, <3>1, <4>2 DEF Knows, Cloudflare!Both
      <4> QED BY <4>3, RunOf DEF HasWay
    <3>5. ASSUME NEW o \in Runs, GetsOn(h, "gateway", o)
          PROVE  Knows(q, h, o)'
      <4>1. /\ o.pc = "gateway" /\ o.kind = cloudflareOp[h].kind /\ o.target = t
            /\ o.mine = cloudflareOp[h].mine /\ t \in past'.builds
            /\ stateFile' = stateFile /\ o.kind \in {"install", "apply"}
        BY <2>1, <2>3, <3>5 DEF GetsOn
      <4>2. o.kind = "install" => coordination.build = Nobody
        BY <2>3, <2>4, <3>1, <4>1 DEF Knows
      <4>3. o.kind = "apply" =>
              /\ stateFile[host[h]] = o.mine /\ o.mine.db = d1.id
              /\ o.mine.previous.build = o.mine.build /\ o.mine.previous \in d1Backups
        BY <2>3, <2>4, <3>1, <4>1 DEF Knows
      <4> QED BY <2>2, <2>3, <3>3, <4>1, <4>2, <4>3 DEF Knows
    <3> QED BY <3>3, <3>4, <3>5
  <2>7. "gateway" \in RunSteps \ {"acquire", "idle"}
    BY DEF RunSteps
  <2> QED BY <2>3, <2>5, <2>6, <2>7, MovesWay
<1> QED BY <1>1, <1>2

\* The other steps by which Workers change leave the history alone.
LEMMA WorkersWay ==
  ASSUME RunsKept, WayKept, RunsKept', NEW h \in Helpers,
         NEW p \in RunSteps \ {"acquire", "idle"},
         Proceeds(h, p),
         UNCHANGED <<host, coordination, d1, d1Schema, d1Backups, past, foreign>>,
         Cloudflare!Owned(h) \/ UNCHANGED active,
         \A l \in Lineages :
           Lineage(l) /\ MixedIsRepairable /\ ~foreign =>
             /\ coordination.is = "present" /\ coordination.build # Nobody =>
                  \A c, g : c = active'.control /\ g = active'.gateway => HasWay(c, g)
             /\ \A o \in Runs : GetsOn(h, p, o) => Knows(l, h, o)'
  PROVE  WayKept'
<1>1. past' \in Pasts /\ past.builds \subseteq past'.builds
      /\ (past.reused => past'.reused) /\ d1Backups \subseteq d1Backups'
  BY DEF WayKept
<1>2. ASSUME NEW l \in Lineages, Lineage(l), MixedIsRepairable, ~foreign
      PROVE  /\ coordination.is = "present" /\ coordination.build # Nobody =>
                  \A c, g : c = active'.control /\ g = active'.gateway => HasWay(c, g)
             /\ \E q \in Lineages :
                  /\ \A b \in past.builds : q[b] = l[b]
                  /\ \A o \in Runs : GetsOn(h, p, o) => Knows(q, h, o)'
  <2>1. \A o \in Runs : GetsOn(h, p, o) => Knows(l, h, o)'
    BY <1>2
  <2> QED BY <1>2, <2>1
<1> QED BY <1>1, <1>2, MovesWay

LEMMA DeployGatewayWay ==
  ASSUME RunsKept, WayKept, RunsKept', NEW h \in Helpers, Cloudflare!DeployGateway(h)
  PROVE  WayKept'
<1>1. CASE Cloudflare!Throw(h)
  BY <1>1, ThrowWay
<1>2. CASE ~Cloudflare!Throw(h)
  <2>1. PICK t : t = cloudflareOp[h].target
    OBVIOUS
  <2>2. /\ Proceeds(h, "finish") /\ cloudflareOp[h].kind \in {"install", "apply"}
        /\ cloudflareOp[h].pc = "gateway" /\ Cloudflare!Owned(h)
        /\ UNCHANGED <<host, coordination, d1, d1Schema, d1Backups, past, foreign>>
        /\ active' = [active EXCEPT !.gateway = t]
    BY <1>2, <2>1 DEF Cloudflare!DeployGateway, Cloudflare!Command, Cloudflare!Deploys,
       Cloudflare!Retained, Proceeds
  <2>3. /\ foreign \/ active.control = t
        /\ active'.control = active.control /\ active'.gateway = t
    BY <2>1, <2>2, OwnerKnows DEF Works, RunsKept, AccountType, WorkerPairs
  <2>4. ASSUME NEW l \in Lineages, Lineage(l), NEW o \in Runs, GetsOn(h, "finish", o)
        PROVE  Knows(l, h, o)'
    <3>1. Knows(l, h, cloudflareOp[h])
      BY <2>4, LineageOf
    <3> QED BY <2>2, <2>4, <3>1 DEF GetsOn, Knows
  <2>5. "finish" \in RunSteps \ {"acquire", "idle"}
    BY DEF RunSteps
  <2>6. ~foreign => \A c, g : c = active'.control /\ g = active'.gateway => HasWay(c, g)
    BY <2>3 DEF HasWay
  <2> QED BY <2>2, <2>4, <2>5, <2>6, WorkersWay
<1> QED BY <1>1, <1>2

\* A rollback first makes the build it returns to the one of the Gateway.
LEMMA RollbackWay ==
  ASSUME RunsKept, WayKept, RunsKept', NEW h \in Helpers,
         Cloudflare!RollbackGateway(h) \/ Cloudflare!RollbackControl(h)
  PROVE  WayKept'
<1>1. CASE Cloudflare!Throw(h)
  BY <1>1, ThrowWay
<1>2. CASE ~Cloudflare!Throw(h) /\ Cloudflare!RollbackGateway(h)
  <2>1. PICK b : b = cloudflareOp[h].mine.previous.build
    OBVIOUS
  <2>2. /\ Proceeds(h, "control") /\ cloudflareOp[h].kind = "rollback"
        /\ cloudflareOp[h].pc = "gateway" /\ Cloudflare!Owned(h)
        /\ UNCHANGED <<host, coordination, d1, d1Schema, d1Backups, past, foreign>>
        /\ active' = [active EXCEPT !.gateway = b]
    BY <1>2, <2>1 DEF Cloudflare!RollbackGateway, Cloudflare!At, Cloudflare!Mine,
       Cloudflare!Command, Cloudflare!Deploys, Cloudflare!Retained, Proceeds
  <2>3. /\ active'.control = active.control /\ active'.gateway = b
        /\ coordination.owner = h
    BY <2>2, OwnerHolds DEF RunsKept, AccountType, WorkerPairs
  <2>4. ASSUME NEW l \in Lineages, Lineage(l)
        PROVE  /\ \A c, g : c = active'.control /\ g = active'.gateway => HasWay(c, g)
               /\ \A o \in Runs : GetsOn(h, "control", o) => Knows(l, h, o)'
    <3>1. Knows(l, h, cloudflareOp[h])
      BY <2>4, LineageOf
    <3>2. HasWay(active.control, b)
      BY <2>1, <2>2, <2>3, <3>1 DEF Knows
    <3>3. \A o \in Runs : GetsOn(h, "control", o) => Knows(l, h, o)'
      BY <2>1, <2>2, <2>3 DEF GetsOn, Knows
    <3> QED BY <2>3, <3>2, <3>3
  <2>5. "control" \in RunSteps \ {"acquire", "idle"}
    BY DEF RunSteps
  <2> QED BY <2>2, <2>4, <2>5, WorkersWay
<1>3. CASE ~Cloudflare!Throw(h) /\ Cloudflare!RollbackControl(h)
  <2>1. PICK b : b = cloudflareOp[h].mine.previous.build
    OBVIOUS
  <2>2. /\ Proceeds(h, "record") /\ cloudflareOp[h].kind = "rollback"
        /\ cloudflareOp[h].pc = "control" /\ Cloudflare!Owned(h)
        /\ UNCHANGED <<host, coordination, d1, d1Schema, d1Backups, past, foreign>>
        /\ active' = [active EXCEPT !.control = b]
    BY <1>3, <2>1 DEF Cloudflare!RollbackControl, Cloudflare!At, Cloudflare!Mine,
       Cloudflare!Command, Cloudflare!Deploys, Cloudflare!Retained, Proceeds
  <2>3. /\ active'.control = b /\ active'.gateway = active.gateway
        /\ coordination.owner = h
    BY <2>2, OwnerHolds DEF RunsKept, AccountType, WorkerPairs
  <2>4. ASSUME NEW l \in Lineages, Lineage(l)
        PROVE  /\ \A c, g : c = active'.control /\ g = active'.gateway => HasWay(c, g)
               /\ \A o \in Runs : GetsOn(h, "record", o) => Knows(l, h, o)'
    <3>1. Knows(l, h, cloudflareOp[h])
      BY <2>4, LineageOf
    <3>2. active.gateway = b
      BY <2>1, <2>2, <2>3, <3>1 DEF Knows
    <3>3. \A o \in Runs : GetsOn(h, "record", o) => Knows(l, h, o)'
      BY <2>1, <2>2, <2>3, <3>2 DEF GetsOn, Knows
    <3> QED BY <2>3, <3>2, <3>3 DEF HasWay
  <2>5. "record" \in RunSteps \ {"acquire", "idle"}
    BY DEF RunSteps
  <2> QED BY <2>2, <2>4, <2>5, WorkersWay
<1> QED BY <1>1, <1>2, <1>3

\* A Worker that is gone leaves no two builds.
LEMMA DeleteWay ==
  ASSUME RunsKept, WayKept, RunsKept', NEW h \in Helpers,
         Cloudflare!DeleteGateway(h) \/ Cloudflare!DeleteControl(h)
  PROVE  WayKept'
<1>1. CASE Cloudflare!Throw(h)
  BY <1>1, ThrowWay
<1>2. CASE ~Cloudflare!Throw(h)
  <2>1. PICK p \in RunSteps \ {"acquire", "idle"}, w \in {"control", "gateway"} :
          Cloudflare!DeleteWorker(h, w, p)
    <3>1. {"control", "intent"} \subseteq RunSteps \ {"acquire", "idle"}
      BY DEF RunSteps
    <3> QED BY <3>1 DEF Cloudflare!DeleteGateway, Cloudflare!DeleteControl
  <2>2. /\ Proceeds(h, p) /\ cloudflareOp[h].kind = "cleanup"
        /\ UNCHANGED <<host, coordination, d1, d1Schema, d1Backups, past, foreign>>
        /\ Cloudflare!Owned(h)
        /\ active' = active \/ active' = [active EXCEPT ![w] = Nobody]
    <3>1. CASE Cloudflare!Command(h, p, Cloudflare!Deploys(w, Cloudflare!None))
      BY <1>2, <2>1, <3>1 DEF Cloudflare!DeleteWorker, Cloudflare!At, Cloudflare!Command,
         Cloudflare!Deploys, Cloudflare!Retained, Proceeds, Cloudflare!None, Nobody
    <3>2. CASE ~Cloudflare!Command(h, p, Cloudflare!Deploys(w, Cloudflare!None))
      BY <1>2, <2>1, <3>2 DEF Cloudflare!DeleteWorker, Cloudflare!At, Cloudflare!remote,
         Proceeds
    <3> QED BY <3>1, <3>2
  <2>3. active' = active \/ active'.control = Nobody \/ active'.gateway = Nobody
    BY <2>2 DEF RunsKept, AccountType, WorkerPairs
  <2>4. ASSUME NEW l \in Lineages, MixedIsRepairable
        PROVE  /\ coordination.is = "present" /\ coordination.build # Nobody =>
                    \A c, g : c = active'.control /\ g = active'.gateway => HasWay(c, g)
               /\ \A o \in Runs : GetsOn(h, p, o) => Knows(l, h, o)'
    <3>1. CASE active' = active
      BY <2>2, <2>4, <3>1 DEF MixedIsRepairable, GetsOn, Knows
    <3>2. CASE active' # active
      BY <2>2, <2>3, <3>2 DEF HasWay, GetsOn, Knows
    <3> QED BY <3>1, <3>2
  <2> QED BY <2>2, <2>4, WorkersWay
<1> QED BY <1>1, <1>2

-----------------------------------------------------------------------------
\* A checkpoint replaces one that somebody may need only while the Workers run
\* one build.
LEMMA CheckpointWay ==
  ASSUME RunsKept, WayKept, RunsKept', NEW h \in Helpers, NEW s \in Checkpoints,
         NEW p \in RunSteps \ {"acquire", "idle"},
         Cloudflare!Owned(h), Cloudflare!Write(h, s, p),
         UNCHANGED <<host, coordination, d1, d1Schema, active, d1Backups, past, foreign>>,
         ~foreign /\ ~past.reused => active.control = active.gateway,
         \A l \in Lineages :
           Lineage(l) /\ ~foreign =>
             /\ Descends(l, s)
             /\ \A o \in Runs :
                  /\ o.pc = p /\ o.kind = cloudflareOp[h].kind
                  /\ o.target = cloudflareOp[h].target /\ o.mine = s
                  => Knows(l, h, o)'
  PROVE  WayKept'
<1>1. cloudflareOp[h] \in Runs /\ host[h] \in Machines
  BY RunOf
<1>2. PICK o : o = [cloudflareOp[h] EXCEPT !.mine = s, !.pc = p]
  OBVIOUS
<1>3. /\ o \in Runs /\ o.pc = p /\ o.mine = s /\ o.kind = cloudflareOp[h].kind
      /\ o.target = cloudflareOp[h].target /\ o.recover = cloudflareOp[h].recover
      /\ o.revision = cloudflareOp[h].revision
  <2>1. p \in RunSteps
    OBVIOUS
  <2> QED BY ONLY <1>1, <1>2, <2>1, s \in Checkpoints DEF Runs
<1>4. /\ cloudflareOp' = [cloudflareOp EXCEPT ![h] = o]
      /\ stateFile' = [stateFile EXCEPT ![host[h]] = s]
  BY <1>1, <1>2 DEF Cloudflare!Write, RunsKept, RunType
<1>5. RecoversFresh(h, o)'
  <2>1. RecoversFresh(h, cloudflareOp[h])
    BY <1>1 DEF WayKept, RecoveriesFresh
  <2> QED BY <1>3, <2>1 DEF RecoversFresh
<1>6. HoldsRow(h)
  BY OwnerHolds
<1>7. past' \in Pasts
  BY DEF WayKept
<1>8. ASSUME ~foreign, ~past'.reused
      PROVE  /\ MixedIsRepairable'
             /\ \E l, q \in Lineages :
                  /\ Lineage(l) /\ \A b \in past.builds : q[b] = l[b]
                  /\ Descends(q, s)' /\ Descends(q, o.mine)' /\ Knows(q, h, o)'
  <2>1. PICK l \in Lineages : Lineage(l)
    BY <1>8 DEF WayKept, Tracked
  <2>2. Descends(l, s)
    BY <1>8, <2>1
  <2>3. Descends(l, s)'
    BY <2>2, DescendsLasts
  <2>4. Knows(l, h, o)'
    BY <1>3, <1>8, <2>1
  <2>5. MixedIsRepairable'
    BY <1>8 DEF MixedIsRepairable, HasWay
  <2> QED BY <1>3, <2>1, <2>3, <2>4, <2>5
<1>9. AccountType' /\ o.pc # "idle"
  BY <1>3 DEF RunsKept
<1> QED BY ONLY RunsKept, WayKept, <1>3, <1>4, <1>5, <1>6, <1>7, <1>8, <1>9, WayStep,
       h \in Helpers, s \in Checkpoints,
       UNCHANGED <<host, coordination, d1, d1Backups, past, foreign>> DEF RowMoves

LEMMA CheckUpdateWay ==
  ASSUME RunsKept, WayKept, RunsKept', NEW h \in Helpers, Cloudflare!CheckUpdate(h)
  PROVE  WayKept'
<1>1. CASE Cloudflare!Throw(h)
  BY <1>1, ThrowWay
<1>2. CASE ~Cloudflare!Throw(h)
  <2>1. PICK q : q = cloudflareOp[h].mine
    OBVIOUS
  <2>2. PICK s : s = [[q EXCEPT !.status = "updating"]
                        EXCEPT !.previous = Cloudflare!NoPrevious]
    OBVIOUS
  <2>3. /\ Cloudflare!Owned(h) /\ q.status \in {"verified", "rolled-back"}
        /\ active = q.versions /\ active.control = q.build
        /\ Cloudflare!Write(h, s, "pause")
        /\ UNCHANGED <<host, coordination, d1, d1Schema, active, d1Backups, past, foreign>>
        /\ cloudflareOp[h].kind = "apply" /\ cloudflareOp[h].pc = "check"
    BY <1>2, <2>1, <2>2 DEF Cloudflare!CheckUpdate, Cloudflare!Checkpoint, Cloudflare!At,
       Cloudflare!Mine, Cloudflare!Status, Cloudflare!ActiveVersions, Cloudflare!remote
  <2>4. q \in Checkpoints /\ FileSound(q) /\ d1.id = q.db /\ active \in WorkerPairs
    BY <2>1, <2>3, OwnerKnows DEF RunsKept, AccountType
  <2>5. /\ s \in Checkpoints /\ s.status = "updating" /\ s.build = q.build /\ s.db = q.db
        /\ s.previous = Cloudflare!NoPrevious
    BY ONLY <2>2, <2>4, IdleRun DEF Checkpoints
  <2>6. ~foreign => active = Cloudflare!Both(q.build)
    BY <2>3, <2>4 DEF FileSound, Cloudflare!Both, WorkerPairs
  <2>7. ~foreign => active.control = active.gateway
    BY <2>6 DEF Cloudflare!Both
  <2>8. ASSUME NEW l \in Lineages, Lineage(l), ~foreign
        PROVE  /\ Descends(l, s)
               /\ \A o \in Runs :
                    /\ o.pc = "pause" /\ o.kind = cloudflareOp[h].kind
                    /\ o.target = cloudflareOp[h].target /\ o.mine = s
                    => Knows(l, h, o)'
    <3>1. Descends(l, s)
      BY <2>5 DEF Descends, Settled
    <3>2. Descends(l, q)
      BY <2>1, <2>8, LineageOf
    <3>3. q.build \in past.builds
      BY <2>3, <2>4, <3>2 DEF Descends, Settled
    <3> QED BY <2>3, <2>5, <2>6, <2>8, <3>1, <3>3 DEF Knows
  <2>9. "pause" \in RunSteps \ {"acquire", "idle"}
    BY DEF RunSteps
  <2> QED BY ONLY RunsKept, WayKept, RunsKept', h \in Helpers, <2>3, <2>5, <2>7, <2>8, <2>9,
         CheckpointWay
<1> QED BY <1>1, <1>2

LEMMA RecordBackupWay ==
  ASSUME RunsKept, WayKept, RunsKept', NEW h \in Helpers, Cloudflare!RecordBackup(h)
  PROVE  WayKept'
<1>1. CASE Cloudflare!Throw(h)
  BY <1>1, ThrowWay
<1>2. CASE ~Cloudflare!Throw(h)
  <2>1. PICK q : q = cloudflareOp[h].mine
    OBVIOUS
  <2>2. PICK b : b = [build |-> q.build, schema |-> d1Schema]
    OBVIOUS
  <2>3. PICK s : s = [q EXCEPT !.previous = b]
    OBVIOUS
  <2>4. /\ Cloudflare!Owned(h) /\ Cloudflare!Write(h, s, "recheck")
        /\ UNCHANGED <<host, coordination, d1, d1Schema, active, d1Backups, past, foreign>>
        /\ cloudflareOp[h].kind = "apply" /\ cloudflareOp[h].pc = "recorded"
    BY <1>2, <2>1, <2>2, <2>3 DEF Cloudflare!RecordBackup, Cloudflare!Checkpoint,
       Cloudflare!At, Cloudflare!Mine, Cloudflare!BackedUp, Cloudflare!remote
  <2>5. q \in Checkpoints /\ q.status = "updating" /\ q.db = d1.id /\ coordination.owner = h
    BY <2>1, <2>4, OwnerKnows DEF Began
  <2>6. b \in [build : SomeBuild, schema : Nat] /\ b.build = q.build
    BY <2>2, <2>5 DEF Checkpoints, RunsKept, AccountType
  <2>7. /\ s \in Checkpoints /\ s.status = q.status /\ s.build = q.build /\ s.db = q.db
        /\ s.previous = b
    BY ONLY <2>3, <2>5, <2>6 DEF Checkpoints
  <2>8. ASSUME NEW l \in Lineages, Lineage(l)
        PROVE  /\ active = Cloudflare!Both(q.build) /\ q.build \in past.builds
               /\ b \in d1Backups
    <3>1. Knows(l, h, cloudflareOp[h])
      BY <2>8, LineageOf
    <3> QED BY <2>1, <2>2, <2>4, <2>5, <3>1 DEF Knows
  <2>9. ~foreign /\ ~past.reused => active.control = active.gateway
    BY <2>8 DEF WayKept, Tracked, Cloudflare!Both
  <2>10. ASSUME NEW l \in Lineages, Lineage(l)
         PROVE  /\ Descends(l, s)
                /\ \A o \in Runs :
                     /\ o.pc = "recheck" /\ o.kind = cloudflareOp[h].kind
                     /\ o.target = cloudflareOp[h].target /\ o.mine = s
                     => Knows(l, h, o)'
    <3>1. Descends(l, s)
      BY <2>5, <2>6, <2>7, <2>8, <2>10 DEF Descends, Settled
    <3>2. stateFile'[host[h]] = s
      BY <2>4, RunOf DEF Cloudflare!Write, RunsKept, AccountType
    <3> QED BY <2>4, <2>5, <2>6, <2>7, <2>8, <2>10, <3>1, <3>2 DEF Knows
  <2>11. "recheck" \in RunSteps \ {"acquire", "idle"}
    BY DEF RunSteps
  <2> QED BY ONLY RunsKept, WayKept, RunsKept', h \in Helpers, <2>4, <2>7, <2>9, <2>10, <2>11,
         CheckpointWay
<1> QED BY <1>1, <1>2

LEMMA RewritesWay ==
  ASSUME RunsKept, WayKept, RunsKept', NEW h \in Helpers,
         Cloudflare!RecheckUpdate(h) \/ Cloudflare!RecordAdopt(h)
  PROVE  WayKept'
<1>1. CASE Cloudflare!Throw(h)
  BY <1>1, ThrowWay
<1>2. CASE ~Cloudflare!Throw(h)
  <2>1. PICK q : q = cloudflareOp[h].mine
    OBVIOUS
  <2>2. PICK p \in RunSteps \ {"acquire", "idle"} :
        /\ Cloudflare!Owned(h) /\ Cloudflare!Write(h, q, p)
        /\ UNCHANGED <<host, coordination, d1, d1Schema, active, d1Backups, past, foreign>>
        /\ <<cloudflareOp[h].kind, cloudflareOp[h].pc, p>> \in
             {<<"apply", "recheck", "migrate">>, <<"adopt", "record", "complete">>}
    <3>1. {"migrate", "complete"} \subseteq RunSteps \ {"acquire", "idle"}
      BY DEF RunSteps
    <3> QED BY <1>2, <2>1, <3>1 DEF Cloudflare!RecheckUpdate, Cloudflare!RecordAdopt,
       Cloudflare!Checkpoint, Cloudflare!At, Cloudflare!Mine, Cloudflare!remote
  <2>3. q \in Checkpoints /\ Works(h, cloudflareOp[h]) /\ coordination.owner = h
    BY <2>1, <2>2, OwnerKnows
  <2>4. \A l \in Lineages : Lineage(l) =>
          Descends(l, q) /\ Knows(l, h, cloudflareOp[h])
    BY <2>1, LineageOf
  <2>5. ~foreign /\ ~past.reused => active.control = active.gateway
    <3>1. CASE cloudflareOp[h].kind = "adopt"
      BY <2>2, <2>3, <3>1 DEF Works, Serves, Cloudflare!Both
    <3>2. CASE cloudflareOp[h].kind = "apply"
      BY <2>2, <2>3, <2>4, <3>2 DEF WayKept, Tracked, Knows, Cloudflare!Both
    <3> QED BY <2>2, <3>1, <3>2
  <2>6. ASSUME NEW l \in Lineages, Lineage(l), NEW o \in Runs,
               o.pc = p, o.kind = cloudflareOp[h].kind,
               o.target = cloudflareOp[h].target, o.mine = q
        PROVE  Knows(l, h, o)'
    <3>1. stateFile'[host[h]] = q
      BY <2>2, RunOf DEF Cloudflare!Write, RunsKept, AccountType
    <3> QED BY <2>1, <2>2, <2>3, <2>4, <2>6, <3>1 DEF Knows
  <2> QED BY ONLY RunsKept, WayKept, RunsKept', h \in Helpers, <2>2, <2>3, <2>4, <2>5, <2>6,
         CheckpointWay
<1> QED BY <1>1, <1>2

\* What was deployed is in the checkpoint with the build it replaced.
LEMMA FinishWay ==
  ASSUME RunsKept, WayKept, RunsKept', NEW h \in Helpers, Cloudflare!FinishDeploy(h)
  PROVE  WayKept'
<1>1. CASE Cloudflare!Throw(h)
  BY <1>1, ThrowWay
<1>2. CASE ~Cloudflare!Throw(h)
  <2>1. PICK q : q = cloudflareOp[h].mine
    OBVIOUS
  <2>2. PICK t : t = cloudflareOp[h].target
    OBVIOUS
  <2>3. PICK a : a = active
    OBVIOUS
  <2>4. PICK s : s = [[q EXCEPT !.status = "awaiting-verification"]
                        EXCEPT !.build = t, !.versions = a]
    OBVIOUS
  <2>5. /\ Cloudflare!Owned(h) /\ Cloudflare!Write(h, s, "complete")
        /\ UNCHANGED <<host, coordination, d1, d1Schema, active, d1Backups, past, foreign>>
        /\ cloudflareOp[h].kind \in {"install", "apply"} /\ cloudflareOp[h].pc = "finish"
    BY <1>2, <2>1, <2>2, <2>3, <2>4 DEF Cloudflare!FinishDeploy, Cloudflare!Checkpoint,
       Cloudflare!Mine, Cloudflare!Status, Cloudflare!remote
  <2>6. /\ q \in Checkpoints /\ t \in Builds /\ Serves(t) /\ a \in WorkerPairs
        /\ coordination.owner = h
    BY <2>1, <2>2, <2>3, <2>5, OwnerKnows DEF Began, Works, RunsKept, AccountType
  <2>7. /\ s \in Checkpoints /\ s.build = t /\ s.db = q.db /\ s.previous = q.previous
    <3>1. t \in SomeBuild
      BY <2>6 DEF SomeBuild
    <3> QED BY ONLY <2>4, <2>6, <3>1 DEF Checkpoints, Settled
  <2>8. ~foreign => active.control = active.gateway
    BY <2>6 DEF Serves, Cloudflare!Both
  <2>9. ASSUME NEW l \in Lineages, Lineage(l)
        PROVE  /\ Descends(l, s)
               /\ \A o \in Runs :
                    /\ o.pc = "complete" /\ o.kind = cloudflareOp[h].kind
                    /\ o.target = cloudflareOp[h].target /\ o.mine = s
                    => Knows(l, h, o)'
    <3>1. Descends(l, q) /\ Knows(l, h, cloudflareOp[h])
      BY <2>1, <2>9, LineageOf
    <3>2. t \in past.builds /\ l[t] = q.previous.build
      BY <2>1, <2>2, <2>5, <2>6, <3>1 DEF Knows
    <3>3. Cloudflare!NoPrevious.build = Nobody
      BY DEF Cloudflare!NoPrevious, Cloudflare!None, Nobody
    <3>4. Descends(l, s)
      BY <2>7, <3>1, <3>2, <3>3 DEF Descends
    <3> QED BY <2>5, <3>4 DEF Knows
  <2>10. "complete" \in RunSteps \ {"acquire", "idle"}
    BY DEF RunSteps
  <2> QED BY ONLY RunsKept, WayKept, RunsKept', h \in Helpers, <2>5, <2>7, <2>8, <2>9, <2>10,
         CheckpointWay
<1> QED BY <1>1, <1>2

LEMMA RecordVerifyWay ==
  ASSUME RunsKept, WayKept, RunsKept', NEW h \in Helpers, Cloudflare!RecordVerify(h)
  PROVE  WayKept'
<1>1. CASE Cloudflare!Throw(h)
  BY <1>1, ThrowWay
<1>2. CASE ~Cloudflare!Throw(h)
  <2>1. PICK q : q = cloudflareOp[h].mine
    OBVIOUS
  <2>2. PICK s : s = [q EXCEPT !.status = "verified"]
    OBVIOUS
  <2>3. /\ Cloudflare!Owned(h) /\ Cloudflare!Write(h, s, "complete")
        /\ UNCHANGED <<host, coordination, d1, d1Schema, active, d1Backups, past, foreign>>
        /\ cloudflareOp[h].kind = "verify" /\ cloudflareOp[h].pc = "record"
    BY <1>2, <2>1, <2>2 DEF Cloudflare!RecordVerify, Cloudflare!Checkpoint, Cloudflare!At,
       Cloudflare!Mine, Cloudflare!Status, Cloudflare!remote
  <2>4. q \in Checkpoints /\ q.status \in Settled /\ Serves(q.build)
    BY <2>1, <2>3, OwnerKnows DEF Began, Works
  <2>5. /\ s \in Checkpoints /\ s.build = q.build
        /\ s.db = q.db /\ s.previous = q.previous
    BY ONLY <2>2, <2>4 DEF Checkpoints, Settled
  <2>6. ASSUME NEW l \in Lineages, Lineage(l)
        PROVE  /\ Descends(l, s)
               /\ \A o \in Runs :
                    /\ o.pc = "complete" /\ o.kind = cloudflareOp[h].kind
                    /\ o.target = cloudflareOp[h].target /\ o.mine = s
                    => Knows(l, h, o)'
    <3>1. Descends(l, q)
      BY <2>1, <2>6, LineageOf
    <3> QED BY <2>3, <2>4, <2>5, <3>1 DEF Descends, Knows
  <2>7. ("complete" \in RunSteps \ {"acquire", "idle"})
        /\ (~foreign => active.control = active.gateway)
    BY <2>4 DEF RunSteps, Serves, Cloudflare!Both
  <2> QED BY ONLY RunsKept, WayKept, RunsKept', h \in Helpers, <2>3, <2>5, <2>6, <2>7,
         CheckpointWay
<1> QED BY <1>1, <1>2

LEMMA RecordRollbackWay ==
  ASSUME RunsKept, WayKept, RunsKept', NEW h \in Helpers, Cloudflare!RecordRollback(h)
  PROVE  WayKept'
<1>1. CASE Cloudflare!Throw(h)
  BY <1>1, ThrowWay
<1>2. CASE ~Cloudflare!Throw(h)
  <2>1. PICK q : q = cloudflareOp[h].mine
    OBVIOUS
  <2>2. PICK b : b = q.previous.build
    OBVIOUS
  <2>3. PICK v : v = Cloudflare!Both(b)
    OBVIOUS
  <2>4. PICK s : s = [[q EXCEPT !.status = "rolled-back"]
                        EXCEPT !.build = b, !.versions = v]
    OBVIOUS
  <2>5. /\ Cloudflare!Owned(h) /\ Cloudflare!Write(h, s, "complete") /\ active = v
        /\ UNCHANGED <<host, coordination, d1, d1Schema, active, d1Backups, past, foreign>>
        /\ cloudflareOp[h].kind = "rollback" /\ cloudflareOp[h].pc = "record"
    BY <1>2, <2>1, <2>2, <2>3, <2>4 DEF Cloudflare!RecordRollback,
       Cloudflare!Checkpoint, Cloudflare!At, Cloudflare!Mine, Cloudflare!Status,
       Cloudflare!remote
  <2>6. /\ q \in Checkpoints /\ q.previous # Cloudflare!NoPrevious /\ d1.id = q.db
    BY <2>1, <2>5, OwnerKnows DEF Began
  <2>7. v \in WorkerPairs /\ v.control = v.gateway /\ b \in SomeBuild
    BY <2>2, <2>3, <2>6 DEF Cloudflare!Both, WorkerPairs, Checkpoints
  <2>8. /\ s \in Checkpoints /\ s.build = b
        /\ s.db = q.db /\ s.previous = q.previous
    BY ONLY <2>4, <2>6, <2>7 DEF Checkpoints, Settled
  <2>9. ASSUME NEW l \in Lineages, Lineage(l)
        PROVE  /\ Descends(l, s)
               /\ \A o \in Runs :
                    /\ o.pc = "complete" /\ o.kind = cloudflareOp[h].kind
                    /\ o.target = cloudflareOp[h].target /\ o.mine = s
                    => Knows(l, h, o)'
    <3>1. Descends(l, q)
      BY <2>1, <2>9, LineageOf
    <3> QED BY <2>2, <2>5, <2>6, <2>8, <3>1 DEF Descends, Knows
  <2>10. ("complete" \in RunSteps \ {"acquire", "idle"})
         /\ active.control = active.gateway
    BY <2>5, <2>7 DEF RunSteps
  <2> QED BY ONLY RunsKept, WayKept, RunsKept', h \in Helpers, <2>5, <2>8, <2>9, <2>10,
         CheckpointWay
<1> QED BY <1>1, <1>2

LEMMA RecordCleanupWay ==
  ASSUME RunsKept, WayKept, RunsKept', NEW h \in Helpers, Cloudflare!RecordCleanup(h)
  PROVE  WayKept'
<1>1. CASE Cloudflare!Throw(h)
  BY <1>1, ThrowWay
<1>2. CASE ~Cloudflare!Throw(h)
  <2>1. PICK q : q = cloudflareOp[h].mine
    OBVIOUS
  <2>2. PICK s : s = [q EXCEPT !.status = "cleanup-database-intent"]
    OBVIOUS
  <2>3. /\ Cloudflare!Owned(h) /\ Cloudflare!Write(h, s, "database")
        /\ UNCHANGED <<host, coordination, d1, d1Schema, active, d1Backups, past, foreign>>
        /\ cloudflareOp[h].kind = "cleanup" /\ cloudflareOp[h].pc = "intent"
    BY <1>2, <2>1, <2>2 DEF Cloudflare!RecordCleanup, Cloudflare!Checkpoint,
       Cloudflare!At, Cloudflare!Mine, Cloudflare!Status, Cloudflare!remote
  <2>4. q \in Checkpoints /\ Serves(Nobody)
    BY <2>1, <2>3, OwnerKnows DEF Works
  <2>5. /\ s \in Checkpoints /\ s.status = "cleanup-database-intent"
        /\ s.build = q.build /\ s.db = q.db /\ s.previous = q.previous
    BY ONLY <2>2, <2>4 DEF Checkpoints
  <2>6. ASSUME NEW l \in Lineages, Lineage(l)
        PROVE  /\ Descends(l, s)
               /\ \A o \in Runs :
                    /\ o.pc = "database" /\ o.kind = cloudflareOp[h].kind
                    /\ o.target = cloudflareOp[h].target /\ o.mine = s
                    => Knows(l, h, o)'
    <3>1. Descends(l, q)
      BY <2>1, <2>6, LineageOf
    <3> QED BY <2>3, <2>5, <3>1 DEF Descends, Knows, Settled
  <2>7. ("database" \in RunSteps \ {"acquire", "idle"})
        /\ (~foreign => active.control = active.gateway)
    BY <2>4 DEF RunSteps, Serves, Cloudflare!Both
  <2> QED BY ONLY RunsKept, WayKept, RunsKept', h \in Helpers, <2>3, <2>5, <2>6, <2>7,
         CheckpointWay
<1> QED BY <1>1, <1>2

-----------------------------------------------------------------------------
\* A recovery begins when nobody is at work, and reads its checkpoint then.
LEMMA BeginWay ==
  ASSUME RunsKept, WayKept, RunsKept', NEW h \in Helpers, NEW t \in SomeBuild,
         NEW r \in BOOLEAN,
         NEW k \in {"install", "apply", "adopt", "verify", "rollback", "cleanup"},
         Cloudflare!Begin(h, k, t, r)
  PROVE  WayKept'
<1>1. PICK p : p = CASE k = "install" -> "create"
                     [] k = "adopt" -> "check"
                     [] OTHER -> "acquire"
  OBVIOUS
<1>2. PICK l : l = IF r THEN Cloudflare!TheLock ELSE Cloudflare!NoLock
  OBVIOUS
<1>3. PICK f : f = stateFile[host[h]]
  OBVIOUS
<1>4. f \in Checkpoints /\ f = stateFile[host[h]] /\ host[h] \in Machines
  BY <1>3, RunOf
<1>5. PICK z \in Runs : z = Cloudflare!Idle /\ z.revision = -1
  BY IdleRun, IdleWay
<1>6. PICK o : o = [z EXCEPT !.kind = k, !.target = t, !.recover = l, !.mine = f, !.pc = p]
  OBVIOUS
<1>7. /\ UNCHANGED <<host, coordination, d1, d1Schema, active, d1Backups, past, stateFile,
                     foreign>>
      /\ r => Cloudflare!Stopped
      /\ cloudflareOp[h].pc = "idle"
      /\ cloudflareOp' = [cloudflareOp EXCEPT ![h] = o]
  <2>1. [Cloudflare!Idle EXCEPT !.kind = k, !.target = t, !.recover = l, !.mine = f,
                                !.pc = p] = o
    BY <1>5, <1>6
  <2> QED BY <1>1, <1>2, <1>3, <2>1 DEF Cloudflare!Begin, Cloudflare!remote
<1>8. l \in [owner : Helpers \cup {Nobody}, revision : Int]
  BY <1>2 DEF Cloudflare!NoLock, Cloudflare!None, Nobody, Cloudflare!TheLock, RunsKept,
     AccountType
<1>9. /\ o \in Runs /\ o.kind = k /\ o.pc = p /\ o.mine = f /\ o.recover = l
      /\ o.revision = -1 /\ p \in {"create", "check", "acquire"}
  <2>1. p \in {"create", "check", "acquire"} /\ p \in RunSteps
    BY <1>1 DEF RunSteps
  <2>2. o \in Runs
    BY ONLY <1>4, <1>5, <1>6, <1>8, <2>1, t \in SomeBuild,
       k \in {"install", "apply", "adopt", "verify", "rollback", "cleanup"} DEF Runs
  <2>3. o.kind = k /\ o.pc = p /\ o.mine = f /\ o.recover = l /\ o.revision = -1
    BY ONLY <1>5, <1>6 DEF Runs
  <2> QED BY <2>1, <2>2, <2>3
<1>10. RecoversFresh(h, o)'
  <2>1. SUFFICES ASSUME r
                 PROVE  RecoversFresh(h, o)'
    BY <1>2, <1>9 DEF RecoversFresh
  <2>2. /\ l = Cloudflare!TheLock /\ coordination.owner # Nobody
        /\ coordination.is = "present" /\ coordination.revision \in Int
        /\ l.owner = coordination.owner /\ l.revision = coordination.revision
    BY <1>2, <1>7, <2>1 DEF Cloudflare!Stopped, Cloudflare!TheLock, Cloudflare!None, Nobody,
       RunsKept, AccountSound, AccountType
  <2>3. ASSUME NEW g \in Helpers
        PROVE  ~HoldsRow(g)'
    <3>1. cloudflareOp'[g].revision = -1
      <4>1. CASE g = h
        BY <1>7, <1>9, <4>1 DEF RunsKept, RunType
      <4>2. CASE g # h
        <5>1. cloudflareOp[g].pc = "idle" /\ cloudflareOp[g] \in Runs
          BY <1>7, <2>1, RunOf DEF Cloudflare!Stopped
        <5>2. cloudflareOp[g].revision = -1
          BY <5>1 DEF WayKept, RecoveriesFresh
        <5> QED BY <1>7, <4>2, <5>2 DEF RunsKept, RunType
      <4> QED BY <4>1, <4>2
    <3>2. coordination.revision >= 0
      BY DEF WayKept, RecoveriesFresh
    <3> QED BY <1>7, <2>2, <3>1, <3>2 DEF HoldsRow
  <2>4. stateFile'[host'[h]] = o.mine
    BY <1>4, <1>7, <1>9
  <2> QED BY <1>7, <1>9, <2>2, <2>3, <2>4 DEF RecoversFresh
<1>11. stateFile' = [stateFile EXCEPT ![host[h]] = f]
  BY <1>4, <1>7 DEF RunsKept, AccountType
<1>12. ASSUME ~foreign, ~past'.reused
       PROVE  /\ MixedIsRepairable'
              /\ \E a, q \in Lineages :
                   /\ Lineage(a) /\ \A b \in past.builds : q[b] = a[b]
                   /\ Descends(q, f)' /\ Descends(q, o.mine)' /\ Knows(q, h, o)'
  <2>1. PICK a \in Lineages : Lineage(a) /\ MixedIsRepairable
    BY <1>7, <1>12 DEF WayKept, Tracked
  <2>2. Descends(a, f)
    BY <1>3, <2>1, LineageOf
  <2>3. Descends(a, f)'
    BY <1>7, <2>2, DescendsLasts
  <2>4. Knows(a, h, o)'
    BY <1>9 DEF Knows
  <2>5. MixedIsRepairable'
    BY <1>7, <2>1 DEF MixedIsRepairable, HasWay
  <2> QED BY <1>9, <2>1, <2>3, <2>4, <2>5
<1>13. AccountType' /\ past' \in Pasts /\ o.pc # "idle"
  BY <1>7, <1>9 DEF RunsKept, WayKept
<1> QED BY ONLY RunsKept, WayKept, <1>4, <1>7, <1>9, <1>10, <1>11, <1>12, <1>13, WayStep,
       h \in Helpers DEF RowMoves

\* The build that a checkpoint returns to can be reached from its own build:
\* whoever finds the row free has a checkpoint of the same lineage there.
LEMMA RollbackHasWay ==
  ASSUME RunsKept, NEW l \in Lineages, Lineage(l), NEW s \in Checkpoints, Descends(l, s),
         past \in Pasts, ~foreign,
         s.previous # Cloudflare!NoPrevious, s.db = d1.id,
         coordination.is = "present", coordination.owner = Nobody,
         coordination.build = s.build
  PROVE  HasWay(active.control, s.previous.build)
<1>1. /\ s.previous.build \in {l[s.build], s.build}
      /\ s.previous.build \in Builds /\ s.build \in Builds
  BY DEF Descends, Pasts
<1>2. Nobody \notin Builds /\ Cloudflare!None = Nobody
  BY AdministrationAssumption DEF Nobody, Cloudflare!None
<1>3. active.control = s.build
  BY <1>1, <1>2 DEF RunsKept, AccountSound, Cloudflare!FreeMeansWhole,
     Cloudflare!Uncoordinated, Cloudflare!Both
<1>4. PICK m \in Machines :
        /\ stateFile[m].build = s.build /\ stateFile[m].db = d1.id
        /\ stateFile[m].status \in Settled
  BY <1>1, <1>2 DEF RunsKept, AccountSound, Cloudflare!NoDeadEnd,
     Cloudflare!Uncoordinated, Settled
<1>5. PICK f \in Checkpoints : f = stateFile[m] /\ Descends(l, f)
  BY DEF RunsKept, AccountType, Lineage
<1>6. CASE f.previous = Cloudflare!NoPrevious
  BY <1>1, <1>2, <1>3, <1>4, <1>5, <1>6 DEF Descends, HasWay
<1>7. CASE f.previous # Cloudflare!NoPrevious
  BY <1>1, <1>3, <1>4, <1>5, <1>7 DEF Descends, HasWay
<1> QED BY <1>6, <1>7

\* A row that is free, or that was left behind, is taken.
LEMMA AcquireWay ==
  ASSUME RunsKept, WayKept, RunsKept', NEW h \in Helpers, NEW next,
         cloudflareOp[h].pc = "acquire",
         <<cloudflareOp[h].kind, next>> \in FirstSteps,
         Cloudflare!Acquire(h, next)
  PROVE  WayKept'
<1>1. CASE Cloudflare!Throw(h)
  BY <1>1, ThrowWay
<1>2. CASE ~Cloudflare!Throw(h)
  <2>1. /\ Cloudflare!Acquirable(h)
        /\ coordination' = [coordination EXCEPT !.owner = h, !.revision = @ + 1]
        /\ UNCHANGED <<host, d1, d1Schema, active, d1Backups, past, stateFile, foreign>>
        /\ \/ cloudflareOp' = [cloudflareOp EXCEPT ![h].pc = next,
                                 ![h].build = coordination.build,
                                 ![h].revision = coordination.revision + 1]
           \/ cloudflareOp' = [cloudflareOp EXCEPT ![h] = Cloudflare!Idle]
    BY <1>2 DEF Cloudflare!Acquire
  <2>2. /\ coordination'.owner = h /\ coordination'.is = "present"
        /\ coordination.is = "present" /\ coordination.revision \in Int
        /\ coordination'.build = coordination.build
        /\ coordination'.revision = coordination.revision + 1
    BY <2>1 DEF Cloudflare!Acquirable, RunsKept, AccountType
  <2>3. RowMoves(h) /\ coordination' # coordination
    BY <2>2 DEF RowMoves
  <2>4. PICK q : q = cloudflareOp[h].mine
    OBVIOUS
  <2>5. /\ cloudflareOp[h] \in Runs /\ Began(cloudflareOp[h]) /\ q \in Checkpoints
        /\ host[h] \in Machines
    BY <2>4, RunOf DEF ProcessSound, Runs
  <2>6. PICK f \in Checkpoints : f = stateFile[host[h]]
    BY RunOf
  <2>7. stateFile' = [stateFile EXCEPT ![host[h]] = f]
    BY <2>1, <2>5, <2>6 DEF RunsKept, AccountType
  <2>8. PICK o : o = IF cloudflareOp' = [cloudflareOp EXCEPT ![h] = Cloudflare!Idle]
                       THEN Cloudflare!Idle
                       ELSE [cloudflareOp[h] EXCEPT !.pc = next,
                               !.build = coordination.build,
                               !.revision = coordination.revision + 1]
    OBVIOUS
  <2>9. cloudflareOp' = [cloudflareOp EXCEPT ![h] = o]
    BY <2>1, <2>8 DEF RunsKept, RunType
  <2>10. \/ o = Cloudflare!Idle
         \/ /\ o \in Runs /\ o.pc = next /\ o.kind = cloudflareOp[h].kind
            /\ o.mine = q /\ o.recover = cloudflareOp[h].recover
    <3>1. /\ coordination.build \in SomeBuild /\ coordination.revision + 1 \in Int
          /\ next \in RunSteps
      BY <2>2 DEF RunsKept, AccountType, RunSteps, FirstSteps
    <3> QED BY ONLY <2>4, <2>5, <2>8, <3>1 DEF Runs
  <2>11. /\ o \in Runs /\ (o.pc = "idle" => o.revision = -1)
         /\ RecoversFresh(h, o)'
    <3>1. CASE o = Cloudflare!Idle
      BY <3>1, IdleRun, IdleWay
    <3>2. CASE o # Cloudflare!Idle
      <4>1. next \notin {"idle", "acquire"}
        BY DEF FirstSteps
      <4>2. RecoversFresh(h, cloudflareOp[h])
        BY <2>5 DEF WayKept, RecoveriesFresh
      <4> QED BY <2>10, <3>2, <4>1, <4>2 DEF RecoversFresh
    <3> QED BY <3>1, <3>2
  <2>12. ASSUME ~foreign, ~past'.reused
         PROVE  /\ MixedIsRepairable'
                /\ \E l, k \in Lineages :
                     /\ Lineage(l) /\ \A b \in past.builds : k[b] = l[b]
                     /\ Descends(k, f)' /\ Descends(k, o.mine)' /\ Knows(k, h, o)'
    <3>1. PICK l \in Lineages : Lineage(l) /\ MixedIsRepairable
      BY <2>1, <2>12 DEF WayKept, Tracked
    <3>2. Descends(l, f) /\ Descends(l, q)
      BY <2>4, <2>6, <3>1, LineageOf
    <3>3. Descends(l, f)' /\ Descends(l, q)'
      BY <2>1, <3>2, DescendsLasts
    <3>4. MixedIsRepairable'
      BY <2>1, <2>2, <3>1 DEF MixedIsRepairable, HasWay
    <3>5. cloudflareOp[h].kind = "rollback" => HasWay(active.control, q.previous.build)
      <4>1. SUFFICES ASSUME cloudflareOp[h].kind = "rollback"
                     PROVE  HasWay(active.control, q.previous.build)
        OBVIOUS
      <4>2. /\ q.previous # Cloudflare!NoPrevious /\ d1.live /\ q.db = d1.id
        BY <2>1, <2>4, <2>5, <4>1 DEF Began, Cloudflare!Acquirable, Cloudflare!Reached,
           Cloudflare!Mine
      <4>3. CASE Cloudflare!Recovers(h)
        <5>1. /\ cloudflareOp[h].recover # Cloudflare!NoLock
              /\ cloudflareOp[h].recover = Cloudflare!TheLock
          BY <2>1, <4>3 DEF Cloudflare!Recovers, Cloudflare!Acquirable
        <5>2. RecoversFresh(h, cloudflareOp[h])
          BY <2>5 DEF WayKept, RecoveriesFresh
        <5>3. stateFile[host[h]] = q
          BY <2>4, <4>2, <5>1, <5>2 DEF RecoversFresh
        <5>4. q.previous \in d1Backups
          BY <3>2, <4>2 DEF Descends
        <5> QED BY <2>5, <4>2, <5>3, <5>4 DEF HasWay
      <4>4. CASE ~Cloudflare!Recovers(h)
        <5>1. coordination.owner = Nobody /\ coordination.build = q.build
          BY <2>1, <2>4, <4>1, <4>4 DEF Cloudflare!Acquirable, Cloudflare!ExpectedBuild,
             Cloudflare!Mine, Cloudflare!None, Nobody
        <5>2. past \in Pasts
          BY DEF WayKept
        <5> QED BY <2>2, <2>5, <2>12, <3>1, <3>2, <4>2, <5>1, <5>2, RollbackHasWay
      <4> QED BY <4>3, <4>4
    <3>6. cloudflareOp[h].kind = "install" => coordination.build = Nobody
      BY <2>1, <2>5 DEF Began, Cloudflare!Acquirable, Cloudflare!ExpectedBuild,
         Cloudflare!Recovers, Cloudflare!None, Nobody
    <3>7. Descends(l, o.mine)' /\ Knows(l, h, o)'
      <4>1. CASE o = Cloudflare!Idle
        BY <4>1, IdleWay
      <4>2. CASE o # Cloudflare!Idle
        <5>1. /\ o.pc = next /\ o.kind = cloudflareOp[h].kind /\ o.mine = q
          BY <2>10, <4>2
        <5>2. HasWay(active.control, q.previous.build) =>
                HasWay(active.control, q.previous.build)'
          BY <2>1 DEF HasWay
        <5>3. Knows(l, h, o)'
          BY <2>1, <2>2, <3>5, <3>6, <5>1, <5>2 DEF Knows, FirstSteps
        <5> QED BY <3>3, <5>1, <5>3
      <4> QED BY <4>1, <4>2
    <3> QED BY <3>1, <3>3, <3>4, <3>7
  <2>13. AccountType' /\ past' \in Pasts
    BY <2>1 DEF RunsKept, WayKept
  <2> QED BY ONLY RunsKept, WayKept, <2>1, <2>3, <2>6, <2>7, <2>9, <2>11, <2>12, <2>13, WayStep,
         h \in Helpers
<1> QED BY <1>1, <1>2

\* A new row is free and stands for what the adoption has checked.
LEMMA FirstRowWay ==
  ASSUME RunsKept, WayKept, RunsKept', NEW h \in Helpers,
         Cloudflare!CreateTable(h) \/ Cloudflare!InsertRow(h)
  PROVE  WayKept'
<1>1. CASE Cloudflare!Throw(h)
  BY <1>1, ThrowWay
<1>2. CASE ~Cloudflare!Throw(h)
  <2>1. /\ cloudflareOp[h] \in Runs /\ ProcessSound(h, cloudflareOp[h])
        /\ host[h] \in Machines
    BY RunOf
  <2>2. PICK f \in Checkpoints : f = stateFile[host[h]]
    BY RunOf
  <2>3. PICK p \in {"insert", "acquire"} :
          /\ Cloudflare!Goto(h, p) /\ cloudflareOp[h].kind \in {"install", "adopt"}
          /\ UNCHANGED <<host, d1, d1Schema, active, d1Backups, past, stateFile, foreign>>
          /\ IF p = "insert"
               THEN /\ coordination.is = "absent"
                    /\ coordination' = [coordination EXCEPT !.is = "empty"]
               ELSE /\ cloudflareOp[h].pc = "insert"
                    /\ coordination' = Cloudflare!Free(
                         IF cloudflareOp[h].kind = "install" THEN Nobody
                         ELSE cloudflareOp[h].mine.build)
    BY <1>2 DEF Cloudflare!CreateTable, Cloudflare!InsertRow, Cloudflare!Mine,
       Cloudflare!None, Nobody
  <2>4. PICK b \in SomeBuild : b = IF cloudflareOp[h].kind = "install" THEN Nobody
                                   ELSE cloudflareOp[h].mine.build
    BY <2>1 DEF Runs, Checkpoints, SomeBuild
  <2>5. /\ coordination.is # "present" /\ coordination'.owner = Nobody
        /\ coordination'.revision >= 0 /\ coordination' # coordination
        /\ coordination'.is = "present" => p = "acquire" /\ coordination'.build = b
    <3>1. CASE p = "insert"
      BY <2>3, <3>1 DEF RunsKept, AccountType, AccountSound, WayKept, RecoveriesFresh
    <3>2. CASE p = "acquire"
      <4>1. coordination.is = "empty"
        BY <2>1, <2>3, <3>2 DEF ProcessSound, Adopts
      <4>2. coordination' = Cloudflare!Free(b) /\ 0 \in Int
        BY <2>3, <2>4, <3>2
      <4>3. coordination' = [is |-> "present", owner |-> Nobody, build |-> b,
                             revision |-> 0]
        BY <4>2, Rows
      <4> QED BY <3>2, <4>1, <4>3
    <3> QED BY <3>1, <3>2
  <2>6. PICK o : o = [cloudflareOp[h] EXCEPT !.pc = p]
    OBVIOUS
  <2>7. /\ o \in Runs /\ o.pc = p /\ o.kind = cloudflareOp[h].kind
        /\ o.mine = cloudflareOp[h].mine /\ o.recover = cloudflareOp[h].recover
    <3>1. p \in RunSteps
      BY DEF RunSteps
    <3> QED BY ONLY <2>1, <2>6, <3>1 DEF Runs
  <2>8. cloudflareOp' = [cloudflareOp EXCEPT ![h] = o]
    BY <2>3, <2>6, RunOf DEF Cloudflare!Goto
  <2>9. RecoversFresh(h, o)'
    BY <2>1, <2>3, <2>7 DEF ProcessSound, Began, RecoversFresh
  <2>10. stateFile' = [stateFile EXCEPT ![host[h]] = f]
    BY <2>1, <2>2, <2>3 DEF RunsKept, AccountType
  <2>11. ASSUME ~foreign, ~past'.reused
         PROVE  /\ MixedIsRepairable'
                /\ \E l, k \in Lineages :
                     /\ Lineage(l) /\ \A a \in past.builds : k[a] = l[a]
                     /\ Descends(k, f)' /\ Descends(k, o.mine)' /\ Knows(k, h, o)'
    <3>1. PICK l \in Lineages : Lineage(l)
      BY <2>3, <2>11 DEF WayKept, Tracked
    <3>2. Descends(l, f) /\ Descends(l, o.mine)
      BY <2>2, <2>7, <3>1, LineageOf
    <3>3. Descends(l, f)' /\ Descends(l, o.mine)'
      BY <2>3, <3>2, DescendsLasts
    <3>4. h # Nobody
      BY AdministrationAssumption DEF Nobody
    <3>5. Knows(l, h, o)'
      BY <2>5, <3>4 DEF Knows
    <3>6. MixedIsRepairable'
      <4>1. SUFFICES ASSUME coordination'.is = "present", coordination'.build # Nobody
                     PROVE  active.control = active.gateway
        BY <2>3 DEF MixedIsRepairable, HasWay
      <4>2. cloudflareOp[h].kind = "adopt" /\ cloudflareOp[h].pc = "insert"
        BY <2>3, <2>4, <2>5, <4>1
      <4> QED BY <2>1, <2>11, <4>2 DEF ProcessSound, Adopts, Serves, Cloudflare!Both
    <3> QED BY <3>1, <3>3, <3>5, <3>6
  <2>12. AccountType' /\ past' \in Pasts /\ o.pc # "idle"
    BY <2>3, <2>7 DEF RunsKept, WayKept
  <2> QED BY ONLY RunsKept, WayKept, <2>2, <2>3, <2>5, <2>7, <2>8, <2>9, <2>10, <2>11, <2>12,
         WayStep, h \in Helpers DEF RowMoves
<1> QED BY <1>1, <1>2

LEMMA CompleteWay ==
  ASSUME RunsKept, WayKept, RunsKept', NEW h \in Helpers, Cloudflare!Complete(h)
  PROVE  WayKept'
<1>1. CASE Cloudflare!Throw(h)
  BY <1>1, ThrowWay
<1>2. CASE ~Cloudflare!Throw(h)
  <2>1. cloudflareOp[h] \in Runs /\ host[h] \in Machines
    BY RunOf
  <2>2. PICK b \in SomeBuild : b = cloudflareOp[h].mine.build
    BY <2>1 DEF Runs, Checkpoints
  <2>3. PICK n \in Int : n = coordination.revision + 1
    BY DEF RunsKept, AccountType
  <2>4. PICK f \in Checkpoints : f = stateFile[host[h]]
    BY RunOf
  <2>5. PICK o \in Runs : o = Cloudflare!Idle
    BY IdleRun
  <2>6. /\ Cloudflare!Owned(h) /\ cloudflareOp[h].pc = "complete"
        /\ coordination' = [is |-> "present", owner |-> Nobody, build |-> b,
                            revision |-> n]
        /\ cloudflareOp' = [cloudflareOp EXCEPT ![h] = o]
        /\ UNCHANGED <<host, d1, d1Schema, active, d1Backups, past, stateFile, foreign>>
    BY <1>2, <2>2, <2>3, <2>5, Rows DEF Cloudflare!Complete, Cloudflare!Mine
  <2>7. /\ coordination.owner = h /\ h # Nobody /\ coordination.is = "present"
        /\ Serves(b) /\ HoldsRow(h)
    BY <2>2, <2>6, OwnerKnows, OwnerHolds DEF Works
  <2>8. RowMoves(h) /\ coordination' # coordination
    BY <2>3, <2>6, <2>7 DEF RowMoves, RunsKept, AccountType
  <2>9. stateFile' = [stateFile EXCEPT ![host[h]] = f]
    BY <2>1, <2>4, <2>6 DEF RunsKept, AccountType
  <2>10. /\ o.pc = "idle" /\ o.revision = -1 /\ RecoversFresh(h, o)'
         /\ \A k : Descends(k, o.mine)' /\ Knows(k, h, o)'
    BY <2>5, IdleRun, IdleWay
  <2>11. ASSUME ~foreign, ~past'.reused
         PROVE  /\ MixedIsRepairable'
                /\ \E l, k \in Lineages :
                     /\ Lineage(l) /\ \A a \in past.builds : k[a] = l[a]
                     /\ Descends(k, f)' /\ Descends(k, o.mine)' /\ Knows(k, h, o)'
    <3>1. PICK l \in Lineages : Lineage(l)
      BY <2>6, <2>11 DEF WayKept, Tracked
    <3>2. Descends(l, f)
      BY <2>4, <3>1, LineageOf
    <3>3. Descends(l, f)'
      BY <2>6, <3>2, DescendsLasts
    <3>4. MixedIsRepairable'
      BY <2>6, <2>7, <2>11 DEF MixedIsRepairable, HasWay, Serves, Cloudflare!Both
    <3> QED BY <2>10, <3>1, <3>3, <3>4
  <2>12. AccountType' /\ past' \in Pasts
    BY <2>6 DEF RunsKept, WayKept
  <2> QED BY ONLY RunsKept, WayKept, <2>4, <2>5, <2>6, <2>7, <2>8, <2>9, <2>10, <2>11, <2>12,
         WayStep, h \in Helpers
<1> QED BY <1>1, <1>2

\* A new database starts a new history: only its own checkpoint names it.
LEMMA CreateDatabaseWay ==
  ASSUME RunsKept, WayKept, RunsKept', NEW h \in Helpers, Cloudflare!CreateDatabase(h)
  PROVE  WayKept'
<1>1. CASE Cloudflare!Throw(h)
  BY <1>1, ThrowWay
<1>2. CASE ~Cloudflare!Throw(h)
  <2>1. cloudflareOp[h] \in Runs /\ ProcessSound(h, cloudflareOp[h]) /\ host[h] \in Machines
    BY RunOf
  <2>2. PICK z \in Checkpoints : z = Cloudflare!NoState
    BY IdleRun
  <2>3. PICK n \in Nat : n = d1.id + 1
    BY DEF RunsKept, AccountType
  <2>4. PICK t \in SomeBuild : t = cloudflareOp[h].target
    BY <2>1 DEF Runs
  <2>5. PICK s : s = [z EXCEPT !.status = "provisioning", !.build = t, !.db = n]
    OBVIOUS
  <2>6. /\ cloudflareOp[h].kind = "install" /\ ~d1.live
        /\ d1' = [id |-> n, live |-> TRUE]
        /\ Cloudflare!Write(h, s, "initialize") /\ past' = Cloudflare!NoPast
        /\ UNCHANGED <<host, coordination, active, foreign>>
    BY <1>2, <2>2, <2>3, <2>4, <2>5 DEF Cloudflare!CreateDatabase, Cloudflare!At
  <2>7. /\ s \in Checkpoints /\ s.status = "provisioning"
        /\ s.previous = Cloudflare!NoPrevious
    BY ONLY <2>2, <2>3, <2>4, <2>5, IdleRun DEF Checkpoints
  <2>8. PICK o : o = [cloudflareOp[h] EXCEPT !.mine = s, !.pc = "initialize"]
    OBVIOUS
  <2>9. /\ o \in Runs /\ o.pc = "initialize" /\ o.mine = s
        /\ o.recover = Cloudflare!NoLock
    <3>1. cloudflareOp[h].recover = Cloudflare!NoLock
      BY <2>1, <2>6 DEF ProcessSound, Began
    <3> QED BY ONLY <2>1, <2>7, <2>8, <3>1 DEF Runs, RunSteps
  <2>10. /\ cloudflareOp' = [cloudflareOp EXCEPT ![h] = o]
         /\ stateFile' = [stateFile EXCEPT ![host[h]] = s]
    BY <2>6, <2>8 DEF Cloudflare!Write, RunsKept, RunType
  <2>11. /\ d1'.id = d1.id + 1 /\ d1.id \in Nat /\ coordination.is = "absent"
         /\ coordination.owner = Nobody
    BY <2>3, <2>6 DEF RunsKept, AccountType, AccountSound
  <2>12. past' \in Pasts
    BY <2>6 DEF Cloudflare!NoPast, Pasts
  <2>13. \A f \in Checkpoints : FileSound(f) => f.db # d1'.id
    BY <2>11 DEF FileSound, Checkpoints
  <2>14. RecoveriesFresh'
    <3> SUFFICES ASSUME NEW g \in Helpers, NEW r \in Runs, cloudflareOp'[g] = r
                 PROVE  RecoversFresh(g, r)' /\ (r.pc = "idle" => r.revision = -1)
      BY <2>6 DEF RecoveriesFresh, WayKept
    <3>1. CASE g = h
      <4>1. r = o
        BY <2>10, <3>1 DEF RunsKept, RunType
      <4> QED BY <2>9, <4>1 DEF RecoversFresh
    <3>2. CASE g # h
      <4>1. r = cloudflareOp[g]
        BY <2>10, <3>2 DEF RunsKept, RunType
      <4>2. /\ RecoversFresh(g, r) /\ (r.pc = "idle" => r.revision = -1)
        BY <4>1 DEF WayKept, RecoveriesFresh
      <4>3. r.mine.db # d1'.id
        <5>1. FileSound(r.mine) /\ r.mine \in Checkpoints
          BY <4>1, RunOf DEF ProcessSound, Runs
        <5> QED BY <2>13, <5>1
      <4> QED BY <4>2, <4>3 DEF RecoversFresh
    <3> QED BY <3>1, <3>2
  <2>15. PICK p : p = [b \in Builds |-> Nobody]
    OBVIOUS
  <2>16. p \in Lineages
    BY <2>15 DEF Lineages, SomeBuild
  <2>17. \A f \in Checkpoints : FileSound(f) => Descends(p, f)'
    BY <2>13 DEF Descends
  <2>18. Descends(p, s)'
    BY <2>7 DEF Descends, Settled
  <2>19. Lineage(p)'
    <3>1. ASSUME NEW f \in Checkpoints, NEW m \in Machines, stateFile'[m] = f
          PROVE  Descends(p, f)'
      <4>1. CASE m = host[h]
        BY <2>10, <2>18, <3>1, <4>1 DEF RunsKept, AccountType
      <4>2. CASE m # host[h]
        <5>1. f = stateFile[m] /\ FileSound(f)
          BY <2>10, <3>1, <4>2 DEF RunsKept, AccountType, AccountSound
        <5> QED BY <2>17, <5>1
      <4> QED BY <4>1, <4>2
    <3>2. ASSUME NEW g \in Helpers, NEW r \in Runs, cloudflareOp'[g] = r
          PROVE  Descends(p, r.mine)' /\ Knows(p, g, r)'
      <4>1. g # Nobody
        BY AdministrationAssumption DEF Nobody
      <4>2. Knows(p, g, r)'
        BY <2>6, <2>11, <4>1 DEF Knows
      <4>3. CASE g = h
        BY <2>9, <2>10, <2>18, <3>2, <4>2, <4>3 DEF RunsKept, RunType
      <4>4. CASE g # h
        <5>1. r = cloudflareOp[g]
          BY <2>10, <3>2, <4>4 DEF RunsKept, RunType
        <5>2. FileSound(r.mine) /\ r.mine \in Checkpoints
          BY <5>1, RunOf DEF ProcessSound, Runs
        <5> QED BY <2>17, <4>2, <5>2
      <4> QED BY <4>3, <4>4
    <3> QED BY <3>1, <3>2 DEF Lineage
  <2>20. MixedIsRepairable'
    BY <2>6, <2>11 DEF MixedIsRepairable
  <2>21. Tracked'
    BY <2>16, <2>19, <2>20 DEF Tracked, Lineages
  <2> QED BY <2>12, <2>14, <2>21 DEF WayKept
<1> QED BY <1>1, <1>2

LEMMA DeleteDatabaseWay ==
  ASSUME RunsKept, WayKept, RunsKept', NEW h \in Helpers, Cloudflare!DeleteDatabase(h)
  PROVE  WayKept'
<1>1. CASE Cloudflare!Throw(h)
  BY <1>1, ThrowWay
<1>2. CASE ~Cloudflare!Throw(h)
  <2>1. /\ stateFile[host[h]] \in Checkpoints /\ host[h] \in Machines
        /\ stateFile \in [Machines -> Checkpoints] /\ cloudflareOp \in [Helpers -> Runs]
    BY RunOf DEF RunsKept, RunType, AccountType
  <2>2. PICK u : u = IF active = Cloudflare!Both(Cloudflare!None) THEN "cleanup-verified"
                     ELSE stateFile[host[h]].status
    OBVIOUS
  <2>3. /\ coordination' = Cloudflare!NoRow /\ d1' = [d1 EXCEPT !.live = FALSE]
        /\ stateFile' = [stateFile EXCEPT ![host[h]].status = u]
        /\ cloudflareOp' = [cloudflareOp EXCEPT ![h] = Cloudflare!Idle]
        /\ UNCHANGED <<host, active, d1Backups, past, foreign>>
    BY <1>2, <2>1, <2>2 DEF Cloudflare!DeleteDatabase
  <2>4. /\ coordination'.is = "absent" /\ coordination'.owner = Nobody
        /\ coordination'.revision = 0
    <3>1. 0 \in Int /\ Nobody \in SomeBuild
      BY DEF SomeBuild
    <3>2. coordination' = [is |-> "absent", owner |-> Nobody, build |-> Nobody,
                           revision |-> 0]
      BY <2>3, <3>1, Rows
    <3> QED BY <3>2
  <2>5. d1'.live = FALSE /\ d1'.id = d1.id
    BY <2>3 DEF RunsKept, AccountType
  <2>6. PICK o \in Runs : o = Cloudflare!Idle /\ o.pc = "idle" /\ o.revision = -1
    BY IdleRun, IdleWay
  <2>7. RecoveriesFresh'
    <3> SUFFICES ASSUME NEW g \in Helpers, NEW r \in Runs, cloudflareOp'[g] = r
                 PROVE  RecoversFresh(g, r)' /\ (r.pc = "idle" => r.revision = -1)
      BY <2>4 DEF RecoveriesFresh
    <3>1. CASE g = h
      <4>1. r = Cloudflare!Idle
        BY <2>1, <2>3, <3>1
      <4> QED BY <2>6, <3>1, <4>1, IdleWay
    <3>2. CASE g # h
      <4>1. r = cloudflareOp[g]
        BY <2>1, <2>3, <3>2
      <4>2. /\ RecoversFresh(g, r) /\ (r.pc = "idle" => r.revision = -1)
        BY <4>1 DEF WayKept, RecoveriesFresh
      <4> QED BY <2>5, <4>2 DEF RecoversFresh
    <3> QED BY <3>1, <3>2
  <2>8. ASSUME ~foreign, ~past.reused
        PROVE  Tracked'
    <3>1. PICK l \in Lineages : Lineage(l)
      BY <2>8 DEF WayKept, Tracked
    <3>2. ASSUME NEW f \in Checkpoints, NEW m \in Machines, stateFile'[m] = f
          PROVE  Descends(l, f)'
      <4>1. PICK g \in Checkpoints : g = stateFile[m] /\ Descends(l, g)
        BY <2>1, <3>1 DEF Lineage
      <4>2. /\ f.db = g.db /\ f.previous = g.previous /\ f.build = g.build
            /\ f.status \in {g.status, "cleanup-verified"}
        <5>1. CASE m = host[h]
          <6>1. f = [g EXCEPT !.status = u]
            BY <2>1, <2>3, <3>2, <4>1, <5>1
          <6>2. u \in {g.status, "cleanup-verified"}
            BY <2>2, <4>1, <5>1
          <6> QED BY <4>1, <6>1, <6>2 DEF Checkpoints
        <5>2. CASE m # host[h]
          BY <2>1, <2>3, <3>2, <4>1, <5>2
        <5> QED BY <5>1, <5>2
      <4> QED BY <2>3, <2>5, <4>1, <4>2 DEF Descends, Settled
    <3>3. ASSUME NEW g \in Helpers, NEW r \in Runs, cloudflareOp'[g] = r
          PROVE  Descends(l, r.mine)' /\ Knows(l, g, r)'
      <4>1. g # Nobody
        BY AdministrationAssumption DEF Nobody
      <4>2. Knows(l, g, r)'
        BY <2>4, <4>1 DEF Knows
      <4>3. CASE g = h
        BY <2>1, <2>3, <3>3, <4>2, <4>3, IdleWay
      <4>4. CASE g # h
        <5>1. r = cloudflareOp[g]
          BY <2>1, <2>3, <3>3, <4>4
        <5>2. Descends(l, r.mine)
          BY <3>1, <5>1, LineageOf
        <5> QED BY <2>3, <2>5, <4>2, <5>2 DEF Descends
      <4> QED BY <4>3, <4>4
    <3>4. Lineage(l)' /\ MixedIsRepairable'
      BY <2>4, <3>2, <3>3 DEF Lineage, MixedIsRepairable
    <3> QED BY <3>4 DEF Tracked, Lineages
  <2> QED BY <2>3, <2>7, <2>8 DEF WayKept
<1> QED BY <1>1, <1>2

LEMMA WayStutters ==
  ASSUME WayKept,
         UNCHANGED <<host, coordination, d1, d1Schema, d1Backups, stateFile, cloudflareOp,
                     past>>,
         foreign' \/ UNCHANGED <<active, foreign>>
  PROVE  WayKept'
<1>1. RecoveriesFresh'
  BY DEF WayKept, RecoveriesFresh, RecoversFresh, HoldsRow, Cloudflare!TheLock
<1>2. foreign' \/ (Tracked => Tracked')
  BY DEF Tracked, Lineages, Lineage, MixedIsRepairable, HasWay, Descends, Knows
<1> QED BY <1>1, <1>2 DEF WayKept

LEMMA WayNext ==
  ASSUME RunsKept, WayKept, RunsKept', Cloudflare!Next
  PROVE  WayKept'
<1>1. ASSUME NEW h \in Helpers,
             \/ \E b \in Builds, k \in {"install", "apply"} :
                  Cloudflare!Begin(h, k, b, FALSE)
             \/ Cloudflare!Begin(h, "adopt", Cloudflare!None, FALSE)
             \/ \E k \in Cloudflare!Kinds, r \in BOOLEAN :
                  Cloudflare!Begin(h, k, Cloudflare!None, r)
      PROVE  WayKept'
  <2>1. Builds \subseteq SomeBuild /\ Cloudflare!None \in SomeBuild
    BY DEF SomeBuild, Cloudflare!None, Nobody
  <2> QED BY <1>1, <2>1, BeginWay DEF Cloudflare!Kinds
<1>2. ASSUME NEW h \in Helpers, Cloudflare!Guarded(h) \/ Cloudflare!AcquireFirst(h)
      PROVE  WayKept'
  <2>1. PICK next : /\ cloudflareOp[h].pc = "acquire" /\ Cloudflare!Acquire(h, next)
                    /\ <<cloudflareOp[h].kind, next>> \in FirstSteps
    BY <1>2 DEF Cloudflare!Guarded, Cloudflare!AcquireFirst, Cloudflare!Kinds, FirstSteps
  <2> QED BY <2>1, AcquireWay
<1>3. ASSUME NEW h \in Helpers,
             \/ Cloudflare!CreateDatabase(h)
             \/ Cloudflare!CreateTable(h) \/ Cloudflare!InsertRow(h)
             \/ Cloudflare!Complete(h)
             \/ Cloudflare!Apply(h) \/ Cloudflare!Verify(h) \/ Cloudflare!Rollback(h)
             \/ Cloudflare!Cleanup(h) \/ Cloudflare!Adopt(h) \/ Cloudflare!Crash(h)
      PROVE  WayKept'
  <2>1. CASE Cloudflare!Apply(h)
    BY <2>1, CheckUpdateWay, PausesWay, BackupWay, RecordBackupWay, RewritesWay,
       MigrateWay, DeployControlWay, DeployGatewayWay, FinishWay DEF Cloudflare!Apply
  <2>2. CASE Cloudflare!Verify(h)
    BY <2>2, PausesWay, RecordVerifyWay DEF Cloudflare!Verify
  <2>3. CASE Cloudflare!Rollback(h)
    BY <2>3, PausesWay, RollbackWay, RecordRollbackWay DEF Cloudflare!Rollback
  <2>4. CASE Cloudflare!Cleanup(h)
    BY <2>4, DeleteWay, RecordCleanupWay, DeleteDatabaseWay DEF Cloudflare!Cleanup
  <2>5. CASE Cloudflare!Adopt(h)
    BY <2>5, PausesWay, RewritesWay DEF Cloudflare!Adopt
  <2> QED BY <1>3, <2>1, <2>2, <2>3, <2>4, <2>5, CreateDatabaseWay, FirstRowWay,
         CompleteWay, ThrowWay
<1>4. CASE \E w \in {"control", "gateway"}, b \in Builds : Cloudflare!OutOfBand(w, b)
  BY <1>4, WayStutters DEF Cloudflare!OutOfBand
<1>5. CASE Cloudflare!Administer
  BY <1>5, WayStutters DEF Cloudflare!Administer
<1> QED BY <1>1, <1>2, <1>3, <1>4, <1>5 DEF Cloudflare!Next

\* Nothing deployed before has a predecessor.
LEMMA WayStart == RunsKept /\ Cloudflare!Init => WayKept
<1> SUFFICES ASSUME RunsKept, Cloudflare!Init
             PROVE  WayKept
  OBVIOUS
<1>1. /\ cloudflareOp = [h \in Helpers |-> Cloudflare!Idle] /\ past.reused = FALSE
  BY DEF Cloudflare!Init, Cloudflare!NoPast
<1>2. PICK o \in Runs : /\ o = Cloudflare!Idle /\ o.pc = "idle" /\ o.revision = -1
                        /\ o.kind = "none" /\ o.mine.previous = Cloudflare!NoPrevious
                        /\ o.mine.status = "none" /\ o.recover = Cloudflare!NoLock
  <2>1. Cloudflare!Idle.revision = -1
    BY DEF Cloudflare!Idle
  <2> QED BY <2>1, IdleRun
<1>3. PICK p : p = [b \in Builds |-> Nobody]
  OBVIOUS
<1>4. p \in Lineages
  BY <1>3 DEF Lineages, SomeBuild
<1>5. /\ past \in Pasts /\ coordination.revision = 0 /\ active.control = active.gateway
      /\ \A m \in Machines :
           /\ stateFile[m].previous = Cloudflare!NoPrevious
           /\ stateFile[m].status \in Settled => stateFile[m].build \in past.builds
  <2>1. Cloudflare!NoRow.revision = 0
        /\ \A b \in Builds : Cloudflare!Free(b).revision = 0
    <3>1. 0 \in Int /\ Nobody \in SomeBuild /\ Builds \subseteq SomeBuild
      BY DEF SomeBuild
    <3>2. Cloudflare!NoRow
            = [is |-> "absent", owner |-> Nobody, build |-> Nobody, revision |-> 0]
      BY <3>1, Rows
    <3>3. ASSUME NEW b \in Builds
          PROVE  Cloudflare!Free(b).revision = 0
      <4>1. Cloudflare!Free(b)
              = [is |-> "present", owner |-> Nobody, build |-> b, revision |-> 0]
        BY <3>1, Rows
      <4> QED BY <4>1
    <3> QED BY <3>2, <3>3
  <2>2. \A b : Cloudflare!Both(b).control = Cloudflare!Both(b).gateway
    BY DEF Cloudflare!Both
  <2>3. CASE /\ active = Cloudflare!Both(Cloudflare!None)
             /\ coordination = Cloudflare!NoRow
             /\ stateFile = [m \in Machines |-> Cloudflare!NoState]
             /\ past = Cloudflare!NoPast
    BY <2>1, <2>2, <2>3, IdleRun DEF Cloudflare!NoPast, Pasts, Settled
  <2>4. ASSUME NEW b \in Builds,
               active = Cloudflare!Both(b),
               coordination \in {Cloudflare!NoRow, Cloudflare!Free(b)},
               stateFile = [m \in Machines |-> Cloudflare!Deployed(b)],
               past = [Cloudflare!NoPast EXCEPT !.builds = {b}]
        PROVE  /\ past \in Pasts /\ coordination.revision = 0
               /\ active.control = active.gateway
               /\ \A m \in Machines :
                    /\ stateFile[m].previous = Cloudflare!NoPrevious
                    /\ stateFile[m].status \in Settled =>
                         stateFile[m].build \in past.builds
    <3>1. past = [builds |-> {b}, reused |-> FALSE]
      BY <2>4 DEF Cloudflare!NoPast
    <3>2. past \in Pasts /\ b \in past.builds
      BY <3>1 DEF Pasts
    <3>3. coordination.revision = 0
      BY <2>1, <2>4
    <3>4. active.control = active.gateway
      BY <2>2, <2>4
    <3>5. \A m \in Machines :
            /\ stateFile[m].previous = Cloudflare!NoPrevious /\ stateFile[m].build = b
      BY <2>4, DeployedFile
    <3> QED BY <3>2, <3>3, <3>4, <3>5
  <2> QED BY <2>3, <2>4 DEF Cloudflare!Init
<1>6. RecoveriesFresh
  BY <1>1, <1>2, <1>5 DEF RecoveriesFresh, RecoversFresh
<1>7. Lineage(p)
  <2>1. \A s \in Checkpoints, m \in Machines : stateFile[m] = s => Descends(p, s)
    <3> SUFFICES ASSUME NEW s \in Checkpoints, NEW m \in Machines, stateFile[m] = s
                 PROVE  Descends(p, s)
      OBVIOUS
    <3>1. past.builds \subseteq Builds
      BY <1>5 DEF Pasts
    <3> QED BY <1>3, <1>5, <3>1 DEF Descends
  <2>2. \A h \in Helpers, r \in Runs : cloudflareOp[h] = r =>
          Descends(p, r.mine) /\ Knows(p, h, r)
    BY <1>1, <1>2 DEF Descends, Knows, Settled
  <2> QED BY <2>1, <2>2 DEF Lineage
<1>8. MixedIsRepairable
  BY <1>5 DEF MixedIsRepairable, HasWay
<1> QED BY <1>4, <1>5, <1>6, <1>7, <1>8 DEF WayKept, Tracked

LEMMA WayInvariant == AdministrationSpec => [](RunsInv /\ WayInv)
<1>1. AdministrationInit => RunsInv /\ WayInv
  <2>1. AdministrationInit /\ subject = "cloudflare" => Cloudflare!Init
    BY DEF AdministrationInit, ConfigurationsInit
  <2> QED BY <2>1, RunsStart, WayStart DEF RunsInv, WayInv
<1>2. RunsInv /\ RunsInv' /\ WayInv /\ [AdministrationNext]_administrationVars => WayInv'
  <2> SUFFICES ASSUME RunsInv, RunsInv', WayInv, [AdministrationNext]_administrationVars,
                      subject' = "cloudflare"
               PROVE  WayKept'
    BY DEF WayInv
  <2>1. subject = "cloudflare" /\ (Cloudflare!Next \/ UNCHANGED cloudflareVars)
    BY DEF AdministrationNext, administrationVars, ConfigurationsNext, NodeNext,
           CloudflareNext, SupabaseNext, ConsoleNext
  <2>2. RunsKept /\ RunsKept' /\ WayKept
    BY <2>1 DEF RunsInv, WayInv
  <2> QED BY <2>1, <2>2, WayNext, WayStutters DEF cloudflareVars
<1> QED BY <1>1, <1>2, RunsInvariant, PTL DEF AdministrationSpec

(* Cloudflare: as long as build identifiers are not reused, an update or a  *)
(* rollback that was interrupted, recovered by another operator and         *)
(* interrupted again leaves a checkpoint that names one of the two builds   *)
(* then deployed, with its backup.                                          *)
THEOREM MixedHasWayBackHolds == AdministrationSpec => []MixedHasWayBack
<1>1. RunsInv /\ WayInv => MixedHasWayBack
  BY DEF WayInv, WayKept, Tracked, MixedIsRepairable, HasWay, MixedHasWayBack,
     Cloudflare!MixedHasWayBack, Cloudflare!Uncoordinated, Cloudflare!None, Nobody
<1> QED BY <1>1, WayInvariant, PTL

(* Cloudflare: whatever was interrupted, and by whomever it was recovered,  *)
(* some operation still leads to a whole deployment.                        *)
THEOREM CloudflareHasWayBackHolds == AdministrationSpec => []CloudflareHasWayBack
<1>1. FreeMeansWhole /\ MixedHasWayBack /\ NoDeadEnd /\ DatabaseOutlivesWorkers =>
        CloudflareHasWayBack
  BY DEF CloudflareHasWayBack
<1> QED BY <1>1, FreeMeansWholeHolds, MixedHasWayBackHolds, NoDeadEndHolds,
       DatabaseOutlivesWorkersHolds, PTL
=============================================================================
