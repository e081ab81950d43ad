------------------------ MODULE AdministrationProofs ------------------------
(***************************************************************************)
(* Proofs about what administrators run against an instance                *)
(* (MCAdministration), for every set of administrators, tabs, calls,       *)
(* profiles and helpers and for every bound.  A behaviour is about one     *)
(* subject; the invariant of a part says that the part keeps its promise   *)
(* when it is the subject, and lies still when it is not.                  *)
(***************************************************************************)
EXTENDS MCAdministration, Integers, TLAPS

-----------------------------------------------------------------------------
(* The configuration of the Cloudflare adapter: no change is lost, and the *)
(* routes implement SharedConfiguration.  The batch compares versions, the *)
(* properties speak of contents.  What joins them is that a version        *)
(* carries the revision of its row, and that a revision is never reused: a *)
(* fetched row that has the revision in force is the row in force.         *)

CloudflareVersions == Nat \X Nat \X Policies

CloudflareRows ==
  [policy : Policies, paused : BOOLEAN, revision : Nat, version : CloudflareVersions]

CloudflareTypeInv ==
  /\ row \in CloudflareRows
  /\ seen \in [Clients -> CloudflareRows]
  /\ pc \in [Clients -> {"idle", "insert", "selectAgain", "batch"}]
  /\ loc \in [Clients -> [at : Nat, expected : CloudflareVersions,
                          next : CloudflareRows]]
  /\ ledger \in Seq([after : CloudflareVersions,
                     seen : [policy : Policies, paused : BOOLEAN],
                     replaced : [policy : Policies, paused : BOOLEAN]])
  /\ clock \in Nat

\* A stored row carries its revision in its version.
Stamped(r) == r.revision # 0 => r.version[2] = r.revision

\* An absent row is the default row in waiting.
RowInv ==
  /\ Stamped(row)
  /\ row.revision = 0 => Content(row) = Content(Default(0))

SeenInv ==
  \A c \in Clients :
    seen[c].revision # 0 =>
      /\ Stamped(seen[c])
      /\ row.revision # 0
      /\ seen[c].revision <= row.revision
      /\ seen[c].revision = row.revision => seen[c] = row

\* What a PUT is about to write follows from what its author has fetched.
BatchInv ==
  \A c \in Clients :
    pc[c] = "batch" =>
      /\ seen[c].revision # 0
      /\ loc[c].expected = seen[c].version
      /\ \E change \in Changes, t \in Nat :
           loc[c].next = Prepared(seen[c], change, t)

ConfigInv ==
  CloudflareTypeInv /\ RowInv /\ SeenInv /\ BatchInv /\ NothingUnseenReplaced

-----------------------------------------------------------------------------
(* The default configuration is a row of revision one, stamped with it. *)
LEMMA DefaultRow ==
  ASSUME NEW t \in Nat
  PROVE  /\ Default(t) \in CloudflareRows /\ NoRow \in CloudflareRows
         /\ Default(t).revision = 1 /\ Stamped(Default(t))
         /\ NoRow.revision = 0
         /\ Content(Default(t)) = [policy |-> NoRules, paused |-> FALSE]
         /\ Content(NoRow) = [policy |-> NoRules, paused |-> FALSE]
         /\ NoLocals \in [at : Nat, expected : CloudflareVersions,
                          next : CloudflareRows]
BY ConfigurationAssumption
   DEF Default, NoRow, NoLocals, CloudflareRows, CloudflareVersions, Stamped,
       ConfigVersion, Content

(* The row a PUT prepares is the fetched one with one field changed, one    *)
(* revision further and stamped with it.                                    *)
LEMMA PreparedRow ==
  ASSUME NEW r \in CloudflareRows, NEW change \in Changes, NEW t \in Nat
  PROVE  /\ Prepared(r, change, t) \in CloudflareRows
         /\ Prepared(r, change, t).revision = r.revision + 1
         /\ Stamped(Prepared(r, change, t))
         /\ Content(Prepared(r, change, t)) = Shared!Applied(Content(r), change)
<1>1. CASE change[1] = "policy" /\ change[2] \in Policies
  <2>1. Updated(r, change)
          = [policy |-> change[2], paused |-> r.paused, revision |-> r.revision,
             version |-> r.version]
    BY <1>1 DEF Updated, CloudflareRows
  <2>2. Prepared(r, change, t)
          = [policy |-> change[2], paused |-> r.paused, revision |-> r.revision + 1,
             version |-> <<t, r.revision + 1, change[2]>>]
    BY <2>1 DEF Prepared, ConfigVersion
  <2>3. Shared!Applied(Content(r), change) = [policy |-> change[2], paused |-> r.paused]
    BY <1>1 DEF Content, Shared!Applied
  <2>4. r.policy \in Policies /\ r.paused \in BOOLEAN /\ r.revision \in Nat
    BY DEF CloudflareRows
  <2> QED BY <1>1, <2>2, <2>3, <2>4
    DEF CloudflareRows, CloudflareVersions, Stamped, Content
<1>2. CASE change[1] = "paused" /\ change[2] \in BOOLEAN
  <2>1. Updated(r, change)
          = [policy |-> r.policy, paused |-> change[2], revision |-> r.revision,
             version |-> r.version]
    BY <1>2 DEF Updated, CloudflareRows
  <2>2. Prepared(r, change, t)
          = [policy |-> r.policy, paused |-> change[2], revision |-> r.revision + 1,
             version |-> <<t, r.revision + 1, r.policy>>]
    BY <2>1 DEF Prepared, ConfigVersion
  <2>3. Shared!Applied(Content(r), change) = [policy |-> r.policy, paused |-> change[2]]
    BY <1>2 DEF Content, Shared!Applied
  <2>4. r.policy \in Policies /\ r.paused \in BOOLEAN /\ r.revision \in Nat
    BY DEF CloudflareRows
  <2> QED BY <1>2, <2>2, <2>3, <2>4
    DEF CloudflareRows, CloudflareVersions, Stamped, Content
<1> QED BY <1>1, <1>2 DEF Changes

(* A fetched row whose version is in force is the row in force. *)
LEMMA VersionTellsRow ==
  ASSUME RowInv, SeenInv, NEW c \in Clients, seen[c].revision # 0,
         seen[c].version = row.version
  PROVE  seen[c] = row
BY DEF RowInv, SeenInv, Stamped

(* The instance starts without a row, as if the default were in force. *)
LEMMA InitConfig == Init => ConfigInv
<1> SUFFICES ASSUME Init PROVE ConfigInv
  OBVIOUS
<1>1. /\ NoRow \in CloudflareRows /\ NoRow.revision = 0
      /\ Content(NoRow) = Content(Default(0))
      /\ NoLocals \in [at : Nat, expected : CloudflareVersions, next : CloudflareRows]
  BY DefaultRow
<1>2. CloudflareTypeInv
  BY <1>1 DEF Init, CloudflareTypeInv
<1>3. RowInv /\ SeenInv
  BY <1>1 DEF Init, RowInv, SeenInv, Stamped
<1>4. BatchInv
  BY DEF Init, BatchInv
<1>5. NothingUnseenReplaced
  BY DEF Init, NothingUnseenReplaced
<1> QED BY <1>2, <1>3, <1>4, <1>5 DEF ConfigInv

(* The batch of a PUT, which passed its version check, replaces the row its *)
(* author fetched by that row with one change.                              *)
LEMMA CommitFacts ==
  ASSUME ConfigInv, NEW c \in Clients, PutCommit(c)
  PROVE  /\ seen[c] = row
         /\ row.revision # 0
         /\ row' \in CloudflareRows /\ Stamped(row')
         /\ row'.revision = row.revision + 1
         /\ \E change \in Changes :
              Content(row') = Shared!Applied(Content(row), change)
<1>1. /\ row \in CloudflareRows /\ row' = loc[c].next
      /\ seen[c].revision # 0
      /\ seen[c].version = row.version
  BY DEF ConfigInv, CloudflareTypeInv, BatchInv, PutCommit, VersionHolds
<1>2. seen[c] = row
  BY <1>1, VersionTellsRow DEF ConfigInv
<1>3. PICK change \in Changes, t \in Nat : loc[c].next = Prepared(seen[c], change, t)
  BY DEF ConfigInv, BatchInv, PutCommit
<1>4. row' = Prepared(row, change, t)
  BY <1>1, <1>2, <1>3
<1> QED BY <1>1, <1>2, <1>4, PreparedRow

(* Every step keeps the invariant. *)
LEMMA NextConfig == ConfigInv /\ [Next]_vars => ConfigInv'
<1> SUFFICES ASSUME ConfigInv, [Next]_vars PROVE ConfigInv'
  OBVIOUS
<1> USE DEF ConfigInv
<1>1. NoLocals \in [at : Nat, expected : CloudflareVersions, next : CloudflareRows]
  BY DefaultRow
<1>2. ASSUME NEW c \in Clients, Get(c) PROVE ConfigInv'
  <2>1. CloudflareTypeInv'
    BY <1>1, <1>2 DEF Get, Goto, CloudflareTypeInv
  <2>2. RowInv' /\ SeenInv'
    BY <1>2 DEF Get, RowInv, SeenInv, Stamped, CloudflareTypeInv, CloudflareRows
  <2>3. BatchInv'
    BY <1>2 DEF Get, Goto, BatchInv, CloudflareTypeInv
  <2>4. NothingUnseenReplaced'
    BY <1>2 DEF Get, NothingUnseenReplaced
  <2> QED BY <2>1, <2>2, <2>3, <2>4
<1>3. ASSUME NEW c \in Clients, FindNoInstance(c) PROVE ConfigInv'
  <2>1. CloudflareTypeInv'
    <3>1. [NoLocals EXCEPT !.at = clock]
            \in [at : Nat, expected : CloudflareVersions, next : CloudflareRows]
      BY <1>1 DEF CloudflareTypeInv
    <3> QED BY <1>3, <3>1 DEF FindNoInstance, Goto, CloudflareTypeInv
  <2>2. RowInv' /\ SeenInv'
    BY <1>3 DEF FindNoInstance, RowInv, SeenInv, Stamped
  <2>3. BatchInv'
    BY <1>3 DEF FindNoInstance, Goto, BatchInv, CloudflareTypeInv
  <2>4. NothingUnseenReplaced'
    BY <1>3 DEF FindNoInstance, NothingUnseenReplaced
  <2> QED BY <2>1, <2>2, <2>3, <2>4
<1>4. ASSUME NEW c \in Clients, InsertInstance(c) PROVE ConfigInv'
  <2>1. /\ Default(loc[c].at) \in CloudflareRows /\ Stamped(Default(loc[c].at))
        /\ Default(loc[c].at).revision = 1
    BY DefaultRow DEF CloudflareTypeInv
  <2>2. CloudflareTypeInv'
    BY <1>1, <1>4, <2>1 DEF InsertInstance, Inserted, Goto, CloudflareTypeInv
  <2>3. RowInv' /\ SeenInv'
    BY <1>4, <2>1 DEF InsertInstance, Inserted, RowInv, SeenInv, Stamped
  <2>4. BatchInv'
    BY <1>4 DEF InsertInstance, Goto, BatchInv, CloudflareTypeInv
  <2>5. NothingUnseenReplaced'
    BY <1>4 DEF InsertInstance, NothingUnseenReplaced
  <2> QED BY <2>2, <2>3, <2>4, <2>5
<1>5. ASSUME NEW c \in Clients, NEW change \in Changes, PutRead(c, change)
      PROVE  ConfigInv'
  <2>1. seen[c] = row
    BY <1>5, VersionTellsRow DEF PutRead
  <2>2. Prepared(row, change, clock) \in CloudflareRows
    BY PreparedRow DEF CloudflareTypeInv
  <2>3. CloudflareTypeInv'
    <3>1. seen[c].version \in CloudflareVersions
      BY DEF CloudflareTypeInv, CloudflareRows
    <3> QED BY <1>5, <2>2, <3>1 DEF PutRead, Goto, CloudflareTypeInv
  <2>4. RowInv' /\ SeenInv'
    BY <1>5 DEF PutRead, RowInv, SeenInv, Stamped
  <2>5. BatchInv'
    <3> SUFFICES ASSUME NEW d \in Clients, pc'[d] = "batch"
                 PROVE  /\ seen'[d].revision # 0
                        /\ loc'[d].expected = seen'[d].version
                        /\ \E ch \in Changes, t \in Nat :
                             loc'[d].next = Prepared(seen'[d], ch, t)
      BY DEF BatchInv
    <3>1. CASE d = c
      <4>1. /\ loc'[c].expected = seen[c].version
            /\ loc'[c].next = Prepared(seen[c], change, clock)
            /\ seen' = seen /\ seen[c].revision # 0 /\ clock \in Nat
        BY <1>5, <2>1 DEF PutRead, Goto, CloudflareTypeInv
      <4> QED BY <3>1, <4>1
    <3>2. CASE d # c
      <4>1. pc[d] = "batch" /\ loc'[d] = loc[d] /\ seen' = seen
        BY <1>5, <3>2 DEF PutRead, Goto, CloudflareTypeInv
      <4> QED BY <4>1 DEF BatchInv
    <3> QED BY <3>1, <3>2
  <2>6. NothingUnseenReplaced'
    BY <1>5 DEF PutRead, NothingUnseenReplaced
  <2> QED BY <2>3, <2>4, <2>5, <2>6
<1>6. ASSUME NEW c \in Clients, PutCommit(c) PROVE ConfigInv'
  <2>1. /\ seen[c] = row /\ row.revision # 0
        /\ row' \in CloudflareRows /\ Stamped(row')
        /\ row'.revision = row.revision + 1
    BY <1>6, CommitFacts
  <2>2. /\ row.revision \in Nat /\ row.policy \in Policies /\ row.paused \in BOOLEAN
        /\ loc[c].next.version \in CloudflareVersions
        /\ \A d \in Clients : seen[d].revision \in Nat
    BY DEF CloudflareTypeInv, CloudflareRows
  <2> DEFINE e == [after |-> loc[c].next.version, seen |-> Content(seen[c]),
                   replaced |-> Content(row)]
  <2>3. /\ ledger' = Append(ledger, e)
        /\ e.seen = e.replaced
        /\ e \in [after : CloudflareVersions, seen : [policy : Policies, paused : BOOLEAN],
                  replaced : [policy : Policies, paused : BOOLEAN]]
    BY <1>6, <2>1, <2>2 DEF PutCommit, Content
  <2> HIDE DEF e
  <2>4. CloudflareTypeInv'
    BY <1>1, <1>6, <2>1, <2>3 DEF PutCommit, Goto, CloudflareTypeInv
  <2>5. RowInv'
    BY <2>1, <2>2 DEF RowInv
  <2>6. SeenInv'
    BY <1>6, <2>1, <2>2 DEF PutCommit, SeenInv, Stamped
  <2>7. BatchInv'
    BY <1>6 DEF PutCommit, Goto, BatchInv, CloudflareTypeInv
  <2>8. NothingUnseenReplaced'
    BY <2>3 DEF NothingUnseenReplaced, CloudflareTypeInv
  <2> QED BY <2>4, <2>5, <2>6, <2>7, <2>8
<1>7. ASSUME NEW c \in Clients, PutRefused(c) PROVE ConfigInv'
  <2>1. CloudflareTypeInv'
    BY <1>1, <1>7 DEF PutRefused, Goto, CloudflareTypeInv
  <2>2. RowInv' /\ SeenInv'
    BY <1>7 DEF PutRefused, RowInv, SeenInv, Stamped
  <2>3. BatchInv'
    BY <1>7 DEF PutRefused, Goto, BatchInv, CloudflareTypeInv
  <2>4. NothingUnseenReplaced'
    BY <1>7 DEF PutRefused, NothingUnseenReplaced
  <2> QED BY <2>1, <2>2, <2>3, <2>4
<1>8. ASSUME UNCHANGED <<row, seen, pc, loc, ledger>>, clock' \in Nat PROVE ConfigInv'
  <2>1. CloudflareTypeInv'
    BY <1>8 DEF CloudflareTypeInv
  <2>2. RowInv' /\ SeenInv'
    BY <1>8 DEF RowInv, SeenInv, Stamped
  <2>3. BatchInv'
    BY <1>8 DEF BatchInv
  <2>4. NothingUnseenReplaced'
    BY <1>8 DEF NothingUnseenReplaced
  <2> QED BY <2>1, <2>2, <2>3, <2>4
<1>9. CASE Tick
  BY <1>8, <1>9 DEF Tick, CloudflareTypeInv
<1>10. CASE UNCHANGED vars
  BY <1>8, <1>10 DEF vars, CloudflareTypeInv
<1> QED BY <1>2, <1>3, <1>4, <1>5, <1>6, <1>7, <1>9, <1>10 DEF Next

(* The invariant holds throughout. *)
LEMMA ConfigInvariant == Spec => []ConfigInv
BY InitConfig, NextConfig, PTL DEF Spec

(* No change made through updateConfiguration ever replaces a configuration *)
(* its author had not fetched, whatever requests run beside it.             *)
THEOREM NoChangeLost == Spec => []NothingUnseenReplaced
<1>1. ConfigInv => NothingUnseenReplaced
  BY DEF ConfigInv
<1> QED BY <1>1, ConfigInvariant, PTL

(* Every step is one change of the shared configuration or none at all. *)
LEMMA StepIsChange ==
  ASSUME ConfigInv, [Next]_vars
  PROVE  [Shared!Next]_<<Content(row),
                         IF row.revision = 0 THEN 1 ELSE row.revision>>
<1>1. ASSUME row' = row PROVE
        UNCHANGED <<Content(row), IF row.revision = 0 THEN 1 ELSE row.revision>>
  BY <1>1
<1>2. ASSUME NEW c \in Clients, InsertInstance(c) PROVE
        UNCHANGED <<Content(row), IF row.revision = 0 THEN 1 ELSE row.revision>>
  <2>1. CASE row.revision = 0
    <3>1. /\ row' = Default(loc[c].at) /\ loc[c].at \in Nat
      BY <1>2, <2>1 DEF InsertInstance, Inserted, ConfigInv, CloudflareTypeInv
    <3>2. /\ row'.revision = 1
          /\ Content(row') = [policy |-> NoRules, paused |-> FALSE]
          /\ Content(row) = [policy |-> NoRules, paused |-> FALSE]
      <4>1. Content(Default(0)) = [policy |-> NoRules, paused |-> FALSE]
        BY DefaultRow
      <4>2. Content(row) = Content(Default(0))
        BY <2>1 DEF ConfigInv, RowInv
      <4>3. /\ Default(loc[c].at).revision = 1
            /\ Content(Default(loc[c].at)) = [policy |-> NoRules, paused |-> FALSE]
        BY <3>1, DefaultRow
      <4> QED BY <3>1, <4>1, <4>2, <4>3
    <3> QED BY <2>1, <3>2
  <2>2. CASE row.revision # 0
    BY <1>1, <1>2, <2>2 DEF InsertInstance, Inserted
  <2> QED BY <2>1, <2>2
<1>3. ASSUME NEW c \in Clients, PutCommit(c) PROVE Shared!Next
  <2>1. PICK change \in Changes : Content(row') = Shared!Applied(Content(row), change)
    BY <1>3, CommitFacts
  <2>2. row.revision # 0 /\ row'.revision = row.revision + 1 /\ row.revision \in Nat
    BY <1>3, CommitFacts DEF ConfigInv, CloudflareTypeInv, CloudflareRows
  <2>3. change \in Shared!Changes
    BY DEF Changes, Shared!Changes
  <2> QED BY <2>1, <2>2, <2>3 DEF Shared!Next, Shared!Change
<1>4. CASE row' = row
  BY <1>1, <1>4
<1> QED
  BY <1>2, <1>3, <1>4 DEF Next, vars, Get, FindNoInstance, PutRead, PutRefused, Tick

(* The routes implement SharedConfiguration: configuration changes made at  *)
(* the same time take effect one after another, each on the one in force.   *)
THEOREM ConfigurationImplementsShared == Spec => ImplementsSharedConfiguration
<1>1. Init => Shared!Init
  <2> SUFFICES ASSUME Init PROVE Shared!Init
    OBVIOUS
  <2>1. row = NoRow /\ Content(NoRow) = [policy |-> NoRules, paused |-> FALSE]
        /\ NoRow.revision = 0
    BY DefaultRow DEF Init
  <2> QED BY <2>1, ConfigurationAssumption DEF Shared!Init
<1> QED
  BY <1>1, StepIsChange, ConfigInvariant, PTL
     DEF Spec, ImplementsSharedConfiguration, Shared!Spec

-----------------------------------------------------------------------------
(* The configuration of the Node adapter.  The UPDATE names no version, so *)
(* a PUT is safe only while none overlaps it; until one does, revisions go *)
(* up by one, and a fetched row with the revision in force is that row.    *)

NodeVersions == Nat \X Nat

NodeContents == [policy : Policies, paused : BOOLEAN]

NodeRows ==
  [policy : Policies, paused : BOOLEAN, policyRevision : Nat, revision : Nat,
   version : NodeVersions]

NodeEntries ==
  [field : {"policy", "paused"}, before : NodeVersions, after : NodeVersions,
   seen : NodeContents, replaced : NodeContents]

NodeConfigType ==
  /\ nodeRow \in NodeRows
  /\ seen \in [Clients -> NodeRows]
  /\ pc \in [Clients -> {"idle", "write"}]
  /\ loc \in [Clients -> [before : NodeRows, next : NodeRows,
                          field : {"none", "policy", "paused"}]]
  /\ nodeLedger \in Seq(NodeEntries)
  /\ clock \in Nat
  /\ overlapped \in BOOLEAN

\* A row carries its revision in its version.
NodeStamped(r) == r.version[2] = r.revision

NodeSeenKept ==
  /\ NodeStamped(nodeRow)
  /\ \A c \in Clients :
       /\ NodeStamped(seen[c])
       /\ ~overlapped =>
            /\ seen[c].revision <= nodeRow.revision
            /\ seen[c].revision = nodeRow.revision => seen[c] = nodeRow

NodePutKept ==
  \A c \in Clients : pc[c] = "write" =>
    /\ loc[c].next.revision = loc[c].before.revision + 1
    /\ NodeStamped(loc[c].next)
    /\ loc[c].field \in {"policy", "paused"}
    /\ ~overlapped =>
         NodeConfig!Content(seen[c]) = NodeConfig!Content(loc[c].before)

NodeConfigKept ==
  /\ NodeConfigType /\ NodeSeenKept /\ NodePutKept /\ NodeConfigurationSafe

\* When the subject is another, the Node configuration lies still.
NodeConfigInv ==
  IF subject = "nodeConfiguration" THEN NodeConfigKept ELSE NodeConfigStill

USE DEF NodeStamped

LEMMA NodeDefaultRow ==
  /\ NodeConfig!Default \in NodeRows
  /\ NodeConfig!Default.revision = 0
  /\ NodeConfig!Default.version = <<0, 0>>
BY ConfigurationAssumption DEF NodeConfig!Default, NodeRows, NodeVersions

LEMMA NodePreparedRow ==
  ASSUME NEW r \in NodeRows, NEW change \in NodeConfig!Changes, NEW t \in Nat
  PROVE  LET next == NodeConfig!Prepared(r, change, t) IN
           /\ next \in NodeRows
           /\ next.revision = r.revision + 1
           /\ NodeStamped(next)
<1> DEFINE n == r.revision + 1
           v == <<t, r.revision + 1>>
           m == r.policyRevision + 1
           touched == [r EXCEPT !.revision = n, !.version = v]
<1>1. /\ n \in Nat /\ n = r.revision + 1 /\ m \in Nat
      /\ v \in NodeVersions /\ v[2] = n
  BY DEF NodeRows, NodeVersions
<1>2. touched \in NodeRows /\ touched.revision = n /\ touched.version = v
      /\ touched.policyRevision = r.policyRevision
  BY <1>1 DEF NodeRows
<1>3. CASE change[1] = "policy"
  <2>1. NodeConfig!Prepared(r, change, t)
          = [touched EXCEPT !.policy = change[2], !.policyRevision = m]
    BY <1>2, <1>3 DEF NodeConfig!Prepared, NodeRows
  <2>2. change[2] \in Policies
    BY <1>3 DEF NodeConfig!Changes
  <2> HIDE DEF touched, n, v, m
  <2> QED BY <1>1, <1>2, <2>1, <2>2 DEF NodeRows
<1>4. CASE change[1] # "policy"
  <2>1. NodeConfig!Prepared(r, change, t) = [touched EXCEPT !.paused = change[2]]
    BY <1>4 DEF NodeConfig!Prepared, NodeRows
  <2>2. change[2] \in BOOLEAN
    BY <1>4 DEF NodeConfig!Changes
  <2> HIDE DEF touched, n, v, m
  <2> QED BY <1>1, <1>2, <2>1, <2>2 DEF NodeRows
<1> QED BY <1>3, <1>4

LEMMA NodeContentType ==
  ASSUME NEW r \in NodeRows PROVE NodeConfig!Content(r) \in NodeContents
BY DEF NodeConfig!Content, NodeRows, NodeContents

LEMMA NodeConfigStart == NodeConfig!Init => NodeConfigKept
<1> SUFFICES ASSUME NodeConfig!Init PROVE NodeConfigKept
  OBVIOUS
<1>1. NodeConfigType
  <2>1. NodeConfig!NoLocals \in [before : NodeRows, next : NodeRows,
                                 field : {"none", "policy", "paused"}]
    BY NodeDefaultRow DEF NodeConfig!NoLocals
  <2>2. nodeLedger \in Seq(NodeEntries)
    BY DEF NodeConfig!Init
  <2> QED BY <2>1, <2>2, NodeDefaultRow DEF NodeConfig!Init, NodeConfigType
<1>2. NodeSeenKept /\ NodePutKept
  BY NodeDefaultRow DEF NodeConfig!Init, NodeSeenKept, NodePutKept
<1>3. NodeConfigurationSafe
  BY DEF NodeConfig!Init, NodeConfigurationSafe, LedgerCurrent, SafeUnlessOverlapped,
         NodeConfig!LedgerCurrent, NodeConfig!SafeUnlessOverlapped,
         NodeConfig!NothingUnseenReplaced
<1> QED BY <1>1, <1>2, <1>3 DEF NodeConfigKept

LEMMA NodeGetKeeps ==
  ASSUME NodeConfigKept, NEW c \in Clients, NodeConfig!Get(c)
  PROVE  NodeConfigKept'
<1>1. /\ seen' = [seen EXCEPT ![c] = nodeRow] /\ pc[c] = "idle"
      /\ UNCHANGED <<nodeRow, pc, loc, nodeLedger, clock, overlapped>>
  BY DEF NodeConfig!Get
<1>2. NodeConfigType'
  BY <1>1 DEF NodeConfigKept, NodeConfigType
<1>3. NodeSeenKept'
  BY <1>1 DEF NodeConfigKept, NodeConfigType, NodeSeenKept, NodeRows
<1>4. NodePutKept'
  BY <1>1 DEF NodeConfigKept, NodeConfigType, NodePutKept
<1>5. NodeConfigurationSafe'
  BY <1>1 DEF NodeConfigKept, NodeConfigurationSafe, LedgerCurrent,
     SafeUnlessOverlapped, NodeConfig!LedgerCurrent,
     NodeConfig!SafeUnlessOverlapped, NodeConfig!NothingUnseenReplaced
<1> QED BY <1>2, <1>3, <1>4, <1>5 DEF NodeConfigKept

LEMMA NodePutReadKeeps ==
  ASSUME NodeConfigKept, NEW c \in Clients, NEW change \in NodeConfig!Changes,
         NodeConfig!PutRead(c, change)
  PROVE  NodeConfigKept'
<1> DEFINE next == NodeConfig!Prepared(nodeRow, change, clock)
           put  == [before |-> nodeRow, field |-> change[1], next |-> next]
<1>1. /\ pc' = [pc EXCEPT ![c] = "write"] /\ loc' = [loc EXCEPT ![c] = put]
      /\ UNCHANGED <<nodeRow, seen, nodeLedger, clock, overlapped>>
      /\ seen[c].version = nodeRow.version
  BY DEF NodeConfig!PutRead, NodeConfig!VersionMatches
<1>2. /\ next \in NodeRows /\ next.revision = nodeRow.revision + 1
      /\ NodeStamped(next) /\ nodeRow \in NodeRows
  BY NodePreparedRow DEF NodeConfigKept, NodeConfigType
<1>3. /\ put.before = nodeRow /\ put.next = next
      /\ put.field \in {"policy", "paused"}
      /\ put \in [before : NodeRows, next : NodeRows,
                  field : {"none", "policy", "paused"}]
  BY <1>2 DEF NodeConfig!Changes
<1>4. ~overlapped => seen[c] = nodeRow
  BY <1>1 DEF NodeConfigKept, NodeSeenKept
<1> HIDE DEF put, next
<1>5. NodeConfigType'
  BY <1>1, <1>3 DEF NodeConfigKept, NodeConfigType
<1>6. NodeSeenKept'
  BY <1>1 DEF NodeConfigKept, NodeSeenKept
<1>7. NodePutKept'
  <2> SUFFICES ASSUME NEW d \in Clients, pc'[d] = "write"
               PROVE  /\ loc'[d].next.revision = loc'[d].before.revision + 1
                      /\ NodeStamped(loc'[d].next)
                      /\ loc'[d].field \in {"policy", "paused"}
                      /\ ~overlapped' => NodeConfig!Content(seen'[d])
                                           = NodeConfig!Content(loc'[d].before)
    BY DEF NodePutKept
  <2>1. CASE d = c
    <3>1. loc'[d] = put
      BY <1>1, <2>1 DEF NodeConfigKept, NodeConfigType
    <3> QED BY <1>1, <1>2, <1>3, <1>4, <2>1, <3>1
  <2>2. CASE d # c
    <3>1. loc'[d] = loc[d] /\ pc[d] = "write"
      BY <1>1, <2>2 DEF NodeConfigKept, NodeConfigType
    <3> QED BY <1>1, <3>1 DEF NodeConfigKept, NodePutKept
  <2> QED BY <2>1, <2>2
<1>8. NodeConfigurationSafe'
  BY <1>1 DEF NodeConfigKept, NodeConfigurationSafe, LedgerCurrent,
     SafeUnlessOverlapped, NodeConfig!LedgerCurrent,
     NodeConfig!SafeUnlessOverlapped, NodeConfig!NothingUnseenReplaced
<1> QED BY <1>5, <1>6, <1>7, <1>8 DEF NodeConfigKept

LEMMA NodePutCommitKeeps ==
  ASSUME NodeConfigKept, NEW c \in Clients, NodeConfig!PutCommit(c)
  PROVE  NodeConfigKept'
<1> DEFINE entry == NodeConfig!Entry(c)
<1>1. /\ pc[c] = "write" /\ nodeRow' = loc[c].next
      /\ nodeLedger' = Append(nodeLedger, entry)
      /\ overlapped' = (overlapped \/ nodeRow # loc[c].before)
      /\ pc' = [pc EXCEPT ![c] = "idle"]
      /\ loc' = [loc EXCEPT ![c] = NodeConfig!NoLocals]
      /\ UNCHANGED <<seen, clock>>
  BY DEF NodeConfig!PutCommit
<1>2. /\ loc[c].before \in NodeRows /\ loc[c].next \in NodeRows
      /\ loc[c].next.revision = loc[c].before.revision + 1
      /\ NodeStamped(loc[c].next) /\ loc[c].field \in {"policy", "paused"}
      /\ ~overlapped => NodeConfig!Content(seen[c]) = NodeConfig!Content(loc[c].before)
      /\ seen[c] \in NodeRows /\ nodeRow \in NodeRows
  BY <1>1 DEF NodeConfigKept, NodePutKept, NodeConfigType
<1>3. /\ entry \in NodeEntries
      /\ entry.after = nodeRow'.version
      /\ ~overlapped' => entry.seen = entry.replaced
  <2>1. /\ entry.after = loc[c].next.version
        /\ entry.seen = NodeConfig!Content(seen[c])
        /\ entry.replaced = NodeConfig!Content(nodeRow)
    BY DEF NodeConfig!Entry
  <2>2. /\ NodeConfig!Content(seen[c]) \in NodeContents
        /\ NodeConfig!Content(nodeRow) \in NodeContents
    BY <1>2, NodeContentType
  <2>3. loc[c].before.version \in NodeVersions /\ loc[c].next.version \in NodeVersions
    BY <1>2 DEF NodeRows
  <2>4. entry \in NodeEntries
    BY <1>2, <2>2, <2>3 DEF NodeConfig!Entry, NodeEntries
  <2>5. ~overlapped' => entry.seen = entry.replaced
    BY <1>1, <1>2, <2>1
  <2> QED BY <1>1, <2>1, <2>4, <2>5
<1> HIDE DEF entry
<1>4. NodeConfigType'
  <2>1. NodeConfig!NoLocals \in [before : NodeRows, next : NodeRows,
                                 field : {"none", "policy", "paused"}]
    BY NodeDefaultRow DEF NodeConfig!NoLocals
  <2> QED BY <1>1, <1>2, <1>3, <2>1 DEF NodeConfigKept, NodeConfigType
<1>5. NodeSeenKept'
  <2> SUFFICES ASSUME NEW d \in Clients
               PROVE  /\ NodeStamped(seen'[d])
                      /\ ~overlapped' =>
                           /\ seen'[d].revision <= nodeRow'.revision
                           /\ seen'[d].revision = nodeRow'.revision
                                => seen'[d] = nodeRow'
    BY <1>1, <1>2 DEF NodeSeenKept
  <2>1. NodeStamped(seen'[d])
    BY <1>1 DEF NodeConfigKept, NodeSeenKept
  <2>2. ASSUME ~overlapped' PROVE seen'[d].revision < nodeRow'.revision
    <3>1. ~overlapped /\ nodeRow = loc[c].before
      BY <1>1, <2>2
    <3>2. seen[d].revision <= nodeRow.revision
      BY <3>1 DEF NodeConfigKept, NodeSeenKept
    <3>3. seen[d].revision \in Nat /\ nodeRow.revision \in Nat
      BY <1>2 DEF NodeConfigKept, NodeConfigType, NodeRows
    <3> QED BY <1>1, <1>2, <3>1, <3>2, <3>3
  <2>3. seen'[d].revision \in Nat /\ nodeRow'.revision \in Nat
    BY <1>4 DEF NodeConfigType, NodeRows
  <2> QED BY <2>1, <2>2, <2>3
<1>6. NodePutKept'
  BY <1>1 DEF NodeConfigKept, NodeConfigType, NodePutKept
<1>7. NodeConfigurationSafe'
  <2>1. /\ Len(nodeLedger') = Len(nodeLedger) + 1 /\ nodeLedger' # <<>>
        /\ Len(nodeLedger) \in Nat
        /\ nodeLedger'[Len(nodeLedger) + 1] = entry
        /\ \A i \in 1 .. Len(nodeLedger) : nodeLedger'[i] = nodeLedger[i]
    BY <1>1, <1>3 DEF NodeConfigKept, NodeConfigType
  <2>2. LedgerCurrent'
    BY <1>3, <2>1 DEF LedgerCurrent, NodeConfig!LedgerCurrent
  <2>3. SafeUnlessOverlapped'
    <3> SUFFICES ASSUME ~overlapped', NEW i \in 1 .. Len(nodeLedger')
                 PROVE  nodeLedger'[i].seen = nodeLedger'[i].replaced
      BY DEF SafeUnlessOverlapped, NodeConfig!SafeUnlessOverlapped,
             NodeConfig!NothingUnseenReplaced
    <3>1. CASE i = Len(nodeLedger) + 1
      BY <1>3, <2>1, <3>1
    <3>2. CASE i \in 1 .. Len(nodeLedger)
      BY <1>1, <2>1, <3>2 DEF NodeConfigKept, NodeConfigurationSafe,
         SafeUnlessOverlapped, NodeConfig!SafeUnlessOverlapped,
         NodeConfig!NothingUnseenReplaced
    <3> QED BY <2>1, <3>1, <3>2
  <2> QED BY <2>2, <2>3 DEF NodeConfigurationSafe
<1> QED BY <1>4, <1>5, <1>6, <1>7 DEF NodeConfigKept

LEMMA NodeElseKeeps ==
  ASSUME NodeConfigKept,
         \/ \E c \in Clients : NodeConfig!PutFail(c)
         \/ NodeConfig!Tick
         \/ UNCHANGED <<nodeRow, seen, pc, loc, nodeLedger, clock, overlapped>>
  PROVE  NodeConfigKept'
<1>1. UNCHANGED <<nodeRow, seen, nodeLedger, overlapped>> /\ clock' \in Nat
  BY DEF NodeConfig!PutFail, NodeConfig!RolledBack, NodeConfig!Tick,
         NodeConfigKept, NodeConfigType
<1>2. \/ UNCHANGED <<pc, loc>>
      \/ \E c \in Clients :
           /\ pc' = [pc EXCEPT ![c] = "idle"]
           /\ loc' = [loc EXCEPT ![c] = NodeConfig!NoLocals]
  BY DEF NodeConfig!PutFail, NodeConfig!Tick
<1>3. NodeConfig!NoLocals \in [before : NodeRows, next : NodeRows,
                               field : {"none", "policy", "paused"}]
  BY NodeDefaultRow DEF NodeConfig!NoLocals
<1>4. NodeConfigType' /\ NodeSeenKept' /\ NodePutKept'
  <2>1. CASE UNCHANGED <<pc, loc>>
    BY <1>1, <2>1 DEF NodeConfigKept, NodeConfigType, NodeSeenKept, NodePutKept
  <2>2. ASSUME NEW c \in Clients,
               pc' = [pc EXCEPT ![c] = "idle"],
               loc' = [loc EXCEPT ![c] = NodeConfig!NoLocals]
        PROVE  NodeConfigType' /\ NodeSeenKept' /\ NodePutKept'
    <3>1. NodeConfigType'
      BY <1>1, <1>3, <2>2 DEF NodeConfigKept, NodeConfigType
    <3>2. NodeSeenKept'
      BY <1>1 DEF NodeConfigKept, NodeSeenKept
    <3>3. NodePutKept'
      BY <1>1, <2>2 DEF NodeConfigKept, NodeConfigType, NodePutKept
    <3> QED BY <3>1, <3>2, <3>3
  <2> QED BY <1>2, <2>1, <2>2
<1>5. NodeConfigurationSafe'
  BY <1>1 DEF NodeConfigKept, NodeConfigurationSafe, LedgerCurrent,
     SafeUnlessOverlapped, NodeConfig!LedgerCurrent,
     NodeConfig!SafeUnlessOverlapped, NodeConfig!NothingUnseenReplaced
<1> QED BY <1>4, <1>5 DEF NodeConfigKept

LEMMA NodeConfigStillSafe == NodeConfigStill => NodeConfigurationSafe
BY DEF NodeConfigStill, NodeConfigurationSafe, LedgerCurrent, SafeUnlessOverlapped,
       NodeConfig!LedgerCurrent, NodeConfig!SafeUnlessOverlapped,
       NodeConfig!NothingUnseenReplaced

LEMMA NodeConfigInvariant == AdministrationSpec => []NodeConfigInv
<1>1. AdministrationInit => NodeConfigInv
  BY NodeConfigStart
     DEF AdministrationInit, ConfigurationsInit, ConfigurationsStill, NodeConfigInv
<1>2. NodeConfigInv /\ [AdministrationNext]_administrationVars => NodeConfigInv'
  <2> SUFFICES ASSUME NodeConfigInv, [AdministrationNext]_administrationVars
               PROVE  NodeConfigInv'
    OBVIOUS
  <2>1. subject' = subject
    BY DEF AdministrationNext, administrationVars, ConfigurationsNext, NodeNext,
           CloudflareNext, SupabaseNext, ConsoleNext
  <2>2. CASE subject # "nodeConfiguration"
    <3>1. UNCHANGED nodeConfigVars
      BY <2>2 DEF AdministrationNext, administrationVars, configurationsVars,
             ConfigurationsNext, NodeNext, CloudflareNext, SupabaseNext, ConsoleNext
    <3> QED BY <2>1, <2>2, <3>1 DEF NodeConfigInv, NodeConfigStill, nodeConfigVars
  <2>3. CASE subject = "nodeConfiguration"
    <3>1. \/ NodeConfig!Next
          \/ UNCHANGED <<nodeRow, seen, pc, loc, nodeLedger, clock, overlapped>>
      BY <2>3 DEF AdministrationNext, administrationVars, configurationsVars, vars,
             nodeConfigVars, ConfigurationsNext, NodeNext, CloudflareNext,
             SupabaseNext, ConsoleNext
    <3>2. NodeConfigKept
      BY <2>3 DEF NodeConfigInv
    <3>3. NodeConfigKept'
      BY <3>1, <3>2, NodeGetKeeps, NodePutReadKeeps, NodePutCommitKeeps,
         NodeElseKeeps DEF NodeConfig!Next
    <3> QED BY <2>1, <2>3, <3>3 DEF NodeConfigInv
  <2> QED BY <2>2, <2>3
<1> QED BY <1>1, <1>2, PTL DEF AdministrationSpec

(* The configuration routes of the Node adapter: the ledger ends with the   *)
(* version in force, and until two PUTs overlap every change replaces the   *)
(* very configuration its author had fetched.                               *)
THEOREM NodeConfigurationSafeHolds == AdministrationSpec => []NodeConfigurationSafe
<1>1. NodeConfigInv => NodeConfigurationSafe
  BY NodeConfigStillSafe DEF NodeConfigInv, NodeConfigKept
<1> QED BY <1>1, NodeConfigInvariant, PTL

HIDE DEF NodeStamped

-----------------------------------------------------------------------------
(* The configuration of the Supabase adapter.  of_update_config compares   *)
(* revisions, which go up by one and never come back: a PUT whose revision *)
(* is the next one was prepared from the row in force.                     *)

EdgeContents == [policy : Policies, paused : BOOLEAN]

EdgeVersions == Nat \X Policies \X Nat \X BOOLEAN

EdgeRows ==
  [policy : Policies, paused : BOOLEAN, policyRevision : Nat, revision : Nat,
   version : EdgeVersions]

EdgeConfigType ==
  /\ supabaseRow \in EdgeRows
  /\ pc \in [Clients -> {"idle", "update"}]
  /\ loc \in [Clients -> EdgeRows]
  /\ clock \in Nat

\* next is the content of the row in force with one field replaced.
EdgeFollows(next) ==
  \E change \in SupabaseConfig!Shared!Changes :
    SupabaseConfig!Content(next)
      = SupabaseConfig!Shared!Applied(SupabaseConfig!Content(supabaseRow), change)

EdgePutKept ==
  \A c \in Clients : pc[c] = "update" =>
    /\ loc[c].revision <= supabaseRow.revision + 1
    /\ loc[c].revision = supabaseRow.revision + 1 => EdgeFollows(loc[c])

EdgeConfigKept == EdgeConfigType /\ EdgePutKept

EdgeConfigInv ==
  IF subject = "supabaseConfiguration" THEN EdgeConfigKept
  ELSE supabaseRow = SupabaseConfig!Default

edgeShared == <<SupabaseConfig!Content(supabaseRow), supabaseRow.revision>>

LEMMA EdgeDefaultRow ==
  /\ SupabaseConfig!Default \in EdgeRows
  /\ SupabaseConfig!Default.revision = 0
  /\ SupabaseConfig!Content(SupabaseConfig!Default)
       = [policy |-> NoRules, paused |-> FALSE]
BY ConfigurationAssumption
   DEF SupabaseConfig!Default, SupabaseConfig!Content, SupabaseConfig!ConfigVersion,
       EdgeRows, EdgeVersions

LEMMA EdgePreparedRow ==
  ASSUME NEW r \in EdgeRows, NEW change \in SupabaseConfig!Changes, NEW t \in Nat
  PROVE  LET next == SupabaseConfig!Prepared(r, change, t) IN
           /\ next \in EdgeRows
           /\ next.revision = r.revision + 1
           /\ SupabaseConfig!Content(next)
                = SupabaseConfig!Shared!Applied(SupabaseConfig!Content(r), change)
<1> DEFINE n == r.revision + 1
           m == IF change[1] = "policy" THEN r.policyRevision + 1
                ELSE r.policyRevision
           updated == SupabaseConfig!Updated(r, change)
           changed == [updated EXCEPT !.revision = n, !.policyRevision = m]
           next == SupabaseConfig!Prepared(r, change, t)
<1>1. n \in Nat /\ n = r.revision + 1 /\ m \in Nat
  BY DEF EdgeRows
<1>2. /\ updated \in EdgeRows /\ updated.revision = r.revision
      /\ updated.policyRevision = r.policyRevision
      /\ SupabaseConfig!Content(updated)
           = SupabaseConfig!Shared!Applied(SupabaseConfig!Content(r), change)
  <2>1. CASE change[1] = "policy"
    <3>1. updated = [r EXCEPT !.policy = change[2]] /\ change[2] \in Policies
      BY <2>1 DEF SupabaseConfig!Updated, SupabaseConfig!Changes
    <3> QED BY <2>1, <3>1 DEF EdgeRows, SupabaseConfig!Content,
               SupabaseConfig!Shared!Applied
  <2>2. CASE change[1] # "policy"
    <3>1. updated = [r EXCEPT !.paused = change[2]] /\ change[2] \in BOOLEAN
      BY <2>2 DEF SupabaseConfig!Updated, SupabaseConfig!Changes
    <3> QED BY <2>2, <3>1 DEF EdgeRows, SupabaseConfig!Content,
               SupabaseConfig!Shared!Applied
  <2> QED BY <2>1, <2>2
<1>3. next = [changed EXCEPT !.version = SupabaseConfig!ConfigVersion(changed, t)]
  BY <1>2 DEF SupabaseConfig!Prepared, EdgeRows
<1> HIDE DEF updated, n, m, next
<1>4. /\ changed \in EdgeRows /\ changed.revision = n
      /\ changed.policy = updated.policy /\ changed.paused = updated.paused
  BY <1>1, <1>2 DEF EdgeRows
<1> HIDE DEF changed
<1>5. SupabaseConfig!ConfigVersion(changed, t) \in EdgeVersions
  BY <1>4 DEF SupabaseConfig!ConfigVersion, EdgeVersions, EdgeRows
<1>6. /\ next \in EdgeRows /\ next.revision = n
      /\ next.policy = updated.policy /\ next.paused = updated.paused
  BY <1>3, <1>4, <1>5 DEF EdgeRows
<1>7. SupabaseConfig!Content(next) = SupabaseConfig!Content(updated)
  BY <1>6 DEF SupabaseConfig!Content
<1> QED BY <1>1, <1>2, <1>6, <1>7 DEF next

LEMMA EdgeConfigStart == SupabaseConfig!Init => EdgeConfigKept
BY EdgeDefaultRow DEF SupabaseConfig!Init, EdgeConfigKept, EdgeConfigType, EdgePutKept

LEMMA EdgeChanges == SupabaseConfig!Changes = SupabaseConfig!Shared!Changes
BY DEF SupabaseConfig!Changes, SupabaseConfig!Shared!Changes

\* A commit replaces the row in force by one that follows it.
LEMMA EdgeCommitFacts ==
  ASSUME EdgeConfigKept, NEW c \in Clients, SupabaseConfig!PutCommit(c)
  PROVE  /\ supabaseRow'.revision = supabaseRow.revision + 1
         /\ supabaseRow' = loc[c]
         /\ EdgeFollows(supabaseRow')
<1>1. /\ pc[c] = "update" /\ supabaseRow.revision + 1 = loc[c].revision
      /\ supabaseRow' = [loc[c] EXCEPT !.revision = supabaseRow.revision + 1]
  BY DEF SupabaseConfig!PutCommit, SupabaseConfig!RevisionHolds
<1>2. loc[c] \in EdgeRows
  BY DEF EdgeConfigKept, EdgeConfigType
<1>3. supabaseRow' = loc[c]
  <2> DEFINE n == supabaseRow.revision + 1
  <2>1. supabaseRow' = [loc[c] EXCEPT !.revision = n] /\ n = loc[c].revision
    BY <1>1
  <2> HIDE DEF n
  <2> QED BY <1>2, <2>1 DEF EdgeRows
<1> QED BY <1>1, <1>3 DEF EdgeConfigKept, EdgePutKept

LEMMA EdgeConfigKeeps ==
  ASSUME EdgeConfigKept,
         \/ SupabaseConfig!Next
         \/ UNCHANGED <<supabaseRow, pc, loc, clock>>
  PROVE  EdgeConfigKept'
<1>1. ASSUME NEW c \in Clients, NEW change \in SupabaseConfig!Changes,
             SupabaseConfig!PutRead(c, change)
      PROVE  EdgeConfigKept'
  <2> DEFINE next == SupabaseConfig!Prepared(supabaseRow, change, clock)
  <2>1. /\ pc' = [pc EXCEPT ![c] = "update"] /\ loc' = [loc EXCEPT ![c] = next]
        /\ UNCHANGED <<supabaseRow, clock>>
    BY <1>1 DEF SupabaseConfig!PutRead
  <2>2. /\ next \in EdgeRows /\ next.revision = supabaseRow.revision + 1
        /\ EdgeFollows(next)
    BY EdgePreparedRow, EdgeChanges
       DEF EdgeConfigKept, EdgeConfigType, EdgeFollows
  <2> HIDE DEF next
  <2>3. EdgeConfigType'
    BY <2>1, <2>2 DEF EdgeConfigKept, EdgeConfigType
  <2>4. EdgePutKept'
    <3> SUFFICES ASSUME NEW d \in Clients, pc'[d] = "update"
                 PROVE  /\ loc'[d].revision <= supabaseRow.revision + 1
                        /\ loc'[d].revision = supabaseRow.revision + 1
                             => EdgeFollows(loc'[d])
      BY <2>1 DEF EdgePutKept, EdgeFollows
    <3>1. CASE d = c
      <4>1. loc'[d] = next /\ next.revision \in Nat
        BY <2>1, <2>2, <3>1 DEF EdgeConfigKept, EdgeConfigType, EdgeRows
      <4> QED BY <2>2, <4>1
    <3>2. CASE d # c
      <4>1. loc'[d] = loc[d] /\ pc[d] = "update"
        BY <2>1, <3>2 DEF EdgeConfigKept, EdgeConfigType
      <4> QED BY <4>1 DEF EdgeConfigKept, EdgePutKept
    <3> QED BY <3>1, <3>2
  <2> QED BY <2>3, <2>4 DEF EdgeConfigKept
<1>2. ASSUME NEW c \in Clients, SupabaseConfig!PutCommit(c) PROVE EdgeConfigKept'
  <2>1. /\ pc' = [pc EXCEPT ![c] = "idle"]
        /\ loc' = [loc EXCEPT ![c] = SupabaseConfig!Default]
        /\ clock' = clock
    BY <1>2 DEF SupabaseConfig!PutCommit
  <2>2. supabaseRow' \in EdgeRows /\ supabaseRow'.revision = supabaseRow.revision + 1
    BY <1>2, EdgeCommitFacts DEF EdgeConfigKept, EdgeConfigType
  <2>3. EdgeConfigType'
    BY <2>1, <2>2, EdgeDefaultRow DEF EdgeConfigKept, EdgeConfigType
  <2>4. EdgePutKept'
    <3> SUFFICES ASSUME NEW d \in Clients, pc'[d] = "update"
                 PROVE  loc'[d].revision < supabaseRow'.revision + 1
      <4>1. \A d \in Clients : loc'[d].revision \in Nat
        BY <2>3 DEF EdgeConfigType, EdgeRows
      <4>2. supabaseRow'.revision \in Nat
        BY <2>3 DEF EdgeConfigType, EdgeRows
      <4> QED BY <4>1, <4>2 DEF EdgePutKept
    <3>1. loc'[d] = loc[d] /\ pc[d] = "update"
      BY <2>1 DEF EdgeConfigKept, EdgeConfigType
    <3>2. loc[d].revision <= supabaseRow.revision + 1
      BY <3>1 DEF EdgeConfigKept, EdgePutKept
    <3>3. loc[d].revision \in Nat /\ supabaseRow.revision \in Nat
      BY DEF EdgeConfigKept, EdgeConfigType, EdgeRows
    <3> QED BY <2>2, <3>1, <3>2, <3>3
  <2> QED BY <2>3, <2>4 DEF EdgeConfigKept
<1>3. ASSUME NEW c \in Clients, SupabaseConfig!PutRefused(c) PROVE EdgeConfigKept'
  <2>1. /\ pc' = [pc EXCEPT ![c] = "idle"]
        /\ loc' = [loc EXCEPT ![c] = SupabaseConfig!Default]
        /\ UNCHANGED <<supabaseRow, clock>>
    BY <1>3 DEF SupabaseConfig!PutRefused
  <2>2. EdgeConfigType'
    BY <2>1, EdgeDefaultRow DEF EdgeConfigKept, EdgeConfigType
  <2>3. EdgePutKept'
    BY <2>1 DEF EdgeConfigKept, EdgeConfigType, EdgePutKept, EdgeFollows
  <2> QED BY <2>2, <2>3 DEF EdgeConfigKept
<1>4. CASE UNCHANGED <<supabaseRow, pc, loc>> /\ clock' \in Nat
  BY <1>4 DEF EdgeConfigKept, EdgeConfigType, EdgePutKept, EdgeFollows
<1>5. clock \in Nat
  BY DEF EdgeConfigKept, EdgeConfigType
<1> QED BY <1>1, <1>2, <1>3, <1>4, <1>5
           DEF SupabaseConfig!Next, SupabaseConfig!Get, SupabaseConfig!Tick

\* What a step does to the configuration when Supabase is the subject
LEMMA EdgeConfigStep ==
  ASSUME [AdministrationNext]_administrationVars
  PROVE  /\ subject' = subject
         /\ IF subject = "supabaseConfiguration"
            THEN \/ SupabaseConfig!Next
                 \/ UNCHANGED <<supabaseRow, pc, loc, clock>>
            ELSE supabaseRow' = supabaseRow
<1>1. subject' = subject
  BY DEF AdministrationNext, administrationVars, ConfigurationsNext, NodeNext,
         CloudflareNext, SupabaseNext, ConsoleNext
<1>2. CASE subject = "supabaseConfiguration"
  BY <1>1, <1>2 DEF AdministrationNext, administrationVars, configurationsVars, vars,
         supabaseConfigVars, ConfigurationsNext, NodeNext, CloudflareNext,
         SupabaseNext, ConsoleNext
<1>3. CASE subject # "supabaseConfiguration"
  BY <1>1, <1>3 DEF AdministrationNext, administrationVars, configurationsVars,
         supabaseConfigVars, ConfigurationsNext, NodeNext, CloudflareNext,
         SupabaseNext, ConsoleNext
<1> QED BY <1>1, <1>2, <1>3

LEMMA EdgeConfigInvariant == AdministrationSpec => []EdgeConfigInv
<1>1. AdministrationInit => EdgeConfigInv
  BY EdgeConfigStart
     DEF AdministrationInit, ConfigurationsInit, ConfigurationsStill,
         SupabaseConfigStill, EdgeConfigInv
<1>2. EdgeConfigInv /\ [AdministrationNext]_administrationVars => EdgeConfigInv'
  BY EdgeConfigStep, EdgeConfigKeeps DEF EdgeConfigInv
<1> QED BY <1>1, <1>2, PTL DEF AdministrationSpec

\* Every step is one change of the shared configuration or none at all.
LEMMA EdgeStepIsChange ==
  ASSUME EdgeConfigInv, [AdministrationNext]_administrationVars
  PROVE  [SupabaseConfig!Shared!Next]_edgeShared
<1>1. ASSUME supabaseRow' = supabaseRow PROVE UNCHANGED edgeShared
  BY <1>1 DEF edgeShared
<1>2. ASSUME subject = "supabaseConfiguration",
             NEW c \in Clients, SupabaseConfig!PutCommit(c)
      PROVE  SupabaseConfig!Shared!Next
  <2>1. EdgeConfigKept
    BY <1>2 DEF EdgeConfigInv
  <2>2. /\ supabaseRow'.revision = supabaseRow.revision + 1
        /\ EdgeFollows(supabaseRow')
    BY <1>2, <2>1, EdgeCommitFacts
  <2>3. PICK change \in SupabaseConfig!Shared!Changes :
          SupabaseConfig!Content(supabaseRow')
            = SupabaseConfig!Shared!Applied(SupabaseConfig!Content(supabaseRow), change)
    BY <2>2 DEF EdgeFollows
  <2>4. SupabaseConfig!Shared!Change(change)
    BY <2>2, <2>3 DEF SupabaseConfig!Shared!Change
  <2> QED BY <2>4 DEF SupabaseConfig!Shared!Next
<1>3. \/ supabaseRow' = supabaseRow
      \/ /\ subject = "supabaseConfiguration"
         /\ \E c \in Clients : SupabaseConfig!PutCommit(c)
  BY EdgeConfigStep DEF SupabaseConfig!Next, SupabaseConfig!Get, SupabaseConfig!Tick,
     SupabaseConfig!PutRead, SupabaseConfig!PutRefused
<1> QED BY <1>1, <1>2, <1>3

(* of_update_config implements SharedConfiguration: changes made at the     *)
(* same time take effect one after another, each on the one in force.       *)
THEOREM SupabaseImplementsSharedHolds ==
  AdministrationSpec => SupabaseImplementsShared
<1>1. AdministrationInit => SupabaseConfig!Shared!Init
  <2> SUFFICES ASSUME AdministrationInit PROVE SupabaseConfig!Shared!Init
    OBVIOUS
  <2>1. supabaseRow = SupabaseConfig!Default
    BY DEF AdministrationInit, ConfigurationsInit, ConfigurationsStill,
           SupabaseConfigStill, SupabaseConfig!Init
  <2> QED BY <2>1, EdgeDefaultRow, ConfigurationAssumption
             DEF SupabaseConfig!Shared!Init
<1> QED
  BY <1>1, EdgeStepIsChange, EdgeConfigInvariant, PTL
     DEF AdministrationSpec, SupabaseImplementsShared,
         SupabaseConfig!ImplementsSharedConfiguration, SupabaseConfig!Shared!Spec,
         edgeShared

-----------------------------------------------------------------------------
(* The Admin console.  A refresh token is used under one profile only:     *)
(* the one it was stored for first, or the one a refresh asked it for.     *)
(* owner says which; so the consumed scope of a token, which names a       *)
(* profile too, is the same for every tab and call that holds the token.   *)

Nobody == "none"

Owners == [1 .. MaxPairs -> Profiles \cup {Nobody}]

UrlTables == [Profiles -> Endpoints \cup {Nobody}]

TabRecords ==
  [open : BOOLEAN, url : UrlTables, active : Profiles \cup {Nobody},
   api : Endpoints \cup {Nobody}, session : 0 .. MaxPairs, busy : BOOLEAN]

PairRecords ==
  [issuer : Endpoints \cup {Nobody}, session : Nat,
   state : {"current", "rotated", "revoked"}, profile : Profiles \cup {Nobody}]

Refreshing ==
  {"digest", "queued", "send", "answered", "failed", "joining", "rejected", "apply"}

OpRecords ==
  [at : Refreshing \cup {"idle", "public", "login", "signedIn", "logout"},
   tab : Tabs \cup {Nobody}, profile : Profiles \cup {Nobody},
   token : 0 .. MaxPairs, persistent : BOOLEAN, client : Endpoints \cup {Nobody},
   mail : 0 .. (MaxPairs + 1), pair : 0 .. MaxPairs]

ConsoleType ==
  /\ stored \in [url : UrlTables, active : Profiles \cup {Nobody}]
  /\ local \in [Profiles -> 0 .. MaxPairs]
  /\ own \in [Tabs -> [Profiles -> 0 .. MaxPairs]]
  /\ consumed \subseteq Profiles \X (1 .. MaxPairs)
  /\ tab \in [Tabs -> TabRecords]
  /\ op \in [Calls -> OpRecords]
  /\ pairs \in Seq(PairRecords) /\ Len(pairs) <= MaxPairs
  /\ presented \in [1 .. MaxPairs -> Nat]

\* n is the token of a pair issued, and belongs to p.
Owned(n, p, owner) == n \in 1 .. Len(pairs) /\ owner[n] = p

\* The pair n was issued to a refresh of p.
IssuedTo(n, p, owner) == Owned(n, p, owner) /\ pairs[n].profile = p

StoreKept(owner) ==
  \A p \in Profiles :
    /\ local[p] # 0 => Owned(local[p], p, owner)
    /\ \A t \in Tabs : own[t][p] # 0 => Owned(own[t][p], p, owner)

MarksKept(owner) ==
  /\ \A s \in consumed : Owned(s[2], s[1], owner)
  /\ \A n \in 1 .. MaxPairs :
       /\ presented[n] <= 1
       /\ presented[n] # 0 => <<owner[n], n>> \in consumed
       /\ n > Len(pairs) => owner[n] = Nobody

TabSound(r) ==
  r.session # 0 =>
    /\ r.session \in 1 .. Len(pairs)
    /\ pairs[r.session].profile \in {Nobody, r.active}

TabsKept == \A t \in Tabs : TabSound(tab[t])

OpSound(o, owner) ==
  /\ o.at # "idle" => o.tab \in Tabs
  /\ o.at = "public" => o.mail = 0
  /\ o.at = "logout" => o.pair \in 1 .. Len(pairs)
  /\ o.at \in Refreshing =>
       /\ o.profile \in Profiles
       /\ Owned(o.token, o.profile, owner)
       /\ \/ o.mail \in {0, MaxPairs + 1}
          \/ IssuedTo(o.mail, o.profile, owner)
  /\ o.at \in {"answered", "apply"} => IssuedTo(o.pair, o.profile, owner)

OpsKept(owner) == \A c \in Calls : OpSound(op[c], owner)

\* A token about to be sent has its scope marked, and nobody else sends it.
SendKept ==
  \A c \in Calls : op[c].at = "send" =>
    /\ <<op[c].profile, op[c].token>> \in consumed
    /\ presented[op[c].token] = 0
    /\ \A d \in Calls : op[d].at = "send" /\ op[d].token = op[c].token => d = c

\* The pair of a login that has not been applied belongs to no profile yet.
LoginKept(owner) ==
  \A c \in Calls : op[c].at = "signedIn" =>
    /\ Owned(op[c].pair, Nobody, owner) /\ pairs[op[c].pair].profile = Nobody
    /\ \A d \in Calls : op[d].at = "signedIn" /\ op[d].pair = op[c].pair => d = c

ConsoleKept(owner) ==
  /\ ConsoleType /\ StoreKept(owner) /\ MarksKept(owner) /\ TabsKept
  /\ OpsKept(owner) /\ SendKept /\ LoginKept(owner)

ConsoleInv ==
  subject = "console" => \E owner \in Owners : ConsoleKept(owner)

LEMMA NobodyNoProfile == Nobody \notin Profiles /\ MaxPairs \in Nat
BY AdministrationAssumption DEF Nobody

LEMMA IdleRecord ==
  /\ Console!Idle \in OpRecords
  /\ Console!Idle.at = "idle"
  /\ \A owner : OpSound(Console!Idle, owner)
<1>1. Console!Idle \in OpRecords /\ Console!Idle.at = "idle"
  BY NobodyNoProfile DEF Console!Idle, Console!None, OpRecords, Nobody
<1> QED BY <1>1 DEF OpSound, Refreshing

LEMMA ConsoleStart ==
  Console!Init => \E owner \in Owners : ConsoleKept(owner)
<1> SUFFICES ASSUME Console!Init PROVE \E owner \in Owners : ConsoleKept(owner)
  OBVIOUS
<1> DEFINE owner == [n \in 1 .. MaxPairs |-> Nobody]
<1>1. owner \in Owners
  BY DEF Owners
<1>2. stored \in [url : UrlTables, active : Profiles \cup {Nobody}]
  <2>1. (CHOOSE e \in Endpoints : TRUE) \in Endpoints
        /\ (CHOOSE p \in Profiles : TRUE) \in Profiles
    BY AdministrationAssumption
  <2> QED BY <2>1 DEF Console!Init, UrlTables
<1>3. ConsoleType
  <2>1. op \in [Calls -> OpRecords]
    BY IdleRecord DEF Console!Init
  <2>2. tab \in [Tabs -> TabRecords]
    <3> DEFINE shut == [open |-> FALSE, url |-> stored.url, active |-> Nobody,
                        api |-> Nobody, session |-> 0, busy |-> FALSE]
    <3>1. shut \in TabRecords
      <4>1. stored.url \in UrlTables /\ 0 \in 0 .. MaxPairs
        BY <1>2, NobodyNoProfile
      <4> QED BY <4>1 DEF TabRecords
    <3>2. tab = [t \in Tabs |-> shut]
      BY DEF Console!Init, Console!None, Nobody
    <3> QED BY <3>1, <3>2
  <2>3. pairs \in Seq(PairRecords) /\ Len(pairs) <= MaxPairs
    BY NobodyNoProfile DEF Console!Init
  <2>4. /\ local \in [Profiles -> 0 .. MaxPairs]
        /\ own \in [Tabs -> [Profiles -> 0 .. MaxPairs]]
        /\ consumed = {}
        /\ presented \in [1 .. MaxPairs -> Nat]
    BY NobodyNoProfile DEF Console!Init
  <2> QED BY <1>2, <2>1, <2>2, <2>3, <2>4 DEF ConsoleType
<1>4. StoreKept(owner) /\ MarksKept(owner)
  BY NobodyNoProfile DEF Console!Init, StoreKept, MarksKept
<1>5. TabsKept
  BY DEF Console!Init, TabsKept, TabSound
<1>6. OpsKept(owner) /\ SendKept /\ LoginKept(owner)
  BY IdleRecord DEF Console!Init, OpsKept, SendKept, LoginKept
<1>7. ConsoleKept(owner)
  BY <1>3, <1>4, <1>5, <1>6 DEF ConsoleKept
<1> QED BY <1>1, <1>7

\* Pairs are only added, and what is owned stays so.
Continues(owner, next) ==
  /\ Len(pairs) <= Len(pairs')
  /\ \A n \in 1 .. Len(pairs) : pairs'[n].profile = pairs[n].profile
  /\ \A n \in 1 .. MaxPairs : owner[n] \in Profiles => next[n] = owner[n]

LEMMA OwnedStays ==
  ASSUME ConsoleType, ConsoleType', NEW owner, NEW next, Continues(owner, next),
         NEW n, NEW p \in Profiles, Owned(n, p, owner)
  PROVE  /\ Owned(n, p, next)'
         /\ IssuedTo(n, p, owner) => IssuedTo(n, p, next)'
<1>1. n \in 1 .. Len(pairs) /\ owner[n] = p /\ n \in 1 .. Len(pairs') /\ n \in 1 .. MaxPairs
  BY NobodyNoProfile DEF Owned, Continues, ConsoleType
<1> QED BY <1>1 DEF Owned, IssuedTo, Continues

LEMMA OpSoundStays ==
  ASSUME ConsoleType, ConsoleType', NEW owner, NEW next, Continues(owner, next),
         NEW o, OpSound(o, owner)
  PROVE  OpSound(o, next)'
<1>1. Len(pairs) \in Nat /\ Len(pairs') \in Nat /\ Len(pairs) <= Len(pairs')
  BY DEF Continues, ConsoleType
<1>2. ASSUME o.at \in Refreshing
      PROVE  /\ o.profile \in Profiles /\ Owned(o.token, o.profile, next)'
             /\ o.mail \in {0, MaxPairs + 1} \/ IssuedTo(o.mail, o.profile, next)'
  BY <1>2, OwnedStays DEF OpSound, IssuedTo
<1>3. ASSUME o.at \in {"answered", "apply"} PROVE IssuedTo(o.pair, o.profile, next)'
  <2>1. o.profile \in Profiles /\ IssuedTo(o.pair, o.profile, owner)
    BY <1>3 DEF OpSound, Refreshing
  <2> QED BY <2>1, OwnedStays DEF IssuedTo
<1>4. o.at = "logout" => o.pair \in 1 .. Len(pairs')
  BY <1>1 DEF OpSound
<1> QED BY <1>2, <1>3, <1>4 DEF OpSound

\* A step that issues, sends and marks nothing keeps the invariant when
\* what it stores and what it leaves in tabs and calls is sound.
LEMMA QuietStep ==
  ASSUME NEW owner \in Owners, ConsoleKept(owner), ConsoleType',
         UNCHANGED <<consumed, pairs, presented>>,
         StoreKept(owner)', TabsKept',
         \A d \in Calls : OpSound(op'[d], owner),
         \A d \in Calls : op'[d].at \in {"send", "signedIn"} => op'[d] = op[d]
  PROVE  \E next \in Owners : ConsoleKept(next)'
<1>1. Continues(owner, owner)
  BY DEF Continues, ConsoleKept, ConsoleType
<1>2. OpsKept(owner)'
  BY <1>1, OpSoundStays DEF ConsoleKept, OpsKept
<1>3. MarksKept(owner)'
  BY DEF ConsoleKept, MarksKept, Owned
<1>4. SendKept'
  BY DEF ConsoleKept, SendKept
<1>5. LoginKept(owner)'
  BY DEF ConsoleKept, LoginKept, Owned
<1>6. ConsoleKept(owner)'
  BY <1>2, <1>3, <1>4, <1>5 DEF ConsoleKept
<1> QED BY <1>6

StoreFine(owner) ==
  /\ local \in [Profiles -> 0 .. MaxPairs]
  /\ own \in [Tabs -> [Profiles -> 0 .. MaxPairs]]
  /\ StoreKept(owner)

TabsFine == tab \in [Tabs -> TabRecords] /\ TabsKept

LEMMA ConsoleFine ==
  ASSUME NEW owner, ConsoleKept(owner) PROVE StoreFine(owner) /\ TabsFine
BY DEF ConsoleKept, ConsoleType, StoreFine, TabsFine

LEMMA StoreStill ==
  ASSUME NEW owner, ConsoleKept(owner), UNCHANGED <<local, own, pairs>>
  PROVE  StoreFine(owner)'
BY ConsoleFine DEF StoreFine, StoreKept, Owned

LEMMA TabsStill ==
  ASSUME NEW owner, ConsoleKept(owner), UNCHANGED <<tab, pairs>>
  PROVE  TabsFine'
BY ConsoleFine DEF TabsFine, TabsKept, TabSound

\* ClearRefreshToken and StoreRefreshToken of a token that p owns
LEMMA StoreCleared ==
  ASSUME NEW owner, ConsoleKept(owner), NEW t \in Tabs, NEW p \in Profiles,
         Console!ClearRefreshToken(t, p), pairs' = pairs
  PROVE  StoreFine(owner)'
<1>1. StoreFine(owner) /\ MaxPairs \in Nat
  BY ConsoleFine, NobodyNoProfile
<1>2. /\ local' \in [Profiles -> 0 .. MaxPairs]
      /\ own' \in [Tabs -> [Profiles -> 0 .. MaxPairs]]
  BY <1>1 DEF Console!ClearRefreshToken, StoreFine
<1>3. \A q \in Profiles :
        /\ local'[q] \in {0, local[q]}
        /\ \A u \in Tabs : own'[u][q] \in {0, own[u][q]}
  BY <1>1 DEF Console!ClearRefreshToken, StoreFine
<1> QED BY <1>1, <1>2, <1>3 DEF StoreFine, StoreKept, Owned

LEMMA StoreTaken ==
  ASSUME NEW owner, ConsoleType, StoreKept(owner),
         NEW t \in Tabs, NEW p \in Profiles, NEW n, NEW persistent \in BOOLEAN,
         Console!StoreRefreshToken(t, p, n, persistent), Owned(n, p, owner),
         pairs' = pairs
  PROVE  StoreFine(owner)'
<1> DEFINE a == IF persistent THEN n ELSE 0
           b == IF persistent THEN 0 ELSE n
<1>1. n \in 0 .. MaxPairs
  <2>1. Len(pairs) \in Nat /\ Len(pairs) <= MaxPairs /\ n \in 1 .. Len(pairs)
    BY DEF Owned, ConsoleType
  <2> QED BY <2>1, NobodyNoProfile
<1>2. a \in {0, n} /\ b \in {0, n} /\ 0 \in 0 .. MaxPairs
  BY NobodyNoProfile
<1>3. local' = [local EXCEPT ![p] = a] /\ own' = [own EXCEPT ![t][p] = b]
  BY DEF Console!StoreRefreshToken
<1> HIDE DEF a, b
<1>4. /\ local' \in [Profiles -> 0 .. MaxPairs]
      /\ own' \in [Tabs -> [Profiles -> 0 .. MaxPairs]]
  BY <1>1, <1>2, <1>3 DEF ConsoleType
<1>5. \A q \in Profiles :
        /\ local'[q] \in {0, local[q]} \/ (q = p /\ local'[q] = n)
        /\ \A u \in Tabs :
             own'[u][q] \in {0, own[u][q]} \/ (q = p /\ own'[u][q] = n)
  BY <1>2, <1>3 DEF ConsoleType
<1>6. \A m, q : Owned(m, q, owner) => Owned(m, q, owner)'
  BY DEF Owned
<1>7. ASSUME NEW q \in Profiles, local'[q] # 0
      PROVE  Owned(local'[q], q, owner)
  BY <1>5, <1>7 DEF StoreKept
<1>8. ASSUME NEW q \in Profiles, NEW u \in Tabs, own'[u][q] # 0
      PROVE  Owned(own'[u][q], q, owner)
  BY <1>5, <1>8 DEF StoreKept
<1>9. StoreKept(owner)'
  BY <1>6, <1>7, <1>8 DEF StoreKept
<1> QED BY <1>4, <1>9 DEF StoreFine

\* One tab is replaced by a sound one.
LEMMA TabReplaced ==
  ASSUME NEW owner, ConsoleKept(owner), NEW t \in Tabs, NEW r \in TabRecords,
         TabSound(r), tab' = [tab EXCEPT ![t] = r], pairs' = pairs
  PROVE  TabsFine'
<1>1. TabsFine
  BY ConsoleFine
<1> QED BY <1>1 DEF TabsFine, TabsKept, TabSound

LEMMA TabBusy ==
  ASSUME NEW owner, ConsoleKept(owner), NEW t \in Tabs, NEW x \in BOOLEAN,
         tab' = [tab EXCEPT ![t].busy = x], pairs' = pairs
  PROVE  TabsFine'
<1> DEFINE r == [tab[t] EXCEPT !.busy = x]
<1>1. TabsFine /\ tab[t] \in TabRecords /\ TabSound(tab[t])
  BY ConsoleFine DEF TabsFine, TabsKept
<1>2. /\ r \in TabRecords /\ r.session = tab[t].session
      /\ r.active = tab[t].active
  BY <1>1 DEF TabRecords
<1>3. TabSound(r)
  BY <1>1, <1>2 DEF TabSound
<1>4. tab' = [tab EXCEPT ![t] = r]
  BY <1>1 DEF TabsFine
<1> HIDE DEF r
<1> QED BY <1>2, <1>3, <1>4, TabReplaced

\* One call takes a step that issues, sends and marks nothing.
LEMMA CallStep ==
  ASSUME NEW owner \in Owners, ConsoleKept(owner), NEW c \in Calls,
         NEW o \in OpRecords, OpSound(o, owner), o.at \notin {"send", "signedIn"},
         op' = [op EXCEPT ![c] = o], UNCHANGED <<consumed, pairs, presented>>,
         stored' \in [url : UrlTables, active : Profiles \cup {Nobody}],
         StoreFine(owner)', TabsFine'
  PROVE  \E next \in Owners : ConsoleKept(next)'
<1>1. op \in [Calls -> OpRecords] /\ op' \in [Calls -> OpRecords]
  BY DEF ConsoleKept, ConsoleType
<1>2. /\ \A d \in Calls : OpSound(op'[d], owner)
      /\ \A d \in Calls : op'[d].at \in {"send", "signedIn"} => op'[d] = op[d]
  BY <1>1 DEF ConsoleKept, OpsKept
<1>3. ConsoleType'
  BY <1>1 DEF ConsoleKept, ConsoleType, StoreFine, TabsFine
<1> QED BY <1>2, <1>3, QuietStep DEF StoreFine, TabsFine

\* Step: the call goes on with what it has.
LEMMA Stepped ==
  ASSUME NEW owner, ConsoleKept(owner), NEW c \in Calls, NEW at,
         op[c].at \in Refreshing, at \in Refreshing,
         at \notin {"answered", "apply"}, Console!Step(c, at)
  PROVE  LET o == [op[c] EXCEPT !.at = at] IN
           /\ o \in OpRecords /\ o.at = at /\ OpSound(o, owner)
           /\ op' = [op EXCEPT ![c] = o]
<1> DEFINE o == [op[c] EXCEPT !.at = at]
<1>1. op[c] \in OpRecords /\ OpSound(op[c], owner)
  BY DEF ConsoleKept, ConsoleType, OpsKept
<1>2. /\ o \in OpRecords /\ o.at = at /\ o.tab = op[c].tab
      /\ o.profile = op[c].profile /\ o.token = op[c].token /\ o.mail = op[c].mail
      /\ o.pair = op[c].pair
  BY <1>1 DEF OpRecords
<1>3. op' = [op EXCEPT ![c] = o]
  BY DEF Console!Step, Console!Goto
<1> HIDE DEF o
<1>4. OpSound(o, owner)
  BY <1>1, <1>2 DEF OpSound, Refreshing
<1> QED BY <1>2, <1>3, <1>4 DEF o

\* Ends: the call is over, and its tab no longer busy.
LEMMA CallEnds ==
  ASSUME NEW owner \in Owners, ConsoleKept(owner), NEW c \in Calls,
         op[c].at # "idle", Console!Ends(c),
         UNCHANGED <<stored, consumed, pairs, presented>>, StoreFine(owner)'
  PROVE  \E next \in Owners : ConsoleKept(next)'
<1>1. op[c].tab \in Tabs
  BY DEF ConsoleKept, OpsKept, OpSound
<1>2. TabsFine'
  BY <1>1, TabBusy DEF Console!Ends
<1>3. stored' \in [url : UrlTables, active : Profiles \cup {Nobody}]
  BY DEF ConsoleKept, ConsoleType
<1>4. op' = [op EXCEPT ![c] = Console!Idle]
  BY DEF Console!Ends, Console!Goto
<1> QED BY <1>2, <1>3, <1>4, IdleRecord, CallStep

\* What a call that restores a session may have found
LEMMA TokenFound ==
  ASSUME NEW owner, ConsoleKept(owner), NEW t \in Tabs, NEW p \in Profiles,
         Console!ReadRefreshToken(t, p).token # 0
  PROVE  LET found == Console!ReadRefreshToken(t, p) IN
           /\ Owned(found.token, p, owner) /\ found.token \in 0 .. MaxPairs
           /\ found.persistent \in BOOLEAN
<1> DEFINE found == Console!ReadRefreshToken(t, p)
<1>1. StoreFine(owner)
  BY ConsoleFine
<1>2. CASE own[t][p] # 0
  <2>1. found.token = own[t][p] /\ found.persistent = FALSE
    BY <1>2 DEF Console!ReadRefreshToken
  <2> QED BY <1>1, <1>2, <2>1 DEF StoreFine, StoreKept
<1>3. CASE own[t][p] = 0
  <2>1. found.token = local[p] /\ found.persistent = TRUE
    BY <1>3 DEF Console!ReadRefreshToken
  <2> QED BY <1>1, <2>1 DEF StoreFine, StoreKept
<1> QED BY <1>2, <1>3

LEMMA RestoreSessionKeeps ==
  ASSUME NEW owner \in Owners, ConsoleKept(owner), NEW c \in Calls,
         Console!RestoreSession(c)
  PROVE  \E next \in Owners : ConsoleKept(next)'
<1> DEFINE t == op[c].tab
           p == tab[t].active
           found == Console!ReadRefreshToken(t, p)
           token == found.token
           persistent == found.persistent
           client == tab[t].api
           o == [op[c] EXCEPT !.at = "digest", !.profile = p, !.token = token,
                              !.persistent = persistent, !.client = client]
<1>1. /\ op[c].at = "public" /\ UNCHANGED <<stored, local, own, consumed, pairs, presented>>
  BY DEF Console!RestoreSession, Console!browser, Console!server
<1>2. /\ t \in Tabs /\ op[c] \in OpRecords /\ OpSound(op[c], owner)
      /\ tab[t] \in TabRecords
      /\ stored' \in [url : UrlTables, active : Profiles \cup {Nobody}]
  BY <1>1 DEF ConsoleKept, OpsKept, OpSound, ConsoleType
<1>3. StoreFine(owner)'
  BY <1>1, StoreStill
<1>4. CASE Console!Ends(c)
  BY <1>1, <1>3, <1>4, CallEnds
<1>5. CASE ~(p = Console!None \/ tab[t].session # 0 \/ found.token = 0)
  <2>1. /\ op' = [op EXCEPT ![c] = o]
        /\ tab' = [tab EXCEPT ![t].busy = TRUE]
    BY <1>5 DEF Console!RestoreSession, Console!Goto
  <2>2. p \in Profiles /\ client \in Endpoints \cup {Nobody}
    BY <1>2, <1>5 DEF TabRecords, Console!None, Nobody
  <2>3. /\ Owned(token, p, owner) /\ token \in 0 .. MaxPairs
        /\ persistent \in BOOLEAN
    BY <1>2, <1>5, <2>2, TokenFound
  <2>4. TabsFine'
    BY <1>1, <1>2, <2>1, TabBusy
  <2> HIDE DEF p, t, client, token, persistent
  <2>5. /\ o \in OpRecords /\ o.at = "digest" /\ o.tab = op[c].tab
        /\ o.profile = p /\ o.token = token /\ o.mail = op[c].mail
    BY <1>2, <2>2, <2>3 DEF OpRecords, Refreshing
  <2>6. op[c].mail = 0
    BY <1>1, <1>2 DEF OpSound
  <2> HIDE DEF o
  <2>7. OpSound(o, owner)
    BY <1>2, <2>2, <2>3, <2>5, <2>6 DEF OpSound, t
  <2> QED BY <1>1, <1>2, <1>3, <2>1, <2>4, <2>5, <2>7, CallStep
<1> QED BY <1>4, <1>5 DEF Console!RestoreSession


\* Calls that only go on, or end
LEMMA GoingOnKeeps ==
  ASSUME NEW owner \in Owners, ConsoleKept(owner), NEW c \in Calls,
         \/ Console!Subscribe(c) \/ Console!GiveUp(c) \/ Console!Unsent(c)
         \/ Console!JoinFails(c) \/ Console!Reject(c) \/ Console!LoginRefused(c)
         \/ Console!Enter(c) /\ Console!WasConsumed(c)
  PROVE  \E next \in Owners : ConsoleKept(next)'
<1>1. /\ op[c].at # "idle" => op[c].tab \in Tabs
      /\ op[c].at \in Refreshing => op[c].profile \in Profiles
      /\ stored \in [url : UrlTables, active : Profiles \cup {Nobody}]
  BY DEF ConsoleKept, OpsKept, OpSound, ConsoleType
<1>2. ASSUME Console!Ends(c), op[c].at # "idle",
             UNCHANGED <<stored, consumed, pairs, presented>>,
             \/ UNCHANGED <<local, own>>
             \/ /\ op[c].at \in Refreshing
                /\ Console!ClearRefreshToken(op[c].tab, op[c].profile)
      PROVE  \E next \in Owners : ConsoleKept(next)'
  <2>1. StoreFine(owner)'
    BY <1>1, <1>2, StoreStill, StoreCleared
  <2> QED BY <1>2, <2>1, CallEnds
<1>3. ASSUME NEW at \in Refreshing, at \notin {"answered", "apply", "send"},
             op[c].at \in Refreshing, Console!Step(c, at),
             UNCHANGED <<stored, consumed, tab, pairs, presented>>,
             \/ UNCHANGED <<local, own>>
             \/ Console!ClearRefreshToken(op[c].tab, op[c].profile)
      PROVE  \E next \in Owners : ConsoleKept(next)'
  <2> DEFINE o == [op[c] EXCEPT !.at = at]
  <2>1. /\ o \in OpRecords /\ o.at = at /\ OpSound(o, owner)
        /\ op' = [op EXCEPT ![c] = o]
    BY <1>3, Stepped
  <2> HIDE DEF o
  <2>2. TabsFine'
    BY <1>3, TabsStill
  <2>3. StoreFine(owner)'
    BY <1>1, <1>3, StoreStill, StoreCleared DEF Refreshing
  <2>4. o.at \notin {"send", "signedIn"}
    BY <1>3, <2>1 DEF Refreshing
  <2> QED BY <1>1, <1>3, <2>1, <2>2, <2>3, <2>4, CallStep
<1>4. CASE Console!Subscribe(c)
  BY <1>3, <1>4 DEF Console!Subscribe, Console!browser, Console!server, Refreshing
<1>5. CASE Console!Unsent(c)
  BY <1>3, <1>5 DEF Console!Unsent, Console!browser, Console!server, Refreshing
<1>6. CASE Console!JoinFails(c)
  BY <1>3, <1>6 DEF Console!JoinFails, Console!server, Refreshing
<1>7. CASE Console!Enter(c) /\ Console!WasConsumed(c)
  BY <1>3, <1>7 DEF Console!Enter, Console!server, Refreshing
<1>8. CASE Console!GiveUp(c)
  BY <1>2, <1>8 DEF Console!GiveUp, Console!server, Refreshing
<1>9. CASE Console!Reject(c)
  BY <1>2, <1>9 DEF Console!Reject, Console!server, Refreshing
<1>10. CASE Console!LoginRefused(c)
  BY <1>2, <1>10 DEF Console!LoginRefused, Console!browser, Console!server
<1> QED BY <1>4, <1>5, <1>6, <1>7, <1>8, <1>9, <1>10

LEMMA JoinKeeps ==
  ASSUME NEW owner \in Owners, ConsoleKept(owner), NEW c \in Calls,
         Console!JoinCompletedRefresh(c)
  PROVE  \E next \in Owners : ConsoleKept(next)'
<1> DEFINE n == op[c].mail
           o == [op[c] EXCEPT !.at = "apply", !.pair = n]
<1>1. /\ op[c].at = "joining" /\ n \in 1 .. MaxPairs
      /\ Console!StoreRefreshToken(op[c].tab, op[c].profile, n, op[c].persistent)
      /\ op' = [op EXCEPT ![c] = o]
      /\ UNCHANGED <<stored, consumed, tab, pairs, presented>>
  BY DEF Console!JoinCompletedRefresh, Console!Goto, Console!server
<1>2. op[c] \in OpRecords /\ OpSound(op[c], owner)
  BY DEF ConsoleKept, OpsKept, ConsoleType
<1>3. /\ op[c].tab \in Tabs /\ op[c].profile \in Profiles
      /\ op[c].persistent \in BOOLEAN
      /\ IssuedTo(n, op[c].profile, owner)
  BY <1>1, <1>2, NobodyNoProfile DEF OpSound, OpRecords, Refreshing
<1>4. StoreFine(owner)'
  BY <1>1, <1>3, StoreTaken DEF ConsoleKept, IssuedTo
<1>5. TabsFine' /\ stored' \in [url : UrlTables, active : Profiles \cup {Nobody}]
  BY <1>1, TabsStill DEF ConsoleKept, ConsoleType
<1>6. n \in 0 .. MaxPairs
  BY <1>1
<1> HIDE DEF n
<1>7. /\ o \in OpRecords /\ o.at = "apply" /\ o.tab = op[c].tab /\ o.pair = n
      /\ o.profile = op[c].profile /\ o.token = op[c].token /\ o.mail = op[c].mail
  BY <1>2, <1>6 DEF OpRecords, Refreshing
<1> HIDE DEF o
<1>8. OpSound(o, owner)
  BY <1>1, <1>2, <1>3, <1>7 DEF OpSound, Refreshing
<1> QED BY <1>1, <1>4, <1>5, <1>7, <1>8, CallStep

LEMMA BeginSessionKeeps ==
  ASSUME NEW owner \in Owners, ConsoleKept(owner), NEW c \in Calls, NEW t \in Tabs,
         \/ \E remember \in BOOLEAN : Console!Login(c, t, remember)
         \/ Console!Logout(c, t)
  PROVE  \E next \in Owners : ConsoleKept(next)'
<1> DEFINE client == tab[t].api
           session == tab[t].session
<1>1. /\ tab[t] \in TabRecords /\ TabSound(tab[t])
      /\ stored \in [url : UrlTables, active : Profiles \cup {Nobody}]
  BY DEF ConsoleKept, ConsoleType, TabsKept
<1>2. client \in Endpoints \cup {Nobody} /\ session \in 0 .. MaxPairs
  BY <1>1 DEF TabRecords
<1>3. ASSUME NEW remember \in BOOLEAN, Console!Login(c, t, remember)
      PROVE  \E next \in Owners : ConsoleKept(next)'
  <2> DEFINE o == [Console!Idle EXCEPT !.at = "login", !.tab = t, !.client = client,
                                       !.persistent = remember]
  <2>1. /\ op' = [op EXCEPT ![c] = o] /\ tab' = [tab EXCEPT ![t].busy = TRUE]
        /\ UNCHANGED <<stored, local, own, consumed, pairs, presented>>
    BY <1>3 DEF Console!Login, Console!Goto, Console!browser, Console!server
  <2>2. TabsFine' /\ StoreFine(owner)'
    BY <2>1, TabBusy, StoreStill
  <2> HIDE DEF client
  <2>3. o \in OpRecords /\ o.at = "login" /\ o.tab = t
    BY <1>2, IdleRecord DEF OpRecords
  <2> HIDE DEF o
  <2>4. OpSound(o, owner)
    BY <2>3 DEF OpSound, Refreshing
  <2> QED BY <1>1, <2>1, <2>2, <2>3, <2>4, CallStep
<1>4. ASSUME Console!Logout(c, t) PROVE \E next \in Owners : ConsoleKept(next)'
  <2> DEFINE o == [Console!Idle EXCEPT !.at = "logout", !.tab = t, !.client = client,
                                       !.pair = session]
  <2>1. /\ op' = [op EXCEPT ![c] = o] /\ session # 0
        /\ UNCHANGED <<stored, local, own, consumed, tab, pairs, presented>>
    BY <1>4 DEF Console!Logout, Console!Goto, Console!browser, Console!server
  <2>2. TabsFine' /\ StoreFine(owner)'
    BY <2>1, TabsStill, StoreStill
  <2>3. session \in 1 .. Len(pairs)
    BY <1>1, <2>1 DEF TabSound
  <2> HIDE DEF client, session
  <2>4. o \in OpRecords /\ o.at = "logout" /\ o.tab = t /\ o.pair = session
    BY <1>2, IdleRecord DEF OpRecords
  <2> HIDE DEF o
  <2>5. OpSound(o, owner)
    BY <2>3, <2>4 DEF OpSound, Refreshing
  <2> QED BY <1>1, <2>1, <2>2, <2>4, <2>5, CallStep
<1> QED BY <1>3, <1>4

\* ApplySession of a pair that p, which is active, owns
LEMMA SessionApplied ==
  ASSUME NEW owner, ConsoleType, StoreKept(owner), TabsKept, NEW c \in Calls,
         NEW p \in Profiles \cup {Nobody}, Console!ApplySession(c, p),
         op[c].tab \in Tabs, tab[op[c].tab].active = p,
         op[c].pair \in 1 .. Len(pairs), pairs[op[c].pair].profile \in {Nobody, p},
         p # Nobody => owner[op[c].pair] = p, pairs' = pairs
  PROVE  StoreFine(owner)' /\ TabsFine' /\ op' = [op EXCEPT ![c] = Console!Idle]
<1> DEFINE t == op[c].tab
           n == op[c].pair
           r == [tab[t] EXCEPT !.session = n, !.busy = FALSE]
<1>1. /\ op[c] \in OpRecords /\ tab[t] \in TabRecords /\ n \in 0 .. MaxPairs
  BY DEF ConsoleType, OpRecords
<1>2. /\ tab' = [tab EXCEPT ![t].session = n, ![t].busy = FALSE]
      /\ op' = [op EXCEPT ![c] = Console!Idle]
  BY DEF Console!ApplySession, Console!Goto
<1>3. tab' = [tab EXCEPT ![t] = r]
  <2> HIDE DEF t, n
  <2> QED BY <1>2 DEF ConsoleType, TabRecords, r
<1>4. /\ r \in TabRecords /\ r.session = n /\ r.active = p
  <2> HIDE DEF n
  <2> QED BY <1>1 DEF TabRecords
<1>5. TabSound(r)
  <2> HIDE DEF r
  <2> QED BY <1>4 DEF TabSound
<1>6. TabsFine'
  <2> HIDE DEF r, t
  <2>1. t \in Tabs
    BY DEF t
  <2> QED BY <1>3, <1>4, <1>5, <2>1 DEF TabsFine, TabsKept, TabSound, ConsoleType
<1>7. StoreFine(owner)'
  <2>1. CASE p = Nobody
    <3>1. UNCHANGED <<local, own>>
      BY <2>1 DEF Console!ApplySession, Console!None, Nobody
    <3> QED BY <3>1 DEF StoreFine, StoreKept, Owned, ConsoleType
  <2>2. CASE p # Nobody
    <3>1. Console!StoreRefreshToken(t, p, n, op[c].persistent)
      BY <2>2 DEF Console!ApplySession, Console!None, Nobody
    <3>2. Owned(n, p, owner) /\ op[c].persistent \in BOOLEAN /\ p \in Profiles
      BY <1>1, <2>2 DEF Owned, OpRecords
    <3> HIDE DEF n, t
    <3>3. t \in Tabs
      BY DEF t
    <3> QED BY <3>1, <3>2, <3>3, StoreTaken
  <2> QED BY <2>1, <2>2
<1> QED BY <1>2, <1>6, <1>7

LEMMA RestoredKeeps ==
  ASSUME NEW owner \in Owners, ConsoleKept(owner), NEW c \in Calls,
         Console!Restored(c)
  PROVE  \E next \in Owners : ConsoleKept(next)'
<1> DEFINE p == op[c].profile
<1>1. /\ op[c].at = "apply" /\ UNCHANGED <<stored, consumed, pairs, presented>>
      /\ stored' \in [url : UrlTables, active : Profiles \cup {Nobody}]
  BY DEF Console!Restored, Console!server, ConsoleKept, ConsoleType
<1>2. /\ op[c].tab \in Tabs /\ p \in Profiles
      /\ IssuedTo(op[c].pair, p, owner)
  BY <1>1 DEF ConsoleKept, OpsKept, OpSound, Refreshing
<1>3. CASE Console!StillActive(c)
  <2>1. Console!ApplySession(c, p) /\ tab[op[c].tab].active = p
    BY <1>3 DEF Console!Restored, Console!StillActive
  <2>2. StoreFine(owner)' /\ TabsFine' /\ op' = [op EXCEPT ![c] = Console!Idle]
    <3> HIDE DEF p
    <3> QED BY <1>1, <1>2, <2>1, SessionApplied DEF ConsoleKept, IssuedTo, Owned
  <2> QED BY <1>1, <2>2, IdleRecord, CallStep
<1>4. CASE ~Console!StillActive(c)
  <2>1. Console!Ends(c) /\ UNCHANGED <<local, own>>
    BY <1>4 DEF Console!Restored
  <2> QED BY <1>1, <2>1, StoreStill, CallEnds
<1> QED BY <1>3, <1>4

\* publish: a sound result, and a message every waiting call may take
LEMMA PublishedKeeps ==
  ASSUME NEW owner \in Owners, ConsoleKept(owner), NEW c \in Calls,
         \/ Console!Succeed(c) \/ Console!Fail(c)
  PROVE  \E next \in Owners : ConsoleKept(next)'
<1>1. op[c] \in OpRecords /\ OpSound(op[c], owner)
  BY DEF ConsoleKept, OpsKept, ConsoleType
<1> DEFINE p == op[c].profile
           at == IF op[c].at = "answered" THEN "apply" ELSE "rejected"
           o == [op[c] EXCEPT !.at = at]
           message == IF op[c].at = "answered" THEN op[c].pair ELSE MaxPairs + 1
<1>2. /\ op[c].at \in {"answered", "failed"} /\ op[c].tab \in Tabs /\ p \in Profiles
      /\ Console!Published(c, o, message)
      /\ UNCHANGED <<stored, consumed, tab, pairs, presented>>
  BY <1>1 DEF Console!Succeed, Console!Fail, Console!Failed, Console!browser,
             Console!server, OpSound, Refreshing
<1>3. StoreFine(owner)'
  <2>1. CASE Console!Succeed(c)
    <3>1. /\ Console!StoreRefreshToken(op[c].tab, p, op[c].pair, op[c].persistent)
          /\ op[c].at = "answered"
      BY <2>1 DEF Console!Succeed
    <3>2. IssuedTo(op[c].pair, p, owner) /\ op[c].persistent \in BOOLEAN
      BY <1>1, <3>1 DEF OpSound, OpRecords
    <3> HIDE DEF p
    <3> QED BY <1>2, <3>1, <3>2, StoreTaken DEF ConsoleKept, IssuedTo
  <2>2. CASE Console!Fail(c)
    BY <1>2, <2>2, StoreStill DEF Console!Fail, Console!browser
  <2> QED BY <2>1, <2>2
<1>4. /\ o \in OpRecords /\ o.at = at /\ o.tab = op[c].tab /\ o.profile = p
      /\ o.token = op[c].token /\ o.mail = op[c].mail /\ o.pair = op[c].pair
  <2>1. at \in Refreshing
    BY DEF Refreshing
  <2> HIDE DEF at
  <2> QED BY <1>1, <2>1 DEF OpRecords
<1>5. OpSound(o, owner)
  <2> HIDE DEF o, p
  <2> QED BY <1>1, <1>2, <1>4 DEF OpSound, Refreshing, p
<1>6. /\ message \in 0 .. (MaxPairs + 1)
      /\ message = MaxPairs + 1 \/ IssuedTo(message, p, owner)
  BY <1>1, <1>2, NobodyNoProfile DEF OpSound, OpRecords
<1> HIDE DEF message, o
<1>7. ASSUME NEW d \in Calls
      PROVE  /\ op'[d] \in OpRecords /\ OpSound(op'[d], owner)
             /\ op'[d].at \in {"send", "signedIn"} => op'[d] = op[d]
  <2>1. CASE d = c
    <3>1. op'[d] = o
      BY <1>2, <2>1 DEF Console!Published
    <3> QED BY <1>4, <1>5, <3>1
  <2>2. CASE d # c /\ op[d].at \in {"queued", "joining"} /\ Console!Scope(d) = Console!Scope(c)
    <3> DEFINE q == [op[d] EXCEPT !.mail = message]
    <3>1. op'[d] = q
      BY <1>2, <2>2 DEF Console!Published
    <3>2. op[d] \in OpRecords /\ OpSound(op[d], owner)
      BY DEF ConsoleKept, OpsKept, ConsoleType
    <3>3. op[d].profile = p
      BY <2>2 DEF Console!Scope
    <3>4. /\ q \in OpRecords /\ q.at = op[d].at /\ q.tab = op[d].tab
          /\ q.profile = op[d].profile /\ q.token = op[d].token /\ q.mail = message
          /\ q.pair = op[d].pair
      BY <1>6, <3>2 DEF OpRecords
    <3> HIDE DEF q
    <3>5. OpSound(q, owner)
      BY <1>6, <2>2, <3>2, <3>3, <3>4 DEF OpSound, Refreshing
    <3> QED BY <2>2, <3>1, <3>4, <3>5
  <2>3. CASE d # c /\ ~(op[d].at \in {"queued", "joining"}
                        /\ Console!Scope(d) = Console!Scope(c))
    <3>1. op'[d] = op[d]
      BY <1>2, <2>3 DEF Console!Published
    <3> QED BY <3>1 DEF ConsoleKept, OpsKept, ConsoleType
  <2> QED BY <2>1, <2>2, <2>3
<1>8. op' \in [Calls -> OpRecords]
  <2>1. DOMAIN op' = Calls /\ op' = [d \in Calls |-> op'[d]]
    BY <1>2 DEF Console!Published
  <2> QED BY <1>7, <2>1
<1>9. TabsFine'
  BY <1>2, TabsStill
<1>10. ConsoleType'
  BY <1>2, <1>3, <1>8, <1>9 DEF ConsoleKept, ConsoleType, StoreFine, TabsFine
<1> QED BY <1>2, <1>3, <1>7, <1>9, <1>10, QuietStep DEF StoreFine, TabsFine

\* initialize begins with reading: the call holds nothing yet.
LEMMA PublicRecord ==
  ASSUME NEW t \in Tabs
  PROVE  LET o == [Console!Idle EXCEPT !.at = "public", !.tab = t] IN
           o \in OpRecords /\ o.at = "public" /\ \A owner : OpSound(o, owner)
<1> DEFINE o == [Console!Idle EXCEPT !.at = "public", !.tab = t]
<1>1. /\ o \in OpRecords /\ o.at = "public" /\ o.tab = t
      /\ o.mail = Console!Idle.mail
  BY IdleRecord DEF OpRecords
<1>2. o.mail = 0
  BY <1>1 DEF Console!Idle
<1> HIDE DEF o
<1>3. \A owner : OpSound(o, owner)
  BY <1>1, <1>2 DEF OpSound, Refreshing
<1> QED BY <1>1, <1>3 DEF o

LEMMA PageKeeps ==
  ASSUME NEW owner \in Owners, ConsoleKept(owner), NEW c \in Calls, NEW t \in Tabs,
         Console!OpenPage(c, t)
  PROVE  \E next \in Owners : ConsoleKept(next)'
<1>1. PICK u \in Tabs : Console!Load(c, t, own[u])
  BY DEF Console!OpenPage
<1> DEFINE chosen == stored.active
           api == IF chosen = Console!None THEN Console!None ELSE stored.url[chosen]
           r == [open |-> TRUE, url |-> stored.url, active |-> chosen, session |-> 0,
                 busy |-> chosen # Console!None, api |-> api]
           o == [Console!Idle EXCEPT !.at = "public", !.tab = t]
<1>2. /\ own' = [own EXCEPT ![t] = own[u]] /\ tab' = [tab EXCEPT ![t] = r]
      /\ op' = [d \in Calls |-> IF d = c /\ stored.active # Console!None THEN o
                                ELSE IF op[d].tab = t THEN Console!Idle ELSE op[d]]
      /\ UNCHANGED <<stored, local, consumed, pairs, presented>>
  BY <1>1 DEF Console!Load, Console!server
<1>3. /\ stored.url \in UrlTables /\ chosen \in Profiles \cup {Nobody}
      /\ stored' \in [url : UrlTables, active : Profiles \cup {Nobody}]
  BY <1>2 DEF ConsoleKept, ConsoleType
<1>4. api \in Endpoints \cup {Nobody}
  BY <1>3 DEF UrlTables, Console!None, Nobody
<1> HIDE DEF chosen, api
<1>5. r \in TabRecords /\ r.session = 0
  BY <1>3, <1>4, NobodyNoProfile DEF TabRecords
<1> HIDE DEF r
<1>6. TabSound(r)
  BY <1>5 DEF TabSound
<1>7. TabsFine'
  BY <1>2, <1>5, <1>6, TabReplaced
<1>8. StoreFine(owner)'
  BY <1>2, ConsoleFine DEF StoreFine, StoreKept, Owned
<1>9. o \in OpRecords /\ o.at = "public" /\ OpSound(o, owner)
  BY PublicRecord
<1> HIDE DEF o
<1>10. op' \in [Calls -> OpRecords]
       /\ \A d \in Calls :
            /\ OpSound(op'[d], owner)
            /\ op'[d].at \in {"send", "signedIn"} => op'[d] = op[d]
  BY <1>2, <1>9, IdleRecord DEF ConsoleKept, OpsKept, ConsoleType
<1>11. ConsoleType'
  BY <1>2, <1>3, <1>7, <1>8, <1>10 DEF ConsoleKept, ConsoleType, StoreFine, TabsFine
<1> QED BY <1>2, <1>7, <1>8, <1>10, <1>11, QuietStep DEF StoreFine, TabsFine

\* The tab forgets its session unless its active profile is chosen again.
LEMMA ActivatedSound ==
  ASSUME NEW owner, ConsoleKept(owner), NEW t \in Tabs, NEW urls \in UrlTables,
         NEW p \in Profiles \cup {Nobody}, NEW forget \in BOOLEAN,
         ~forget => tab[t].active = p
  PROVE  LET r == Console!Activated(t, p, urls, forget) IN
           r \in TabRecords /\ TabSound(r)
<1> DEFINE s == IF forget THEN 0 ELSE tab[t].session
           api == IF p = Console!None THEN Console!None ELSE urls[p]
           r == [tab[t] EXCEPT !.url = urls, !.active = p, !.busy = TRUE, !.api = api,
                               !.session = s]
<1>1. tab[t] \in TabRecords /\ TabSound(tab[t])
  BY DEF ConsoleKept, ConsoleType, TabsKept
<1>2. Console!Activated(t, p, urls, forget) = r
  BY <1>1 DEF Console!Activated, TabRecords
<1>3. /\ s \in 0 .. MaxPairs
      /\ s # 0 => s = tab[t].session /\ tab[t].active = p
      /\ api \in Endpoints \cup {Nobody}
  BY <1>1, NobodyNoProfile DEF TabRecords, UrlTables, Console!None, Nobody
<1> HIDE DEF s, api
<1>4. r \in TabRecords /\ r.session = s /\ r.active = p
  BY <1>1, <1>3 DEF TabRecords
<1> HIDE DEF r
<1>5. TabSound(r)
  BY <1>1, <1>3, <1>4 DEF TabSound
<1> QED BY <1>2, <1>4, <1>5

LEMMA ChosenKeeps ==
  ASSUME NEW owner \in Owners, ConsoleKept(owner), NEW c \in Calls, NEW t \in Tabs,
         NEW p \in Profiles,
         \/ Console!SelectProfile(c, t, p)
         \/ \E e \in Endpoints : Console!SaveProfile(c, t, p, e)
  PROVE  \E next \in Owners : ConsoleKept(next)'
<1> DEFINE o == [Console!Idle EXCEPT !.at = "public", !.tab = t]
<1>1. tab[t] \in TabRecords /\ tab[t].url \in UrlTables
  BY DEF ConsoleKept, ConsoleType, TabRecords
<1>2. PICK urls \in UrlTables, forget \in BOOLEAN :
        /\ forget = FALSE => tab[t].active = p
        /\ stored' = [url |-> urls, active |-> p]
        /\ tab' = [tab EXCEPT ![t] = Console!Activated(t, p, urls, forget)]
        /\ op' = [op EXCEPT ![c] = o]
        /\ UNCHANGED <<consumed, pairs, presented>>
        /\ UNCHANGED <<local, own>> \/ Console!ClearRefreshToken(t, p)
  <2>1. CASE Console!SelectProfile(c, t, p)
    BY <1>1, <2>1 DEF Console!SelectProfile, Console!Initialize, Console!Goto,
                      Console!server
  <2>2. ASSUME NEW e \in Endpoints, Console!SaveProfile(c, t, p, e)
        PROVE  /\ [tab[t].url EXCEPT ![p] = e] \in UrlTables
               /\ stored' = [url |-> [tab[t].url EXCEPT ![p] = e], active |-> p]
               /\ tab' = [tab EXCEPT ![t] =
                    Console!Activated(t, p, [tab[t].url EXCEPT ![p] = e], TRUE)]
               /\ op' = [op EXCEPT ![c] = o]
               /\ UNCHANGED <<consumed, pairs, presented>>
               /\ UNCHANGED <<local, own>> \/ Console!ClearRefreshToken(t, p)
    BY <1>1, <2>2 DEF Console!SaveProfile, Console!Initialize, Console!Goto,
                      Console!server, UrlTables
  <2> QED BY <2>1, <2>2
<1> DEFINE r == Console!Activated(t, p, urls, forget)
<1>3. r \in TabRecords /\ TabSound(r)
  BY <1>2, ActivatedSound
<1> HIDE DEF r
<1>4. TabsFine'
  BY <1>2, <1>3, TabReplaced DEF r
<1>5. StoreFine(owner)'
  BY <1>2, StoreStill, StoreCleared
<1>6. o \in OpRecords /\ o.at = "public" /\ OpSound(o, owner)
  BY PublicRecord
<1> HIDE DEF o
<1>7. stored' \in [url : UrlTables, active : Profiles \cup {Nobody}]
  BY <1>2
<1> QED BY <1>2, <1>4, <1>5, <1>6, <1>7, CallStep

LEMMA DeletedKeeps ==
  ASSUME NEW owner \in Owners, ConsoleKept(owner), NEW t \in Tabs, NEW p \in Profiles,
         Console!DeleteProfile(t, p)
  PROVE  \E next \in Owners : ConsoleKept(next)'
<1> DEFINE urls == [tab[t].url EXCEPT ![p] = Console!None]
           left == {q \in Profiles : urls[q] # Console!None}
           chosen == IF tab[t].active # p THEN tab[t].active
                     ELSE IF left = {} THEN Console!None ELSE CHOOSE q \in left : TRUE
           busy == tab[t].busy
           gone == Console!Activated(t, chosen, urls, TRUE)
           kept == [tab[t] EXCEPT !.url = urls]
           shown == [gone EXCEPT !.busy = busy]
           r == IF tab[t].active # p THEN kept ELSE shown
<1>1. /\ tab[t] \in TabRecords /\ tab[t].url \in UrlTables /\ TabSound(tab[t])
      /\ tab \in [Tabs -> TabRecords] /\ busy \in BOOLEAN
  BY DEF ConsoleKept, ConsoleType, TabRecords, TabsKept
<1>2. /\ Console!ClearRefreshToken(t, p)
      /\ stored' = [url |-> urls, active |-> chosen]
      /\ tab' = [tab EXCEPT ![t] = r]
      /\ UNCHANGED <<consumed, op, pairs, presented>>
  BY <1>1 DEF Console!DeleteProfile, Console!server
<1>3. urls \in UrlTables
  BY <1>1 DEF UrlTables, Console!None, Nobody
<1>4. chosen \in Profiles \cup {Nobody}
  <2>1. left # {} => (CHOOSE q \in left : TRUE) \in Profiles
    OBVIOUS
  <2> QED BY <1>1, <2>1 DEF TabRecords, Console!None, Nobody
<1> HIDE DEF urls, left, chosen, busy
<1>5. gone \in TabRecords /\ TabSound(gone)
  BY <1>3, <1>4, ActivatedSound
<1>6. kept \in TabRecords /\ TabSound(kept)
  <2>1. kept \in TabRecords /\ kept.session = tab[t].session
        /\ kept.active = tab[t].active
    BY <1>1, <1>3 DEF TabRecords
  <2> QED BY <1>1, <2>1 DEF TabSound
<1>7. shown \in TabRecords /\ TabSound(shown)
  <2> HIDE DEF gone
  <2>1. shown \in TabRecords /\ shown.session = gone.session
        /\ shown.active = gone.active
    BY <1>1, <1>5 DEF TabRecords
  <2> QED BY <1>5, <2>1 DEF TabSound
<1>8. r \in TabRecords /\ TabSound(r)
  BY <1>6, <1>7
<1> HIDE DEF r
<1>9. TabsFine'
  BY <1>2, <1>8, TabReplaced
<1>10. StoreFine(owner)'
  BY <1>2, StoreCleared
<1>11. ConsoleType'
  BY <1>2, <1>3, <1>4, <1>9, <1>10 DEF ConsoleKept, ConsoleType, StoreFine, TabsFine
<1> QED BY <1>2, <1>9, <1>10, <1>11, QuietStep
           DEF ConsoleKept, OpsKept, StoreFine, TabsFine

\* The scope is marked under the lock, before the token is sent.
LEMMA MarkedKeeps ==
  ASSUME NEW owner \in Owners, ConsoleKept(owner), NEW c \in Calls,
         Console!Enter(c), ~Console!WasConsumed(c)
  PROVE  \E next \in Owners : ConsoleKept(next)'
<1> DEFINE s == Console!Scope(c)
           o == [op[c] EXCEPT !.at = "send"]
<1>1. /\ op[c].at = "queued" /\ consumed' = consumed \cup {s} /\ s \notin consumed
      /\ Console!ClearRefreshToken(op[c].tab, op[c].profile)
      /\ Console!Step(c, "send") /\ UNCHANGED <<stored, tab, pairs, presented>>
  BY DEF Console!Enter, Console!WasConsumed, Console!server
<1>2. /\ op[c].tab \in Tabs /\ op[c].profile \in Profiles
      /\ Owned(op[c].token, op[c].profile, owner) /\ op[c] \in OpRecords
      /\ op \in [Calls -> OpRecords]
  BY <1>1 DEF ConsoleKept, OpsKept, OpSound, ConsoleType, Refreshing
<1>3. s = <<op[c].profile, op[c].token>> /\ op[c].token \in 1 .. MaxPairs
  <2>1. Len(pairs) \in Nat /\ Len(pairs) <= MaxPairs /\ op[c].token \in 1 .. Len(pairs)
    BY <1>2 DEF Owned, ConsoleKept, ConsoleType
  <2> QED BY <2>1, NobodyNoProfile DEF Console!Scope
<1>4. /\ o \in OpRecords /\ o.at = "send" /\ OpSound(o, owner)
      /\ op' = [op EXCEPT ![c] = o]
  BY <1>1, Stepped DEF Refreshing
<1>5. o.token = op[c].token /\ o.profile = op[c].profile
  BY <1>2 DEF OpRecords
<1> HIDE DEF s, o
<1>6. StoreFine(owner)' /\ TabsFine'
  BY <1>1, <1>2, StoreCleared, TabsStill
<1>7. ConsoleType'
  <2>1. consumed' \subseteq Profiles \X (1 .. MaxPairs)
    BY <1>1, <1>2, <1>3 DEF ConsoleKept, ConsoleType
  <2>2. op' \in [Calls -> OpRecords]
    BY <1>2, <1>4
  <2> QED BY <1>1, <1>6, <2>1, <2>2 DEF ConsoleKept, ConsoleType, StoreFine, TabsFine
<1>8. OpsKept(owner)'
  <2>1. Continues(owner, owner)
    BY <1>1 DEF Continues, ConsoleKept, ConsoleType
  <2>2. \A d \in Calls : OpSound(op'[d], owner)
    BY <1>2, <1>4 DEF ConsoleKept, OpsKept
  <2> QED BY <1>7, <2>1, <2>2, OpSoundStays DEF ConsoleKept, OpsKept
<1>9. MarksKept(owner)'
  BY <1>1, <1>2, <1>3 DEF ConsoleKept, MarksKept, Owned
<1>10. presented[op[c].token] = 0
  <2>1. presented[op[c].token] # 0 => <<owner[op[c].token], op[c].token>> \in consumed
    BY <1>3 DEF ConsoleKept, MarksKept
  <2>2. owner[op[c].token] = op[c].profile
    BY <1>2 DEF Owned
  <2> QED BY <1>1, <1>3, <2>1, <2>2
<1>11. \A d \in Calls : op[d].at = "send" => op[d].token # op[c].token
  <2> SUFFICES ASSUME NEW d \in Calls, op[d].at = "send", op[d].token = op[c].token
               PROVE  FALSE
    OBVIOUS
  <2>1. <<op[d].profile, op[d].token>> \in consumed
    BY DEF ConsoleKept, SendKept
  <2>2. Owned(op[d].token, op[d].profile, owner)
    BY DEF ConsoleKept, OpsKept, OpSound, Refreshing
  <2>3. op[d].profile = op[c].profile
    BY <1>2, <2>2 DEF Owned
  <2> QED BY <1>1, <1>3, <2>1, <2>3
<1>12. SendKept'
  <2> SUFFICES ASSUME NEW d \in Calls, op'[d].at = "send"
               PROVE  /\ <<op'[d].profile, op'[d].token>> \in consumed'
                      /\ presented'[op'[d].token] = 0
                      /\ \A e \in Calls :
                           op'[e].at = "send" /\ op'[e].token = op'[d].token => e = d
    BY DEF SendKept
  <2>1. CASE d = c
    <3>1. op'[d] = o
      BY <1>2, <1>4, <2>1
    <3>2. \A e \in Calls \ {c} : op'[e] = op[e]
      BY <1>2, <1>4
    <3> QED BY <1>1, <1>3, <1>5, <1>10, <1>11, <2>1, <3>1, <3>2
  <2>2. CASE d # c
    <3>1. op'[d] = op[d] /\ op[d].at = "send"
      BY <1>2, <1>4, <2>2
    <3>2. op'[c] = o /\ \A e \in Calls \ {c} : op'[e] = op[e]
      BY <1>2, <1>4
    <3> QED BY <1>1, <1>5, <1>11, <3>1, <3>2 DEF ConsoleKept, SendKept
  <2> QED BY <2>1, <2>2
<1>13. LoginKept(owner)'
  <2>1. \A d \in Calls : op'[d].at = "signedIn" => op'[d] = op[d]
    BY <1>2, <1>4
  <2> QED BY <1>1, <2>1 DEF ConsoleKept, LoginKept, Owned
<1>14. ConsoleKept(owner)'
  BY <1>6, <1>7, <1>8, <1>9, <1>12, <1>13 DEF ConsoleKept, StoreFine, TabsFine
<1> QED BY <1>14

\* A server issues or revokes pairs, and at most takes the token of c.
LEMMA IssueStep ==
  ASSUME NEW owner \in Owners, NEW next \in Owners, ConsoleKept(owner), ConsoleType',
         Continues(owner, next), consumed' = consumed,
         \A n \in 1 .. Len(pairs) : next[n] = owner[n],
         \A n \in 1 .. MaxPairs : n > Len(pairs') => next[n] = Nobody,
         StoreKept(next)', TabsKept',
         NEW c \in Calls, NEW o \in OpRecords, op' = [op EXCEPT ![c] = o],
         OpSound(o, next)', o.at # "send",
         o.at = "signedIn" => /\ Owned(o.pair, Nobody, next)' /\ o.pair > Len(pairs)
                              /\ pairs'[o.pair].profile = Nobody,
         \/ presented' = presented
         \/ /\ op[c].at = "send"
            /\ presented' = [presented EXCEPT ![op[c].token] = @ + 1]
  PROVE  ConsoleKept(next)'
<1>1. op \in [Calls -> OpRecords] /\ op'[c] = o /\ \A d \in Calls \ {c} : op'[d] = op[d]
  BY DEF ConsoleKept, ConsoleType
<1>2. /\ Len(pairs) \in Nat /\ Len(pairs') \in Nat /\ Len(pairs) <= Len(pairs')
      /\ Len(pairs') <= MaxPairs /\ MaxPairs \in Nat
  BY NobodyNoProfile DEF Continues, ConsoleKept, ConsoleType
<1>3. \A n \in 1 .. Len(pairs) : n \in 1 .. Len(pairs') /\ n \in 1 .. MaxPairs
  BY <1>2
<1>4. OpsKept(next)'
  <2>1. \A d \in Calls \ {c} : OpSound(op'[d], owner)
    BY <1>1 DEF ConsoleKept, OpsKept
  <2>2. ConsoleType
    BY DEF ConsoleKept
  <2> QED BY <1>1, <2>1, <2>2, OpSoundStays DEF OpsKept
<1>5. SendKept'
  <2> SUFFICES ASSUME NEW d \in Calls, op'[d].at = "send"
               PROVE  /\ <<op'[d].profile, op'[d].token>> \in consumed
                      /\ presented'[op'[d].token] = 0
                      /\ \A e \in Calls :
                           op'[e].at = "send" /\ op'[e].token = op'[d].token => e = d
    BY DEF SendKept
  <2>1. /\ d # c /\ op'[d] = op[d] /\ op[d].at = "send"
        /\ <<op[d].profile, op[d].token>> \in consumed
        /\ presented[op[d].token] = 0
        /\ \A e \in Calls : op[e].at = "send" /\ op[e].token = op[d].token => e = d
    BY <1>1 DEF ConsoleKept, SendKept
  <2>2. op[d].token \in 1 .. MaxPairs
    BY <1>3, <2>1 DEF ConsoleKept, OpsKept, OpSound, Owned, Refreshing
  <2>3. op[c].at = "send" => op[c].token # op[d].token
    BY <2>1
  <2>4. presented'[op[d].token] = 0
    BY <2>1, <2>2, <2>3 DEF ConsoleKept, ConsoleType
  <2>5. \A e \in Calls :
          op'[e].at = "send" /\ op'[e].token = op'[d].token => e = d
    BY <1>1, <2>1
  <2> QED BY <2>1, <2>4, <2>5
<1>6. LoginKept(next)'
  <2> SUFFICES ASSUME NEW d \in Calls, op'[d].at = "signedIn"
               PROVE  /\ op'[d].pair \in 1 .. Len(pairs')
                      /\ next[op'[d].pair] = Nobody
                      /\ pairs'[op'[d].pair].profile = Nobody
                      /\ \A e \in Calls :
                           op'[e].at = "signedIn" /\ op'[e].pair = op'[d].pair => e = d
    BY DEF LoginKept, Owned
  <2>1. \A e \in Calls \ {c} : op'[e].at = "signedIn" =>
          /\ op'[e] = op[e] /\ op[e].pair \in 1 .. Len(pairs)
          /\ owner[op[e].pair] = Nobody /\ pairs[op[e].pair].profile = Nobody
    BY <1>1 DEF ConsoleKept, LoginKept, Owned
  <2>2. CASE d = c
    <3>1. op'[d] = o /\ o.pair > Len(pairs)
      BY <1>1, <2>2
    <3>2. /\ o.at = "signedIn" /\ o.pair \in 1 .. Len(pairs')
          /\ next[o.pair] = Nobody /\ pairs'[o.pair].profile = Nobody
      BY <1>1, <2>2 DEF Owned
    <3>3. o.pair > Len(pairs) /\ o.pair \in Nat
      BY <1>2, <3>2
    <3>4. ASSUME NEW e \in Calls \ {c}, op'[e].at = "signedIn"
          PROVE  op'[e].pair # o.pair
      <4>1. op'[e].pair \in 1 .. Len(pairs)
        BY <2>1, <3>4
      <4> QED BY <1>2, <3>3, <4>1
    <3> QED BY <1>1, <2>2, <3>2, <3>4
  <2>3. CASE d # c
    <3>1. /\ op'[d] = op[d] /\ op[d].pair \in 1 .. Len(pairs)
          /\ owner[op[d].pair] = Nobody /\ pairs[op[d].pair].profile = Nobody
      BY <2>1, <2>3
    <3>2. op'[c].at = "signedIn" => op'[c].pair # op[d].pair
      BY <1>1, <1>2, <3>1
    <3>3. ASSUME NEW e \in Calls, op'[e].at = "signedIn", op'[e].pair = op[d].pair
          PROVE  e = d
      <4>1. e # c
        BY <3>2, <3>3
      <4>2. op[e].at = "signedIn" /\ op[e].pair = op[d].pair /\ op[d].at = "signedIn"
        BY <1>1, <2>3, <3>1, <3>3, <4>1
      <4> QED BY <4>2 DEF ConsoleKept, LoginKept
    <3>4. op[d].pair \in 1 .. Len(pairs') /\ next[op[d].pair] = Nobody
          /\ pairs'[op[d].pair].profile = Nobody
      BY <1>3, <3>1 DEF Continues
    <3> QED BY <3>1, <3>3, <3>4
  <2> QED BY <2>2, <2>3
<1>7. MarksKept(next)'
  <2>1. ASSUME NEW s \in consumed' PROVE Owned(s[2], s[1], next)'
    <3>1. Owned(s[2], s[1], owner)
      BY <2>1 DEF ConsoleKept, MarksKept
    <3> QED BY <1>3, <2>1, <3>1 DEF Owned
  <2>2. ASSUME NEW n \in 1 .. MaxPairs
        PROVE  presented'[n] <= 1 /\ (presented'[n] # 0 => <<next[n], n>> \in consumed)
    <3>1. presented[n] # 0 => /\ <<owner[n], n>> \in consumed
                              /\ n \in 1 .. Len(pairs)
      BY <2>2 DEF ConsoleKept, MarksKept, Owned
    <3>2. presented[n] # 0 => <<next[n], n>> \in consumed
      BY <3>1
    <3>3. presented[n] <= 1
      BY <2>2 DEF ConsoleKept, MarksKept
    <3>4. CASE presented' = presented
      BY <3>2, <3>3, <3>4
    <3>5. CASE /\ op[c].at = "send"
               /\ presented' = [presented EXCEPT ![op[c].token] = @ + 1]
      <4>1. CASE n = op[c].token
        <5>1. presented[n] = 0 /\ <<op[c].profile, n>> \in consumed
          BY <3>5, <4>1 DEF ConsoleKept, SendKept
        <5>2. n \in 1 .. Len(pairs) /\ owner[n] = op[c].profile
          BY <3>5, <4>1 DEF ConsoleKept, OpsKept, OpSound, Owned, Refreshing
        <5>3. presented'[n] = 1
          BY <3>5, <4>1, <5>1 DEF ConsoleKept, ConsoleType
        <5> QED BY <5>1, <5>2, <5>3
      <4>2. CASE n # op[c].token
        <5>1. presented'[n] = presented[n]
          BY <3>5, <4>2 DEF ConsoleKept, ConsoleType
        <5> QED BY <3>2, <3>3, <5>1
      <4> QED BY <4>1, <4>2
    <3> QED BY <3>4, <3>5
  <2> QED BY <2>1, <2>2 DEF MarksKept
<1> QED BY <1>4, <1>5, <1>6, <1>7 DEF ConsoleKept

\* The next pair is of the profile that asked for it.
LEMMA RotatedPairs ==
  ASSUME ConsoleType, NEW n \in 1 .. Len(pairs), NEW p \in Profiles,
         Len(pairs) < MaxPairs
  PROVE  LET next == Console!Rotated(n, p) IN
           /\ next \in Seq(PairRecords) /\ Len(next) = Len(pairs) + 1
           /\ Len(next) <= MaxPairs
           /\ \A m \in 1 .. Len(pairs) : next[m].profile = pairs[m].profile
           /\ next[Len(pairs) + 1].profile = p
<1> DEFINE used == [pairs EXCEPT ![n].state = "rotated"]
           pair == [pairs[n] EXCEPT !.state = "current", !.profile = p]
           next == Console!Rotated(n, p)
<1>1. /\ Len(pairs) \in Nat /\ pairs \in Seq(PairRecords) /\ pairs[n] \in PairRecords
      /\ MaxPairs \in Nat
  BY NobodyNoProfile DEF ConsoleType
<1>2. pair \in PairRecords /\ pair.profile = p
  BY <1>1 DEF PairRecords
<1>3. /\ used \in Seq(PairRecords) /\ Len(used) = Len(pairs)
      /\ \A m \in 1 .. Len(pairs) : used[m].profile = pairs[m].profile
  <2> DEFINE r == [pairs[n] EXCEPT !.state = "rotated"]
  <2>1. r \in PairRecords /\ r.profile = pairs[n].profile
    BY <1>1 DEF PairRecords
  <2>2. used = [pairs EXCEPT ![n] = r]
    BY <1>1
  <2> HIDE DEF r
  <2> QED BY <1>1, <2>1, <2>2
<1>4. next = Append(used, pair)
  BY DEF Console!Rotated
<1> HIDE DEF used, pair, next
<1>5. /\ next \in Seq(PairRecords) /\ Len(next) = Len(pairs) + 1
      /\ next[Len(pairs) + 1] = pair
      /\ \A m \in 1 .. Len(pairs) : next[m] = used[m]
  BY <1>1, <1>2, <1>3, <1>4
<1> QED BY <1>1, <1>2, <1>3, <1>5 DEF next

LEMMA RevokedPairs ==
  ASSUME ConsoleType, NEW n \in 1 .. Len(pairs)
  PROVE  LET next == Console!Revoked(n) IN
           /\ next \in Seq(PairRecords) /\ Len(next) = Len(pairs)
           /\ \A m \in 1 .. Len(pairs) : next[m].profile = pairs[m].profile
<1> DEFINE next == Console!Revoked(n)
           dead(i) == [pairs[i] EXCEPT !.state = "revoked"]
<1>1. /\ Len(pairs) \in Nat /\ \A i \in 1 .. Len(pairs) : pairs[i] \in PairRecords
  BY DEF ConsoleType
<1>2. \A i \in 1 .. Len(pairs) :
        dead(i) \in PairRecords /\ dead(i).profile = pairs[i].profile
  BY <1>1 DEF PairRecords
<1>3. next = [i \in 1 .. Len(pairs) |->
                IF pairs[i].session = pairs[n].session THEN dead(i) ELSE pairs[i]]
  BY DEF Console!Revoked
<1> HIDE DEF next, dead
<1>4. \A i \in 1 .. Len(pairs) :
        next[i] \in PairRecords /\ next[i].profile = pairs[i].profile
  BY <1>1, <1>2, <1>3
<1>5. next \in Seq(PairRecords) /\ Len(next) = Len(pairs)
  BY <1>1, <1>3, <1>4
<1> QED BY <1>4, <1>5 DEF next

\* Storage and tabs that the server's step leaves alone
LEMMA LeftAlone ==
  ASSUME NEW owner, NEW next, ConsoleKept(owner), ConsoleType',
         Continues(owner, next), UNCHANGED <<local, own, tab>>
  PROVE  StoreKept(next)' /\ TabsKept'
<1>1. StoreKept(owner) /\ TabsKept /\ ConsoleType
  BY DEF ConsoleKept
<1>2. StoreKept(next)'
  BY <1>1, OwnedStays DEF StoreKept
<1>3. TabsKept'
  <2> SUFFICES ASSUME NEW t \in Tabs, tab[t].session # 0
               PROVE  /\ tab[t].session \in 1 .. Len(pairs')
                      /\ pairs'[tab[t].session].profile \in {Nobody, tab[t].active}
    BY DEF TabsKept, TabSound
  <2>1. /\ tab[t].session \in 1 .. Len(pairs)
        /\ pairs[tab[t].session].profile \in {Nobody, tab[t].active}
    BY <1>1 DEF TabsKept, TabSound
  <2>2. Len(pairs) \in Nat /\ Len(pairs') \in Nat /\ Len(pairs) <= Len(pairs')
    BY <1>1 DEF ConsoleType, Continues
  <2> QED BY <2>1, <2>2 DEF Continues
<1> QED BY <1>2, <1>3

LEMMA ServedKeeps ==
  ASSUME NEW owner \in Owners, ConsoleKept(owner), NEW c \in Calls,
         Console!Served(c)
  PROVE  \E next \in Owners : ConsoleKept(next)'
<1>n. PICK n : n = op[c].token
  OBVIOUS
<1>p. PICK p : p = op[c].profile
  OBVIOUS
<1>m. PICK mail : mail = op[c].mail
  OBVIOUS
<1>l. PICK last : last = Len(pairs) + 1
  OBVIOUS
<1>f. PICK failed : failed = [op[c] EXCEPT !.at = "failed"]
  OBVIOUS
<1>a. PICK answered : answered = [op[c] EXCEPT !.at = "answered", !.pair = last]
  OBVIOUS
<1>1. /\ op[c].at = "send" /\ presented' = [presented EXCEPT ![n] = @ + 1]
      /\ UNCHANGED <<stored, local, own, consumed, tab>>
  BY <1>n DEF Console!Served, Console!browser
<1>2. /\ op[c] \in OpRecords /\ OpSound(op[c], owner) /\ ConsoleType
      /\ Len(pairs) \in Nat /\ MaxPairs \in Nat /\ Len(pairs) <= MaxPairs
  BY NobodyNoProfile DEF ConsoleKept, OpsKept, ConsoleType
<1>3. /\ n \in 1 .. Len(pairs) /\ p \in Profiles /\ owner[n] = p
      /\ n \in 1 .. MaxPairs
  BY <1>n, <1>p, <1>1, <1>2 DEF OpSound, Owned, Refreshing
<1>4. presented' \in [1 .. MaxPairs -> Nat]
  BY <1>1, <1>2, <1>3 DEF ConsoleType
<1>5. /\ failed \in OpRecords /\ failed.at = "failed" /\ OpSound(failed, owner)
  <2>1. /\ failed \in OpRecords /\ failed.at = "failed" /\ failed.tab = op[c].tab
        /\ failed.profile = p /\ failed.token = n /\ failed.mail = op[c].mail
    BY <1>n, <1>p, <1>f, <1>2 DEF OpRecords, Refreshing
  <2> QED BY <1>n, <1>p, <1>1, <1>2, <2>1 DEF OpSound, Refreshing
<1>6. CASE /\ pairs' = pairs \/ pairs' = Console!Revoked(n)
           /\ op' = [op EXCEPT ![c] = failed]
  <2>1. /\ pairs' \in Seq(PairRecords) /\ Len(pairs') = Len(pairs)
        /\ \A m \in 1 .. Len(pairs) : pairs'[m].profile = pairs[m].profile
    BY <1>2, <1>3, <1>6, RevokedPairs DEF ConsoleType
  <2>2. ConsoleType'
    BY <1>1, <1>2, <1>4, <1>5, <1>6, <2>1 DEF ConsoleType
  <2>3. Continues(owner, owner)
    BY <1>2, <2>1 DEF Continues
  <2>4. OpSound(failed, owner)'
    BY <1>2, <1>5, <2>2, <2>3, OpSoundStays
  <2>5. StoreKept(owner)' /\ TabsKept'
    BY <1>1, <2>2, <2>3, LeftAlone
  <2>6. \A m \in 1 .. MaxPairs : m > Len(pairs') => owner[m] = Nobody
    BY <2>1 DEF ConsoleKept, MarksKept
  <2>7. ConsoleKept(owner)'
    BY <1>1, <1>5, <1>6, <2>2, <2>3, <2>4, <2>5, <2>6, IssueStep, <1>n
  <2> QED BY <2>7
<1>7. CASE /\ Len(pairs) < MaxPairs /\ pairs' = Console!Rotated(n, p)
           /\ \/ op' = [op EXCEPT ![c] = failed]
              \/ op' = [op EXCEPT ![c] = answered]
  <2>n. PICK next : next = [owner EXCEPT ![last] = p]
    OBVIOUS
  <2>1. /\ pairs' \in Seq(PairRecords) /\ Len(pairs') = last
        /\ Len(pairs') <= MaxPairs
        /\ \A m \in 1 .. Len(pairs) : pairs'[m].profile = pairs[m].profile
        /\ pairs'[last].profile = p
    BY <1>l, <1>2, <1>3, <1>7, RotatedPairs
  <2>2. /\ last \in 1 .. MaxPairs /\ last > Len(pairs) /\ last \in 1 .. Len(pairs')
    BY <1>l, <1>2, <1>7, <2>1
  <2>3. /\ next \in Owners /\ next[last] = p
        /\ \A m \in 1 .. MaxPairs : m # last => next[m] = owner[m]
    BY <1>3, <2>n, <2>2 DEF Owners
  <2>4. owner[last] = Nobody
    BY <2>2 DEF ConsoleKept, MarksKept
  <2>5. Continues(owner, next)
    BY <1>l, <1>2, <2>1, <2>3, <2>4, NobodyNoProfile DEF Continues
  <2>6. \A m \in 1 .. Len(pairs) : next[m] = owner[m]
    BY <1>l, <1>2, <2>3
  <2>7. \A m \in 1 .. MaxPairs : m > Len(pairs') => next[m] = Nobody
    <3>1. \A m \in 1 .. MaxPairs : m > last => m # last /\ m > Len(pairs)
      BY <1>l, <1>2
    <3> QED BY <2>1, <2>3, <3>1 DEF ConsoleKept, MarksKept
  <2>8. /\ answered \in OpRecords /\ answered.at = "answered"
        /\ answered.tab = op[c].tab /\ answered.profile = p /\ answered.token = n
        /\ answered.mail = op[c].mail /\ answered.pair = last
    <3>1. last \in 0 .. MaxPairs
      BY <2>2
    <3> QED BY <1>n, <1>p, <1>a, <1>2, <3>1 DEF OpRecords, Refreshing
  <2>9. ConsoleType'
    BY <1>1, <1>2, <1>4, <1>5, <1>7, <2>1, <2>8 DEF ConsoleType
  <2>10. StoreKept(next)' /\ TabsKept'
    BY <1>1, <2>5, <2>9, LeftAlone
  <2>11. OpSound(failed, next)' /\ OpSound(op[c], owner)
    BY <1>2, <1>5, <2>5, <2>9, OpSoundStays
  <2>12. OpSound(answered, next)'
    <3>1. IssuedTo(last, p, next)'
      BY <2>1, <2>2, <2>3 DEF IssuedTo, Owned
    <3>2. /\ Owned(n, p, next)'
          /\ mail \in {0, MaxPairs + 1} \/ IssuedTo(mail, p, next)'
      <4>1. /\ Owned(n, p, owner)
            /\ mail \in {0, MaxPairs + 1} \/ IssuedTo(mail, p, owner)
        BY <1>m, <1>n, <1>p, <1>1, <1>2 DEF OpSound, Refreshing
      <4> QED BY <1>2, <1>3, <2>5, <2>9, <4>1, OwnedStays DEF IssuedTo
    <3>3. op[c].tab \in Tabs
      BY <1>1, <1>2 DEF OpSound
    <3> QED BY <1>3, <1>m, <2>8, <3>1, <3>2, <3>3 DEF OpSound, Refreshing
  <2>13. PICK o \in OpRecords : /\ op' = [op EXCEPT ![c] = o] /\ OpSound(o, next)'
                                /\ o.at \in {"failed", "answered"}
    BY <1>5, <1>7, <2>8, <2>11, <2>12
  <2>14. ConsoleKept(next)'
    BY <1>1, <2>3, <2>5, <2>6, <2>7, <2>9, <2>10, <2>13, IssueStep, <1>n
  <2> QED BY <2>3, <2>14
<1>8. \/ /\ pairs' = pairs \/ pairs' = Console!Revoked(n)
         /\ op' = [op EXCEPT ![c] = failed]
      \/ /\ Len(pairs) < MaxPairs /\ pairs' = Console!Rotated(n, p)
         /\ \/ op' = [op EXCEPT ![c] = failed]
            \/ op' = [op EXCEPT ![c] = answered]
  <2>1. pairs' = Console!Rotated(n, p) /\ Len(pairs) < MaxPairs => Len(pairs') = last
    BY <1>l, <1>2, <1>3, RotatedPairs
  <2> QED BY <1>n, <1>p, <1>l, <1>f, <1>a, <2>1 DEF Console!Served, Console!Step, Console!Goto
<1> QED BY <1>6, <1>7, <1>8

LEMMA LoginServedKeeps ==
  ASSUME NEW owner \in Owners, ConsoleKept(owner), NEW c \in Calls,
         Console!LoginServed(c)
  PROVE  \E next \in Owners : ConsoleKept(next)'
<1>l. PICK last : last = Len(pairs) + 1
  OBVIOUS
<1>n. PICK pair : pair = [issuer |-> op[c].client, session |-> last,
                          state |-> "current", profile |-> Nobody]
  OBVIOUS
<1>o. PICK o : o = [op[c] EXCEPT !.at = "signedIn", !.pair = last]
  OBVIOUS
<1>1. /\ op[c].at = "login" /\ Len(pairs) < MaxPairs
      /\ pairs' = Append(pairs, pair)
      /\ UNCHANGED <<stored, local, own, consumed, tab, presented>>
  BY <1>l, <1>n DEF Console!LoginServed, Console!browser, Console!None, Nobody
<1>2. /\ op[c] \in OpRecords /\ OpSound(op[c], owner) /\ ConsoleType
      /\ Len(pairs) \in Nat /\ MaxPairs \in Nat /\ pairs \in Seq(PairRecords)
  BY NobodyNoProfile DEF ConsoleKept, OpsKept, ConsoleType
<1>3. pair \in PairRecords /\ pair.profile = Nobody
  BY <1>l, <1>n, <1>2 DEF PairRecords, OpRecords
<1>4. /\ pairs' \in Seq(PairRecords) /\ Len(pairs') = last /\ last <= MaxPairs
      /\ last \in 1 .. MaxPairs /\ last > Len(pairs) /\ pairs'[last] = pair
      /\ \A m \in 1 .. Len(pairs) : pairs'[m] = pairs[m]
  BY <1>l, <1>1, <1>2, <1>3
<1>5. op' = [op EXCEPT ![c] = o]
  BY <1>l, <1>o, <1>1, <1>2, <1>4 DEF Console!LoginServed, Console!Goto
<1>6. /\ o \in OpRecords /\ o.at = "signedIn" /\ o.tab = op[c].tab /\ o.pair = last
  <2>1. last \in 0 .. MaxPairs
    BY <1>2, <1>4
  <2> QED BY <1>o, <1>2, <2>1 DEF OpRecords
<1>7. ConsoleType'
  BY <1>1, <1>2, <1>4, <1>5, <1>6 DEF ConsoleType
<1>8. Continues(owner, owner)
  BY <1>l, <1>2, <1>4 DEF Continues
<1>9. StoreKept(owner)' /\ TabsKept'
  BY <1>1, <1>7, <1>8, LeftAlone
<1>10. owner[last] = Nobody
       /\ \A m \in 1 .. MaxPairs : m > Len(pairs') => owner[m] = Nobody
  <2>1. \A m \in 1 .. MaxPairs : m > last => m > Len(pairs)
    BY <1>2, <1>4
  <2> QED BY <1>4, <2>1 DEF ConsoleKept, MarksKept
<1>11. Owned(o.pair, Nobody, owner)' /\ pairs'[o.pair].profile = Nobody
       /\ o.pair > Len(pairs)
  BY <1>2, <1>3, <1>4, <1>6, <1>10 DEF Owned
<1>12. OpSound(o, owner)'
  BY <1>1, <1>2, <1>6 DEF OpSound, Refreshing
<1>13. ConsoleKept(owner)'
  BY <1>1, <1>5, <1>6, <1>7, <1>8, <1>9, <1>10, <1>11, <1>12, IssueStep
<1> QED BY <1>13

LEMMA LoggedOutKeeps ==
  ASSUME NEW owner \in Owners, ConsoleKept(owner), NEW c \in Calls,
         Console!LoggedOut(c)
  PROVE  \E next \in Owners : ConsoleKept(next)'
<1>t. PICK t : t = op[c].tab
  OBVIOUS
<1>n. PICK n : n = op[c].pair
  OBVIOUS
<1>r. PICK r : r = [tab[t] EXCEPT !.session = 0]
  OBVIOUS
<1>1. /\ op[c].at = "logout"
      /\ pairs' = pairs \/ pairs' = Console!Revoked(n)
      /\ UNCHANGED <<stored, consumed, presented>>
      /\ op' = [op EXCEPT ![c] = Console!Idle]
  BY <1>n DEF Console!LoggedOut, Console!Goto
<1>2. /\ op[c] \in OpRecords /\ OpSound(op[c], owner) /\ ConsoleType
      /\ Len(pairs) \in Nat /\ Len(pairs) <= MaxPairs
  BY DEF ConsoleKept, OpsKept, ConsoleType
<1>3. t \in Tabs /\ n \in 1 .. Len(pairs)
  <2>1. op[c].at # "idle" /\ op[c].at = "logout" /\ OpSound(op[c], owner)
    BY <1>1, <1>2
  <2>2. op[c].tab \in Tabs /\ op[c].pair \in 1 .. Len(pairs)
    BY <2>1 DEF OpSound
  <2> QED BY <1>t, <1>n, <2>2
<1>4. /\ pairs' \in Seq(PairRecords) /\ Len(pairs') = Len(pairs)
      /\ \A m \in 1 .. Len(pairs) : pairs'[m].profile = pairs[m].profile
  BY <1>1, <1>2, <1>3, RevokedPairs DEF ConsoleType
<1>5. /\ r \in TabRecords /\ r.session = 0 /\ tab' = [tab EXCEPT ![t] = r]
  <2>1. tab[t] \in TabRecords /\ 0 \in 0 .. MaxPairs
    BY <1>2, <1>3, NobodyNoProfile DEF ConsoleType
  <2>2. tab' = [tab EXCEPT ![t].session = 0]
    BY <1>t DEF Console!LoggedOut
  <2> QED BY <1>2, <1>3, <1>r, <2>1, <2>2 DEF ConsoleType, TabRecords
<1>6. \A p \in Profiles :
        /\ local'[p] \in {0, local[p]}
        /\ \A u \in Tabs : own'[u][p] \in {0, own[u][p]}
  BY SMTT(60), <1>2, <1>3, <1>t DEF Console!LoggedOut, Console!ClearRefreshToken, ConsoleType
<1>7. /\ local' \in [Profiles -> 0 .. MaxPairs]
      /\ own' \in [Tabs -> [Profiles -> 0 .. MaxPairs]]
  <2>1. 0 \in 0 .. MaxPairs
    BY NobodyNoProfile
  <2>2. \/ UNCHANGED <<local, own>>
        \/ \E p \in Profiles : Console!ClearRefreshToken(t, p)
    <3>1. tab[t].active \in Profiles \cup {Nobody}
      BY <1>2, <1>3 DEF ConsoleType, TabRecords
    <3> QED BY <1>t, <3>1 DEF Console!LoggedOut, Console!None, Nobody
  <2>3. CASE UNCHANGED <<local, own>>
    BY <1>2, <2>3 DEF ConsoleType
  <2>4. ASSUME NEW p \in Profiles, Console!ClearRefreshToken(t, p)
        PROVE  /\ local' \in [Profiles -> 0 .. MaxPairs]
               /\ own' \in [Tabs -> [Profiles -> 0 .. MaxPairs]]
    BY <1>2, <1>3, <2>1, <2>4 DEF Console!ClearRefreshToken, ConsoleType
  <2> QED BY <2>2, <2>3, <2>4
<1>8. ConsoleType'
  BY <1>1, <1>2, <1>4, <1>5, <1>7, IdleRecord DEF ConsoleType
<1>9. Continues(owner, owner)
  BY <1>2, <1>4 DEF Continues
<1>10. StoreKept(owner)'
  BY <1>4, <1>6 DEF ConsoleKept, StoreKept, Owned
<1>11. TabsKept'
  <2> SUFFICES ASSUME NEW u \in Tabs, tab'[u].session # 0
               PROVE  /\ tab'[u].session \in 1 .. Len(pairs')
                      /\ pairs'[tab'[u].session].profile \in {Nobody, tab'[u].active}
    BY DEF TabsKept, TabSound
  <2>1. tab'[u] = tab[u]
    BY <1>2, <1>5 DEF ConsoleType
  <2>2. /\ tab[u].session \in 1 .. Len(pairs)
        /\ pairs[tab[u].session].profile \in {Nobody, tab[u].active}
    BY <2>1 DEF ConsoleKept, TabsKept, TabSound
  <2> QED BY <1>4, <2>1, <2>2
<1>12. \A m \in 1 .. MaxPairs : m > Len(pairs') => owner[m] = Nobody
  BY <1>4 DEF ConsoleKept, MarksKept
<1>i. PICK o : o = Console!Idle
  OBVIOUS
<1>13. o \in OpRecords /\ o.at = "idle" /\ op' = [op EXCEPT ![c] = o]
       /\ OpSound(o, owner)'
  BY <1>i, <1>1, IdleRecord DEF OpSound, Refreshing
<1>14. ConsoleKept(owner)'
  BY <1>1, <1>8, <1>9, <1>10, <1>11, <1>12, <1>13, IssueStep
<1> QED BY <1>14

\* The pair of a login comes to belong to the profile that is active by now.
LEMMA SignedInKeeps ==
  ASSUME NEW owner \in Owners, ConsoleKept(owner), NEW c \in Calls,
         Console!SignedIn(c)
  PROVE  \E next \in Owners : ConsoleKept(next)'
<1>n. PICK n : n = op[c].pair
  OBVIOUS
<1>p. PICK p : p = tab[op[c].tab].active
  OBVIOUS
<1>e. PICK next : next = [owner EXCEPT ![n] = p]
  OBVIOUS
<1>i. PICK o : o = Console!Idle
  OBVIOUS
<1>1. /\ op[c].at = "signedIn" /\ Console!ApplySession(c, p)
      /\ UNCHANGED <<stored, consumed, pairs, presented>>
  BY <1>p DEF Console!SignedIn, Console!server
<1>2. /\ ConsoleType /\ TabsKept /\ OpSound(op[c], owner)
      /\ Len(pairs) \in Nat /\ Len(pairs) <= MaxPairs
  BY DEF ConsoleKept, OpsKept, ConsoleType
<1>3. /\ n \in 1 .. Len(pairs) /\ owner[n] = Nobody /\ pairs[n].profile = Nobody
      /\ n \in 1 .. MaxPairs
  <2>1. n \in 1 .. Len(pairs) /\ owner[n] = Nobody /\ pairs[n].profile = Nobody
    BY <1>n, <1>1 DEF ConsoleKept, LoginKept, Owned
  <2> QED BY <1>2, <2>1, NobodyNoProfile
<1>4. op[c].tab \in Tabs /\ p \in Profiles \cup {Nobody}
  BY <1>p, <1>1, <1>2 DEF OpSound, ConsoleType, TabRecords
<1>5. /\ next \in Owners /\ next[n] = p
      /\ \A m \in 1 .. MaxPairs : m # n => next[m] = owner[m]
  BY <1>e, <1>3, <1>4 DEF Owners
<1>6. \A m, q : q \in Profiles /\ Owned(m, q, owner) =>
                  Owned(m, q, next) /\ (IssuedTo(m, q, owner) => IssuedTo(m, q, next))
  <2>1. \A m \in 1 .. Len(pairs) : m \in 1 .. MaxPairs
    BY <1>2, NobodyNoProfile
  <2> QED BY <1>3, <1>5, <2>1, NobodyNoProfile DEF Owned, IssuedTo
<1>7. StoreKept(next)
  BY <1>6 DEF ConsoleKept, StoreKept
<1>8. StoreFine(next)' /\ TabsFine' /\ op' = [op EXCEPT ![c] = o]
  BY <1>n, <1>p, <1>i, <1>1, <1>2, <1>3, <1>4, <1>5, <1>7, SessionApplied
<1>9. o \in OpRecords /\ o.at = "idle" /\ op \in [Calls -> OpRecords]
  BY <1>i, <1>2, IdleRecord DEF ConsoleType
<1>10. ConsoleType'
  BY <1>1, <1>2, <1>8, <1>9 DEF ConsoleType, StoreFine, TabsFine
<1>11. \A d \in Calls : op'[d].at # "idle" => d # c /\ op'[d] = op[d]
  BY <1>8, <1>9
<1>12. OpsKept(next)'
  <2>1. \A v : OpSound(v, owner) => OpSound(v, next)'
    BY <1>1, <1>6 DEF OpSound, Owned, IssuedTo, Refreshing
  <2>2. op'[c] = o /\ OpSound(o, owner) /\ \A d \in Calls \ {c} : op'[d] = op[d]
    BY <1>8, <1>9, <1>i, IdleRecord
  <2>3. \A d \in Calls : OpSound(op'[d], owner)
    BY <2>2 DEF ConsoleKept, OpsKept
  <2> QED BY <2>1, <2>3 DEF OpsKept
<1>13. MarksKept(next)'
  <2>1. ASSUME NEW s \in consumed PROVE Owned(s[2], s[1], next)
    <3>1. Owned(s[2], s[1], owner) /\ s[1] \in Profiles
      BY <2>1, <1>2 DEF ConsoleKept, MarksKept, ConsoleType
    <3> QED BY <1>6, <3>1
  <2>2. ASSUME NEW m \in 1 .. MaxPairs
        PROVE  /\ presented[m] <= 1
               /\ presented[m] # 0 => <<next[m], m>> \in consumed
               /\ m > Len(pairs) => next[m] = Nobody
    <3>1. /\ presented[m] <= 1
          /\ presented[m] # 0 => <<owner[m], m>> \in consumed
          /\ m > Len(pairs) => owner[m] = Nobody
      BY <2>2 DEF ConsoleKept, MarksKept
    <3>2. CASE m # n
      BY <1>5, <3>1, <3>2
    <3>3. CASE m = n
      <4>1. <<Nobody, m>> \notin consumed
        BY <1>2, NobodyNoProfile DEF ConsoleType
      <4>2. ~(m > Len(pairs))
        BY <1>2, <1>3, <3>3
      <4> QED BY <1>3, <3>1, <3>3, <4>1, <4>2
    <3> QED BY <3>2, <3>3
  <2> QED BY <1>1, <2>1, <2>2 DEF MarksKept, Owned
<1>14. SendKept'
  BY <1>1, <1>11 DEF ConsoleKept, SendKept
<1>15. LoginKept(next)'
  <2> SUFFICES ASSUME NEW d \in Calls, op'[d].at = "signedIn"
               PROVE  /\ op'[d].pair \in 1 .. Len(pairs) /\ next[op'[d].pair] = Nobody
                      /\ pairs[op'[d].pair].profile = Nobody
                      /\ \A e \in Calls :
                           op'[e].at = "signedIn" /\ op'[e].pair = op'[d].pair => e = d
    BY <1>1 DEF LoginKept, Owned
  <2>1. op'[d] = op[d] /\ d # c
    BY <1>11
  <2>2. /\ op[d].pair \in 1 .. Len(pairs) /\ owner[op[d].pair] = Nobody
        /\ pairs[op[d].pair].profile = Nobody /\ op[d].pair # n
        /\ \A e \in Calls : op[e].at = "signedIn" /\ op[e].pair = op[d].pair => e = d
    BY <1>n, <1>1, <2>1 DEF ConsoleKept, LoginKept, Owned
  <2>3. op[d].pair \in 1 .. MaxPairs
    BY <1>2, <2>2, NobodyNoProfile
  <2> QED BY <1>5, <1>11, <2>1, <2>2, <2>3
<1>16. ConsoleKept(next)'
  BY <1>8, <1>10, <1>12, <1>13, <1>14, <1>15 DEF ConsoleKept, StoreFine, TabsFine
<1> QED BY <1>5, <1>16

LEMMA ConsoleRests ==
  ASSUME NEW owner \in Owners, ConsoleKept(owner), UNCHANGED consoleVars
  PROVE  \E next \in Owners : ConsoleKept(next)'
<1>1. ConsoleKept(owner)'
  BY DEF consoleVars, ConsoleKept, ConsoleType, StoreKept, MarksKept, TabsKept,
         TabSound, OpsKept, OpSound, SendKept, LoginKept, Owned, IssuedTo
<1> QED BY <1>1

LEMMA ConsoleKeeps ==
  ASSUME NEW owner \in Owners, ConsoleKept(owner), Console!Next
  PROVE  \E next \in Owners : ConsoleKept(next)'
<1>1. ASSUME NEW c \in Calls, Console!Continue(c) \/ Console!GiveUp(c) \/ Console!Unsent(c)
      PROVE  \E next \in Owners : ConsoleKept(next)'
  <2>1. Console!Enter(c) => \E next \in Owners : ConsoleKept(next)'
    BY GoingOnKeeps, MarkedKeeps
  <2>2. /\ Console!Subscribe(c) \/ Console!JoinFails(c) \/ Console!Reject(c)
           \/ Console!LoginRefused(c) \/ Console!GiveUp(c) \/ Console!Unsent(c)
        => \E next \in Owners : ConsoleKept(next)'
    BY GoingOnKeeps
  <2>3. Console!Succeed(c) \/ Console!Fail(c)
        => \E next \in Owners : ConsoleKept(next)'
    BY PublishedKeeps
  <2> QED BY <1>1, <2>1, <2>2, <2>3, RestoreSessionKeeps, ServedKeeps, JoinKeeps,
             RestoredKeeps, LoginServedKeeps, SignedInKeeps, LoggedOutKeeps
          DEF Console!Continue
<1>2. ASSUME NEW c \in Calls, Console!Begin(c)
      PROVE  \E next \in Owners : ConsoleKept(next)'
  BY <1>2, PageKeeps, BeginSessionKeeps, ChosenKeeps DEF Console!Begin
<1>3. ASSUME NEW t \in Tabs, NEW p \in Profiles, Console!DeleteProfile(t, p)
      PROVE  \E next \in Owners : ConsoleKept(next)'
  BY <1>3, DeletedKeeps
<1> QED BY <1>1, <1>2, <1>3 DEF Console!Next

LEMMA ConsoleInvariant == AdministrationSpec => []ConsoleInv
<1>1. AdministrationInit => ConsoleInv
  <2>1. AdministrationInit /\ subject = "console" => Console!Init
    BY DEF AdministrationInit, ConfigurationsInit
  <2> QED BY <2>1, ConsoleStart DEF ConsoleInv
<1>2. ConsoleInv /\ [AdministrationNext]_administrationVars => ConsoleInv'
  <2> SUFFICES ASSUME ConsoleInv, [AdministrationNext]_administrationVars,
                      subject' = "console"
               PROVE  \E owner \in Owners : ConsoleKept(owner)'
    BY DEF ConsoleInv
  <2>1. subject = "console" /\ (Console!Next \/ UNCHANGED consoleVars)
    BY DEF AdministrationNext, administrationVars, ConfigurationsNext, NodeNext,
           CloudflareNext, SupabaseNext, ConsoleNext
  <2>2. PICK owner \in Owners : ConsoleKept(owner)
    BY <2>1 DEF ConsoleInv
  <2> QED BY <2>1, <2>2, ConsoleKeeps, ConsoleRests
<1> QED BY <1>1, <1>2, PTL DEF AdministrationSpec

(* Console: no refresh token reaches a server twice, whichever tabs hold    *)
(* it, whatever is reloaded, duplicated or lost: its scope is marked first, *)
(* and a token has one scope.                                               *)
THEOREM PresentedOnceHolds == AdministrationSpec => []PresentedOnce
<1>1. ConsoleInv => PresentedOnce
  BY DEF ConsoleInv, ConsoleKept, MarksKept, PresentedOnce, Console!PresentedOnce
<1> QED BY <1>1, ConsoleInvariant, PTL

(* Console: a restored session is shown under the profile it was restored   *)
(* for, although profiles change while refreshSession waits.                *)
THEOREM SignedInWhereAskedHolds == AdministrationSpec => []SignedInWhereAsked
<1>1. ConsoleInv => SignedInWhereAsked
  BY DEF ConsoleInv, ConsoleKept, TabsKept, TabSound, SignedInWhereAsked,
         Console!SignedInWhereAsked, Console!None, Nobody
<1> QED BY <1>1, ConsoleInvariant, PTL

-----------------------------------------------------------------------------
(* The Supabase deployment script.  Two arguments, and only the second     *)
(* rests on the lease.  Whoever writes a Function is on record before, and *)
(* closes its record only after it found Control and Gateway alike one     *)
(* after the other, so that a pair made mixed meanwhile is answered for by *)
(* the run that made it so.  And a command begins under the lease of its   *)
(* run; as long as no lease ran out under a command, what the holder of    *)
(* the lease has read of the Functions is still so.                        *)

EdgePairs == [control : EdgeBuilds \cup {Nobody}, gateway : EdgeBuilds \cup {Nobody}]

EdgeLeases ==
  [build : EdgeBuilds \cup {Nobody}, lease : Helpers \cup {Nobody},
   pending : EdgeBuilds \cup {Nobody}, live : BOOLEAN]

EdgeFiles ==
  [status : {Nobody, "applying", "verified", "failed"},
   attempted : SUBSET {"control", "gateway"}, recovered : BOOLEAN]

Deploying == {"lease", "push", "lease-first", "secrets", "renew", "deploy", "list"}

\* From the first inspection that succeeded to the closing of the record
Believing ==
  {"verify-gateway", "complete", "resume", "finish", "confirm-gateway",
   "confirm-paused"}

PastPush ==
  {"lease-first", "secrets", "renew", "deploy", "list", "verify", "verify-gateway",
   "complete"}

EdgeSteps ==
  {"idle", "inspect", "inspect-gateway", "pause", "capture", "backup", "verify",
   "recover", "restore", "confirm", "confirm-absent", "release", "fail", "done"}
    \cup Deploying \cup Believing

EdgeRuns ==
  [pc : EdgeSteps, target : EdgeBuilds \cup {Nobody},
   expected : EdgeBuilds \cup {Nobody}, resume : BOOLEAN, inventory : EdgePairs,
   captured : EdgePairs, next : {1, 2}, restored : SUBSET {"control", "gateway"},
   leased : BOOLEAN, recovered : BOOLEAN, late : BOOLEAN]

EdgeType ==
  /\ dep \in EdgeLeases /\ fn \in EdgePairs /\ schema \in Nat
  /\ record \in [Helpers -> EdgeFiles]
  /\ supabaseOp \in [Helpers -> EdgeRuns]

\* The run h with the record o holds the lease w.
Holds(h, o, w) == w.lease = h /\ w.pending = o.target /\ w.live

\* A run o with the state file r, when the lease is w and the schema is s
RunSound(h, o, r, w, s) ==
  /\ o.pc \notin {"idle", "done"} => o.target \in EdgeBuilds
  /\ o.pc \in PastPush => s >= EdgeSchema[o.target]
  /\ o.pc \in Deploying => r.status = "applying"
  /\ o.pc # "done" /\ r.attempted # {} => r.status = "applying"
  /\ o.pc \in {"deploy", "restore"} => r.attempted # {} /\ (Holds(h, o, w) \/ o.late)
  /\ o.pc \notin {"release", "fail"} => ~o.recovered

\* What the holder of the lease w may rely on, when the Functions are f
KnowsPair(h, o, w, f) ==
  Holds(h, o, w) =>
    /\ o.pc \in {"renew", "deploy"} /\ o.next = 1 /\ o.expected # Nobody
         => f = o.inventory
    /\ o.pc = "verify-gateway" => f.control = o.target
    /\ o.pc = "complete" => f = Supabase!Both(o.target)

\* A run that has found Control to be of the build it looks for in Gateway
Seen(o, f) ==
  \/ o.pc = "verify-gateway" /\ f.control = o.target
  \/ o.pc = "confirm-gateway" /\ f.control = o.expected

\* A run that answers for Functions of two builds
Answers(o, r, f) ==
  /\ r.attempted # {}
  /\ \/ /\ r.status = "applying"
        /\ Seen(o, f) \/ (~o.recovered /\ o.pc \notin Believing)
     \/ r.status = "failed" /\ ~r.recovered

MixedIsAnswered ==
  \/ fn.control = fn.gateway
  \/ \E h \in Helpers : Answers(supabaseOp[h], record[h], fn)

EdgeKept ==
  /\ EdgeType
  /\ \A h \in Helpers : RunSound(h, supabaseOp[h], record[h], dep, schema)
  /\ \A h \in Helpers : KnowsPair(h, supabaseOp[h], dep, fn) \/ Supabase!Overrun
  /\ MixedIsAnswered

EdgeInv == subject = "supabase" => EdgeKept

LEMMA NobodyNoRun ==
  /\ Nobody \notin Helpers /\ Nobody \notin EdgeBuilds
  /\ EdgeSchema \in [EdgeBuilds -> Nat \ {0}]
BY AdministrationAssumption DEF Nobody

LEMMA EdgeStart == Supabase!Init => EdgeKept
<1> SUFFICES ASSUME Supabase!Init PROVE EdgeKept
  OBVIOUS
<1>1. \A b \in EdgeBuilds \cup {Nobody} :
        /\ Supabase!Unleased(b) \in EdgeLeases /\ Supabase!Both(b) \in EdgePairs
        /\ Supabase!Both(b).control = Supabase!Both(b).gateway
  BY DEF Supabase!Unleased, Supabase!Both, Supabase!None, Nobody, EdgeLeases, EdgePairs
<1>2. Supabase!Idle \in EdgeRuns /\ Supabase!Idle.pc = "idle" /\ ~Supabase!Idle.recovered
  BY <1>1 DEF Supabase!Idle, Supabase!None, Nobody, EdgeRuns, EdgeSteps
<1>3. Supabase!NoRecord \in EdgeFiles /\ Supabase!NoRecord.attempted = {}
  BY DEF Supabase!NoRecord, Supabase!None, Nobody, EdgeFiles
<1>4. PICK b \in EdgeBuilds \cup {Nobody} :
        /\ dep = Supabase!Unleased(b) /\ fn = Supabase!Both(b) /\ schema \in Nat
  BY NobodyNoRun DEF Supabase!Init, Supabase!None, Nobody
<1>5. /\ \A h \in Helpers : supabaseOp[h] = Supabase!Idle /\ record[h] = Supabase!NoRecord
      /\ supabaseOp \in [Helpers -> EdgeRuns] /\ record \in [Helpers -> EdgeFiles]
  BY <1>2, <1>3 DEF Supabase!Init
<1>6. EdgeType /\ MixedIsAnswered
  BY <1>1, <1>4, <1>5 DEF EdgeType, MixedIsAnswered
<1>7. ASSUME NEW h \in Helpers
      PROVE  /\ RunSound(h, supabaseOp[h], record[h], dep, schema)
             /\ KnowsPair(h, supabaseOp[h], dep, fn)
  BY <1>2, <1>3, <1>5 DEF RunSound, KnowsPair, Deploying, PastPush
<1> QED BY <1>6, <1>7 DEF EdgeKept

\* What a step of one run begins with
LEMMA EdgeRun ==
  ASSUME EdgeKept, NEW h \in Helpers
  PROVE  /\ supabaseOp[h] \in EdgeRuns /\ record[h] \in EdgeFiles
         /\ dep \in EdgeLeases /\ fn \in EdgePairs /\ schema \in Nat
         /\ RunSound(h, supabaseOp[h], record[h], dep, schema)
         /\ KnowsPair(h, supabaseOp[h], dep, fn) \/ Supabase!Overrun
         /\ \A step : [supabaseOp EXCEPT ![h].pc = step]
                      = [supabaseOp EXCEPT ![h] = [supabaseOp[h] EXCEPT !.pc = step]]
         /\ record = [record EXCEPT ![h] = record[h]]
BY DEF EdgeKept, EdgeType

\* A step of the run h: what it must leave the others, and keep itself.
LEMMA EdgeRunStep ==
  ASSUME EdgeKept, NEW h \in Helpers, NEW o \in EdgeRuns, NEW r \in EdgeFiles,
         NEW w \in EdgeLeases, NEW f \in EdgePairs, NEW s \in Nat,
         supabaseOp' = [supabaseOp EXCEPT ![h] = o],
         record' = [record EXCEPT ![h] = r], dep' = w, fn' = f, schema' = s,
         s >= schema, o.late = supabaseOp[h].late,
         f = fn \/ supabaseOp[h].pc \in {"deploy", "restore"},
         \A d \in Helpers \ {h} :
           Holds(d, supabaseOp[d], w) <=> Holds(d, supabaseOp[d], dep),
         RunSound(h, o, r, w, s), KnowsPair(h, o, w, f) \/ Supabase!Overrun,
         \/ f.control = f.gateway
         \/ Answers(o, r, f)
         \/ f = fn /\ ~Answers(supabaseOp[h], record[h], fn)
  PROVE  EdgeKept'
<1>1. /\ supabaseOp'[h] = o /\ record'[h] = r
      /\ \A d \in Helpers \ {h} :
           supabaseOp'[d] = supabaseOp[d] /\ record'[d] = record[d]
  BY DEF EdgeKept, EdgeType
<1>2. EdgeType'
  BY DEF EdgeKept, EdgeType
<1>3. Supabase!Overrun' <=> Supabase!Overrun
  BY <1>1 DEF Supabase!Overrun
<1>4. ASSUME NEW d \in Helpers \ {h}
      PROVE  RunSound(d, supabaseOp[d], record[d], w, s)
  <2>1. RunSound(d, supabaseOp[d], record[d], dep, schema) /\ schema \in Nat
        /\ supabaseOp[d] \in EdgeRuns
    BY DEF EdgeKept, EdgeType
  <2>2. ASSUME schema >= EdgeSchema[supabaseOp[d].target], supabaseOp[d].pc \in PastPush
        PROVE  s >= EdgeSchema[supabaseOp[d].target]
    <3>1. supabaseOp[d].target \in EdgeBuilds
      BY <2>1, <2>2 DEF RunSound, PastPush
    <3>2. EdgeSchema[supabaseOp[d].target] \in Nat
      BY <3>1, NobodyNoRun
    <3> QED BY <2>1, <2>2, <3>2
  <2> QED BY <2>1, <2>2 DEF RunSound
<1>5. ASSUME NEW d \in Helpers \ {h}
      PROVE  KnowsPair(d, supabaseOp[d], w, f) \/ Supabase!Overrun
  <2>1. KnowsPair(d, supabaseOp[d], dep, fn) \/ Supabase!Overrun
    BY DEF EdgeKept
  <2>2. CASE f = fn
    BY <2>1, <2>2 DEF KnowsPair
  <2>3. CASE supabaseOp[h].pc \in {"deploy", "restore"}
    <3>1. Holds(h, supabaseOp[h], dep) \/ supabaseOp[h].late
      BY <2>3 DEF EdgeKept, RunSound
    <3>2. Holds(h, supabaseOp[h], dep) => ~Holds(d, supabaseOp[d], w)
      BY DEF Holds
    <3> QED BY <3>1, <3>2 DEF KnowsPair, Supabase!Overrun
  <2> QED BY <2>2, <2>3
<1>6. f.control = f.gateway \/ \E d \in Helpers : Answers(supabaseOp'[d], record'[d], f)
  <2>1. CASE f = fn /\ ~Answers(supabaseOp[h], record[h], fn) /\ fn.control # fn.gateway
    <3>1. PICK d \in Helpers : Answers(supabaseOp[d], record[d], fn)
      BY <2>1 DEF EdgeKept, MixedIsAnswered
    <3>2. d # h
      BY <2>1, <3>1
    <3> QED BY <1>1, <2>1, <3>1, <3>2
  <2> QED BY <1>1, <2>1
<1>7. (\A d \in Helpers : RunSound(d, supabaseOp[d], record[d], dep, schema))'
  BY <1>1, <1>4
<1>8. (\A d \in Helpers : KnowsPair(d, supabaseOp[d], dep, fn) \/ Supabase!Overrun)'
  BY <1>1, <1>3, <1>5
<1>9. MixedIsAnswered'
  BY <1>6 DEF MixedIsAnswered
<1> QED BY <1>2, <1>7, <1>8, <1>9 DEF EdgeKept

\* A step that leaves the project as it is
LEMMA EdgeOwnStep ==
  ASSUME EdgeKept, NEW h \in Helpers, NEW o \in EdgeRuns, NEW r \in EdgeFiles,
         supabaseOp' = [supabaseOp EXCEPT ![h] = o],
         record' = [record EXCEPT ![h] = r], dep' = dep, fn' = fn, schema' = schema,
         o.late = supabaseOp[h].late, RunSound(h, o, r, dep, schema),
         KnowsPair(h, o, dep, fn) \/ Supabase!Overrun,
         \/ fn.control = fn.gateway
         \/ Answers(o, r, fn)
         \/ ~Answers(supabaseOp[h], record[h], fn)
  PROVE  EdgeKept'
<1>1. dep \in EdgeLeases /\ fn \in EdgePairs /\ schema \in Nat
  BY DEF EdgeKept, EdgeType
<1> PICK w \in EdgeLeases : w = dep
  BY <1>1
<1> PICK f \in EdgePairs : f = fn
  BY <1>1
<1> PICK s \in Nat : s = schema
  BY <1>1
<1>2. s >= schema
  OBVIOUS
<1> QED BY <1>2, EdgeRunStep

\* A run at another place
LEMMA EdgeAt ==
  ASSUME NEW p \in EdgeRuns, NEW step \in EdgeSteps
  PROVE  \E o \in EdgeRuns :
           /\ o = [p EXCEPT !.pc = step] /\ o.pc = step
           /\ o.target = p.target /\ o.expected = p.expected
           /\ o.inventory = p.inventory /\ o.next = p.next
           /\ o.recovered = p.recovered /\ o.late = p.late
<1> DEFINE o == [p EXCEPT !.pc = step]
<1>1. o \in EdgeRuns
  BY DEF EdgeRuns
<1>2. /\ o.pc = step /\ o.target = p.target /\ o.expected = p.expected
      /\ o.inventory = p.inventory /\ o.next = p.next
      /\ o.recovered = p.recovered /\ o.late = p.late
  BY DEF EdgeRuns
<1> QED BY <1>1, <1>2

\* A run that goes on and leaves the project and its file as they are
LEMMA EdgeGoes ==
  ASSUME EdgeKept, NEW h \in Helpers,
         NEW step \in EdgeSteps \ {"idle", "done", "deploy", "restore"},
         supabaseOp[h].pc \notin {"idle", "done"},
         supabaseOp' = [supabaseOp EXCEPT ![h].pc = step],
         record' = record, dep' = dep, fn' = fn, schema' = schema,
         step \in Deploying => record[h].status = "applying",
         step \in PastPush => supabaseOp[h].pc \in PastPush,
         step \notin {"release", "fail"} => supabaseOp[h].pc \notin {"release", "fail"},
         step = "renew" /\ Supabase!Update(h) => fn = supabaseOp[h].inventory,
         step = "verify-gateway" => fn.control = supabaseOp[h].target,
         step = "complete" => fn = Supabase!Both(supabaseOp[h].target) \/ Supabase!Overrun
                              \/ ~Holds(h, supabaseOp[h], dep),
         step \in Believing =>
           \/ fn.control = fn.gateway
           \/ step = "verify-gateway" /\ fn.control = supabaseOp[h].target
           \/ step = "confirm-gateway" /\ fn.control = supabaseOp[h].expected
           \/ ~Answers(supabaseOp[h], record[h], fn)
  PROVE  EdgeKept'
<1> PICK p \in EdgeRuns : p = supabaseOp[h]
  BY EdgeRun
<1> PICK z \in EdgeFiles : z = record[h]
  BY EdgeRun
<1> PICK o \in EdgeRuns :
      /\ o = [p EXCEPT !.pc = step] /\ o.pc = step
      /\ o.target = p.target /\ o.expected = p.expected
      /\ o.inventory = p.inventory /\ o.next = p.next
      /\ o.recovered = p.recovered /\ o.late = p.late
  BY EdgeAt
<1>1. RunSound(h, p, z, dep, schema)
  BY EdgeRun
<1>2. supabaseOp' = [supabaseOp EXCEPT ![h] = o] /\ record' = [record EXCEPT ![h] = z]
  BY EdgeRun
<1>3. RunSound(h, o, z, dep, schema)
  <2>1. p.target \in EdgeBuilds /\ (step \notin {"release", "fail"} => ~o.recovered)
    BY <1>1 DEF RunSound
  <2>2. step \in PastPush => schema >= EdgeSchema[o.target]
    BY <1>1 DEF RunSound
  <2>3. z.attempted # {} => z.status = "applying"
    BY <1>1 DEF RunSound
  <2> QED BY <2>1, <2>2, <2>3 DEF RunSound
<1>4. KnowsPair(h, o, dep, fn) \/ Supabase!Overrun
  BY DEF KnowsPair, Holds, Supabase!Update, Supabase!None, Nobody
<1>5. fn.control = fn.gateway \/ Answers(o, z, fn) \/ ~Answers(p, z, fn)
  <2>1. CASE step \in Believing
    BY <2>1 DEF Answers, Seen
  <2>2. CASE step \notin Believing
    <3>1. Answers(p, z, fn) => z.attempted # {} /\ z.status \in {"applying", "failed"}
      BY DEF Answers
    <3>2. Answers(p, z, fn) => z.attempted # {} /\ z.status = "applying"
      BY <1>1 DEF Answers, RunSound
    <3>3. ~p.recovered \/ p.pc \in {"release", "fail"}
      BY <1>1 DEF RunSound
    <3>4. Answers(p, z, fn) => ~p.recovered
      BY <3>2, <3>3 DEF Answers, Seen
    <3> QED BY <2>2, <3>2, <3>4 DEF Answers
  <2> QED BY <2>1, <2>2
<1> QED BY <1>2, <1>3, <1>4, <1>5, EdgeOwnStep

\* A step that throws
LEMMA EdgeThrow ==
  ASSUME EdgeKept, NEW h \in Helpers,
         supabaseOp[h].pc \notin {"idle", "release", "fail", "done"},
         \/ Supabase!Throw(h)
         \/ /\ supabaseOp' = [supabaseOp EXCEPT ![h].pc = "recover"]
            /\ record' = record /\ dep' = dep /\ fn' = fn /\ schema' = schema
  PROVE  EdgeKept'
<1>1. /\ supabaseOp' = [supabaseOp EXCEPT ![h].pc = "recover"]
      /\ record' = record /\ dep' = dep /\ fn' = fn /\ schema' = schema
  BY DEF Supabase!Throw, Supabase!Goto, Supabase!remote
<1>2. /\ "recover" \in EdgeSteps \ {"idle", "done", "deploy", "restore"}
      /\ "recover" \notin Deploying \cup PastPush \cup Believing
  BY DEF EdgeSteps, Deploying, PastPush, Believing
<1> QED BY <1>1, <1>2, EdgeGoes

\* A recovery that is given up
LEMMA EdgeGivesUp ==
  ASSUME EdgeKept, NEW h \in Helpers, supabaseOp[h].pc \notin {"idle", "done"},
         NEW step \in {"release", "fail"},
         supabaseOp' = [supabaseOp EXCEPT ![h].pc = step],
         record' = record, dep' = dep, fn' = fn, schema' = schema
  PROVE  EdgeKept'
<1>1. /\ step \in EdgeSteps \ {"idle", "done", "deploy", "restore"}
      /\ step \notin Deploying \cup PastPush \cup Believing
  BY DEF EdgeSteps, Deploying, PastPush, Believing
<1> QED BY <1>1, EdgeGoes

\* The process ends, and what it knows with it.
LEMMA EdgeExit ==
  ASSUME EdgeKept, NEW h \in Helpers, NEW r \in EdgeFiles, Supabase!Exit(h),
         record' = [record EXCEPT ![h] = r],
         dep' = dep, fn' = fn, schema' = schema,
         Answers(supabaseOp[h], record[h], fn) =>
           /\ r.attempted # {}
           /\ r.status = "applying" \/ (r.status = "failed" /\ ~r.recovered)
  PROVE  EdgeKept'
<1> PICK p \in EdgeRuns : p = supabaseOp[h]
  BY EdgeRun
<1> PICK o : o = [Supabase!Idle EXCEPT !.pc = "done", !.late = p.late]
  OBVIOUS
<1>1. supabaseOp' = [supabaseOp EXCEPT ![h] = o]
  BY DEF Supabase!Exit
<1>2. Supabase!Both(Nobody) \in EdgePairs
  BY DEF EdgePairs, Supabase!Both
<1>3. p.late \in BOOLEAN
  BY DEF EdgeRuns
<1>4. o \in EdgeRuns /\ o.pc = "done" /\ o.late = p.late /\ ~o.recovered
  BY <1>2, <1>3 DEF Supabase!Idle, Supabase!None, Nobody, EdgeRuns, EdgeSteps
<1>5. RunSound(h, o, r, dep, schema) /\ KnowsPair(h, o, dep, fn)
  BY <1>4 DEF RunSound, KnowsPair, Deploying, PastPush
<1>6. Answers(o, r, fn) \/ ~Answers(p, record[h], fn)
  BY <1>4 DEF Answers, Believing
<1> QED BY <1>1, <1>4, <1>5, <1>6, EdgeOwnStep

LEMMA EdgeCrash ==
  ASSUME EdgeKept, NEW h \in Helpers, Supabase!Crash(h)
  PROVE  EdgeKept'
<1> PICK z \in EdgeFiles : z = record[h]
  BY EdgeRun
<1>1. /\ Supabase!Exit(h) /\ record' = [record EXCEPT ![h] = z]
      /\ dep' = dep /\ fn' = fn /\ schema' = schema
      /\ supabaseOp[h].pc # "done"
  BY EdgeRun DEF Supabase!Crash, Supabase!remote
<1>2. z.attempted # {} => z.status = "applying"
  BY <1>1, EdgeRun DEF RunSound
<1>3. Answers(supabaseOp[h], z, fn) => z.attempted # {}
  BY DEF Answers
<1> QED BY <1>1, <1>2, <1>3, EdgeExit

LEMMA EdgeBegin ==
  ASSUME EdgeKept, NEW h \in Helpers, NEW b \in EdgeBuilds,
         NEW e \in EdgeBuilds \cup {Nobody}, NEW again \in BOOLEAN,
         Supabase!Begin(h, b, e, again)
  PROVE  EdgeKept'
<1> PICK p \in EdgeRuns : p = supabaseOp[h]
  BY EdgeRun
<1> PICK f \in EdgePairs : f = fn
  BY EdgeRun
<1> PICK z \in EdgeFiles : z = record[h]
  BY EdgeRun
<1> PICK step \in {"backup", "inspect"} : step = IF e = Nobody THEN "backup" ELSE "inspect"
  OBVIOUS
<1> PICK o : o = [p EXCEPT !.target = b, !.expected = e, !.resume = again,
                           !.inventory = f, !.pc = step]
  OBVIOUS
<1>1. step \in EdgeSteps
  BY DEF EdgeSteps
<1>2. /\ o \in EdgeRuns /\ o.pc = step /\ o.target = b
      /\ o.recovered = p.recovered /\ o.late = p.late
  BY <1>1 DEF EdgeRuns
<1>3. /\ supabaseOp' = [supabaseOp EXCEPT ![h] = o] /\ record' = [record EXCEPT ![h] = z]
      /\ dep' = dep /\ fn' = fn /\ schema' = schema /\ p.pc = "idle"
  BY EdgeRun DEF Supabase!Begin, Supabase!At, Supabase!None, Nobody, Supabase!remote,
    EdgeKept, EdgeType
<1>4. ~p.recovered /\ (z.attempted # {} => z.status = "applying")
  BY <1>3, EdgeRun DEF RunSound
<1>5. RunSound(h, o, z, dep, schema) /\ KnowsPair(h, o, dep, fn)
  BY <1>2, <1>4 DEF RunSound, KnowsPair, Deploying, PastPush
<1>6. Answers(o, z, fn) \/ ~Answers(p, z, fn)
  BY <1>2, <1>4 DEF Answers, Believing
<1> QED BY <1>2, <1>3, <1>5, <1>6, EdgeOwnStep

LEMMA EdgePreflight ==
  ASSUME EdgeKept, NEW h \in Helpers,
         Supabase!InspectControl(h) \/ Supabase!InspectGateway(h)
  PROVE  EdgeKept'
<1> PICK z \in EdgeFiles : z = record[h]
  BY EdgeRun
<1>1. /\ supabaseOp[h].pc \in {"inspect", "inspect-gateway"} /\ record' = record
      /\ dep' = dep /\ fn' = fn /\ schema' = schema
  BY DEF Supabase!InspectControl, Supabase!InspectGateway, Supabase!Inspect, Supabase!At,
    Supabase!remote
<1>2. CASE Supabase!Exit(h)
  <2>1. z.attempted # {} => z.status = "applying"
    BY <1>1, EdgeRun DEF RunSound
  <2>2. Answers(supabaseOp[h], z, fn) => z.attempted # {}
    BY DEF Answers
  <2>3. record' = [record EXCEPT ![h] = z]
    BY <1>1, EdgeRun
  <2> QED BY <1>1, <1>2, <2>1, <2>2, <2>3, EdgeExit
<1>3. CASE ~Supabase!Exit(h)
  <2>1. PICK step \in {"inspect-gateway", "pause"} :
          supabaseOp' = [supabaseOp EXCEPT ![h].pc = step]
    BY <1>3 DEF Supabase!InspectControl, Supabase!InspectGateway, Supabase!Inspect,
      Supabase!Goto
  <2>2. step \in EdgeSteps /\ step \notin Deploying \cup PastPush \cup Believing
    BY DEF EdgeSteps, Deploying, PastPush, Believing
  <2> QED BY <1>1, <2>1, <2>2, EdgeGoes
<1> QED BY <1>2, <1>3

LEMMA EdgePause ==
  ASSUME EdgeKept, NEW h \in Helpers, Supabase!Pause(h)
  PROVE  EdgeKept'
<1>1. /\ supabaseOp[h].pc = "pause" /\ record' = record
      /\ dep' = dep /\ fn' = fn /\ schema' = schema
  BY DEF Supabase!Pause, Supabase!At, Supabase!remote
<1>2. CASE supabaseOp' = [supabaseOp EXCEPT ![h].pc = "recover"]
  BY <1>1, <1>2, EdgeThrow
<1>3. CASE supabaseOp' = [supabaseOp EXCEPT ![h].pc = "capture"]
  <2>1. "capture" \in EdgeSteps /\ "capture" \notin Deploying \cup PastPush \cup Believing
    BY DEF EdgeSteps, Deploying, PastPush, Believing
  <2> QED BY <1>1, <1>3, <2>1, EdgeGoes
<1> QED BY <1>2, <1>3 DEF Supabase!Pause, Supabase!Goto

LEMMA EdgeCapture ==
  ASSUME EdgeKept, NEW h \in Helpers, Supabase!Capture(h)
  PROVE  EdgeKept'
<1> PICK p \in EdgeRuns : p = supabaseOp[h]
  BY EdgeRun
<1> PICK z \in EdgeFiles : z = record[h]
  BY EdgeRun
<1> PICK f \in EdgePairs : f = fn
  BY EdgeRun
<1> PICK o : o = [p EXCEPT !.pc = "backup", !.captured = f]
  OBVIOUS
<1>1. /\ supabaseOp' = [supabaseOp EXCEPT ![h] = o] /\ record' = [record EXCEPT ![h] = z]
      /\ dep' = dep /\ fn' = fn /\ schema' = schema /\ p.pc = "capture"
  BY EdgeRun DEF Supabase!Capture, Supabase!At, Supabase!remote, EdgeKept, EdgeType
<1>2. /\ o \in EdgeRuns /\ o.pc = "backup" /\ o.target = p.target
      /\ o.recovered = p.recovered /\ o.late = p.late
  BY DEF EdgeRuns, EdgeSteps
<1>3. /\ p.target \in EdgeBuilds /\ ~p.recovered
      /\ z.attempted # {} => z.status = "applying"
  BY <1>1, EdgeRun DEF RunSound
<1>4. RunSound(h, o, z, dep, schema) /\ KnowsPair(h, o, dep, fn)
  BY <1>2, <1>3 DEF RunSound, KnowsPair, Deploying, PastPush
<1>5. Answers(o, z, fn) \/ ~Answers(p, z, fn)
  BY <1>2, <1>3 DEF Answers, Believing
<1> QED BY <1>1, <1>2, <1>4, <1>5, EdgeOwnStep

LEMMA EdgeBackup ==
  ASSUME EdgeKept, NEW h \in Helpers, Supabase!Backup(h)
  PROVE  EdgeKept'
<1> PICK p \in EdgeRuns : p = supabaseOp[h]
  BY EdgeRun
<1> PICK z \in EdgeFiles : z = record[h]
  BY EdgeRun
<1>1. RunSound(h, p, z, dep, schema) /\ p.pc = "backup"
  BY EdgeRun DEF Supabase!Backup, Supabase!At
<1>2. CASE Supabase!Throw(h)
  BY <1>1, <1>2, EdgeThrow
<1>3. CASE ~Supabase!Throw(h)
  <2> PICK step \in {"lease", "push"} :
        /\ supabaseOp' = [supabaseOp EXCEPT ![h] = [p EXCEPT !.pc = step]]
        /\ record' = [record EXCEPT ![h] = [z EXCEPT !.status = "applying"]]
        /\ dep' = dep /\ fn' = fn /\ schema' = schema
    BY <1>3, EdgeRun DEF Supabase!Backup, Supabase!Goto, EdgeKept, EdgeType
  <2>1. step \in EdgeSteps /\ step \notin PastPush \cup Believing
    BY DEF EdgeSteps, Deploying, PastPush, Believing
  <2> PICK o \in EdgeRuns :
        /\ o = [p EXCEPT !.pc = step] /\ o.pc = step
        /\ o.target = p.target /\ o.expected = p.expected
        /\ o.inventory = p.inventory /\ o.next = p.next
        /\ o.recovered = p.recovered /\ o.late = p.late
    BY <2>1, EdgeAt
  <2> PICK r : r = [z EXCEPT !.status = "applying"]
    OBVIOUS
  <2>2. /\ r \in EdgeFiles /\ r.status = "applying"
        /\ r.attempted = z.attempted /\ r.recovered = z.recovered
    BY DEF EdgeFiles
  <2>3. p.target \in EdgeBuilds /\ ~p.recovered
    BY <1>1 DEF RunSound
  <2>4. RunSound(h, o, r, dep, schema) /\ KnowsPair(h, o, dep, fn)
    BY <2>1, <2>2, <2>3 DEF RunSound, KnowsPair
  <2>5. Answers(o, r, fn) \/ ~Answers(p, z, fn)
    BY <2>1, <2>2, <2>3 DEF Answers
  <2> QED BY <2>2, <2>4, <2>5, EdgeOwnStep
<1> QED BY <1>2, <1>3

\* Nobody acquires the lease while another run holds it.
LEMMA EdgeAcquires ==
  ASSUME EdgeKept, NEW h \in Helpers,
         \/ Supabase!Lease(h)
         \/ Supabase!LeaseFirst(h)
  PROVE  EdgeKept'
<1> PICK p \in EdgeRuns : p = supabaseOp[h]
  BY EdgeRun
<1> PICK z \in EdgeFiles : z = record[h]
  BY EdgeRun
<1> PICK v \in EdgeLeases : v = dep
  BY EdgeRun
<1> PICK f \in EdgePairs : f = fn
  BY EdgeRun
<1> PICK s \in Nat : s = schema
  BY EdgeRun
<1> PICK step \in {"push", "secrets"} :
      /\ p.pc = IF step = "push" THEN "lease" ELSE "lease-first"
      /\ Supabase!AcquireLease(h, step)
  BY DEF Supabase!Lease, Supabase!LeaseFirst, Supabase!At
<1>1. RunSound(h, p, z, v, s)
  BY EdgeRun
<1>2. CASE Supabase!Throw(h)
  BY <1>2, EdgeThrow
<1>3. CASE ~Supabase!Throw(h)
  <2> PICK w : w = [v EXCEPT !.lease = h, !.pending = p.target, !.live = TRUE]
    OBVIOUS
  <2>1. dep' = w /\ fn' = f /\ schema' = s /\ record' = [record EXCEPT ![h] = z]
    BY <1>3, EdgeRun DEF Supabase!AcquireLease, Supabase!Acquires, Supabase!Goto,
      EdgeKept, EdgeType
  <2>2. /\ ~Supabase!LeaseBusy(h)
        /\ \/ supabaseOp' = [supabaseOp EXCEPT ![h] = [p EXCEPT !.pc = "recover"]]
           \/ supabaseOp' = [supabaseOp EXCEPT
                ![h] = [p EXCEPT !.pc = step, !.leased = TRUE]]
    BY <1>3, EdgeRun DEF Supabase!AcquireLease, Supabase!Acquires, Supabase!Goto,
      EdgeKept, EdgeType
  <2>3. w \in EdgeLeases /\ w.lease = h
    BY DEF EdgeLeases, EdgeRuns
  <2>4. \A d \in Helpers \ {h} :
          Holds(d, supabaseOp[d], w) <=> Holds(d, supabaseOp[d], dep)
    BY <2>2, <2>3, NobodyNoRun DEF Supabase!LeaseBusy, Holds, Supabase!None, Nobody
  <2>5. PICK o \in EdgeRuns :
          /\ supabaseOp' = [supabaseOp EXCEPT ![h] = o]
          /\ o.pc \in {"recover", step} /\ o.target = p.target
          /\ o.recovered = p.recovered /\ o.late = p.late
    <3>1. {"recover", "push", "secrets"} \subseteq EdgeSteps
      BY DEF EdgeSteps, Deploying
    <3>2. CASE supabaseOp' = [supabaseOp EXCEPT ![h] = [p EXCEPT !.pc = "recover"]]
      <4> PICK o : o = [p EXCEPT !.pc = "recover"]
        OBVIOUS
      <4>1. /\ o \in EdgeRuns /\ o.pc = "recover" /\ o.target = p.target
            /\ o.recovered = p.recovered /\ o.late = p.late
        BY <3>1 DEF EdgeRuns
      <4> QED BY <3>2, <4>1
    <3>3. CASE supabaseOp' = [supabaseOp EXCEPT
                 ![h] = [p EXCEPT !.pc = step, !.leased = TRUE]]
      <4> PICK o : o = [p EXCEPT !.pc = step, !.leased = TRUE]
        OBVIOUS
      <4>1. /\ o \in EdgeRuns /\ o.pc = step /\ o.target = p.target
            /\ o.recovered = p.recovered /\ o.late = p.late
        BY <3>1 DEF EdgeRuns
      <4> QED BY <3>3, <4>1
    <3> QED BY <2>2, <3>2, <3>3
  <2>6. /\ p.target \in EdgeBuilds /\ z.status = "applying" /\ ~p.recovered
        /\ step = "secrets" => s >= EdgeSchema[p.target]
    BY <1>1 DEF RunSound, Deploying, PastPush
  <2>7. RunSound(h, o, z, w, s) /\ KnowsPair(h, o, w, f)
    BY <2>5, <2>6 DEF RunSound, KnowsPair, PastPush
  <2>8. Answers(o, z, f) \/ ~Answers(p, z, f)
    BY <2>5, <2>6 DEF Answers, Believing
  <2>9. s >= schema
    OBVIOUS
  <2> QED BY <2>1, <2>3, <2>4, <2>5, <2>7, <2>8, <2>9, EdgeRunStep
<1> QED BY <1>2, <1>3

LEMMA EdgePush ==
  ASSUME EdgeKept, NEW h \in Helpers, Supabase!Push(h)
  PROVE  EdgeKept'
<1> PICK p \in EdgeRuns : p = supabaseOp[h]
  BY EdgeRun
<1> PICK z \in EdgeFiles : z = record[h]
  BY EdgeRun
<1> PICK w \in EdgeLeases : w = dep
  BY EdgeRun
<1> PICK f \in EdgePairs : f = fn
  BY EdgeRun
<1>1. RunSound(h, p, z, w, schema) /\ p.pc = "push" /\ schema \in Nat
  BY EdgeRun DEF Supabase!Push, Supabase!At
<1>2. p.target \in EdgeBuilds /\ z.status = "applying" /\ ~p.recovered
  BY <1>1 DEF RunSound, Deploying
<1>3. EdgeSchema[p.target] \in Nat
  BY <1>2, NobodyNoRun
<1>4. PICK s \in Nat : s = schema' /\ s >= schema /\ s >= EdgeSchema[p.target]
  BY <1>1, <1>3 DEF Supabase!Push
<1>5. PICK step \in {"secrets", "lease-first", "recover"} :
        /\ supabaseOp' = [supabaseOp EXCEPT ![h] = [p EXCEPT !.pc = step]]
        /\ dep' = w /\ fn' = f /\ record' = [record EXCEPT ![h] = z]
  BY EdgeRun DEF Supabase!Push, Supabase!Goto
<1>6. step \in EdgeSteps \ Believing
  BY DEF EdgeSteps, Deploying, Believing
<1> PICK o \in EdgeRuns :
      /\ o = [p EXCEPT !.pc = step] /\ o.pc = step
      /\ o.target = p.target /\ o.expected = p.expected
      /\ o.inventory = p.inventory /\ o.next = p.next
      /\ o.recovered = p.recovered /\ o.late = p.late
  BY <1>6, EdgeAt
<1>7. RunSound(h, o, z, w, s) /\ KnowsPair(h, o, w, f)
  BY <1>2, <1>4 DEF RunSound, KnowsPair
<1>8. Answers(o, z, f) \/ ~Answers(p, z, f)
  BY <1>2, <1>6 DEF Answers
<1>9. \A d \in Helpers \ {h} :
        Holds(d, supabaseOp[d], w) <=> Holds(d, supabaseOp[d], dep)
  OBVIOUS
<1> QED BY <1>4, <1>5, <1>7, <1>8, <1>9, EdgeRunStep

LEMMA EdgeSecrets ==
  ASSUME EdgeKept, NEW h \in Helpers, Supabase!Secrets(h)
  PROVE  EdgeKept'
<1>1. supabaseOp[h].pc = "secrets"
  BY DEF Supabase!Secrets, Supabase!At
<1>2. CASE Supabase!Throw(h)
  BY <1>1, <1>2, EdgeThrow
<1>3. CASE ~Supabase!Throw(h)
  <2>1. /\ supabaseOp' = [supabaseOp EXCEPT ![h].pc = "renew"]
        /\ record' = record /\ dep' = dep /\ fn' = fn /\ schema' = schema
        /\ Supabase!Update(h) => fn = supabaseOp[h].inventory
    BY <1>3 DEF Supabase!Secrets, Supabase!SecretsFit, Supabase!Goto, Supabase!remote
  <2>2. record[h].status = "applying"
    BY <1>1, EdgeRun DEF RunSound, Deploying
  <2>3. "renew" \in EdgeSteps \ Believing /\ supabaseOp[h].pc \in PastPush
    BY <1>1 DEF EdgeSteps, Deploying, PastPush, Believing
  <2> QED BY <1>1, <2>1, <2>2, <2>3, EdgeGoes
<1> QED BY <1>2, <1>3

LEMMA SlugIsFunction ==
  ASSUME NEW h, supabaseOp[h].next \in {1, 2}
  PROVE  Supabase!Slug(h) \in {"control", "gateway"}
BY DEF Supabase!Slug, Supabase!Slugs

LEMMA EdgeRenew ==
  ASSUME EdgeKept, NEW h \in Helpers, Supabase!Renew(h)
  PROVE  EdgeKept'
<1> PICK p \in EdgeRuns : p = supabaseOp[h]
  BY EdgeRun
<1> PICK z \in EdgeFiles : z = record[h]
  BY EdgeRun
<1>1. RunSound(h, p, z, dep, schema) /\ p.pc = "renew"
  BY EdgeRun DEF Supabase!Renew, Supabase!At
<1>2. CASE \/ Supabase!Throw(h)
           \/ Supabase!Goto(h, "recover") /\ UNCHANGED <<Supabase!remote, record>>
  BY <1>1, <1>2, EdgeThrow DEF Supabase!Goto, Supabase!remote
<1>3. CASE /\ Supabase!Leased(h) /\ record' = Supabase!Attempt(h)
           /\ Supabase!Goto(h, "deploy") /\ UNCHANGED Supabase!remote
  <2> PICK slug \in {"control", "gateway"} : slug = Supabase!Slug(h)
    <3>1. supabaseOp[h].next \in {1, 2}
      BY EdgeRun DEF EdgeRuns
    <3> QED BY <3>1, SlugIsFunction
  <2>0. "deploy" \in EdgeSteps /\ "deploy" \notin Believing
    BY DEF EdgeSteps, Deploying, Believing
  <2> PICK o \in EdgeRuns :
        /\ o = [p EXCEPT !.pc = "deploy"] /\ o.pc = "deploy"
        /\ o.target = p.target /\ o.expected = p.expected
        /\ o.inventory = p.inventory /\ o.next = p.next
        /\ o.recovered = p.recovered /\ o.late = p.late
    BY <2>0, EdgeAt
  <2> PICK r : r = [z EXCEPT !.attempted = @ \cup {slug}]
    OBVIOUS
  <2>1. /\ Holds(h, p, dep)
        /\ supabaseOp' = [supabaseOp EXCEPT ![h] = o]
        /\ record' = [record EXCEPT ![h] = r]
        /\ dep' = dep /\ fn' = fn /\ schema' = schema
    BY <1>3, EdgeRun DEF Supabase!Leased, Supabase!Attempt, Holds,
      Supabase!Goto, Supabase!remote, EdgeKept, EdgeType
  <2>2. /\ r \in EdgeFiles /\ r.status = z.status /\ r.attempted # {}
        /\ r.recovered = z.recovered
    BY DEF EdgeFiles
  <2>3. /\ p.target \in EdgeBuilds /\ z.status = "applying" /\ ~p.recovered
        /\ schema >= EdgeSchema[p.target]
    BY <1>1 DEF RunSound, Deploying, PastPush
  <2>4. RunSound(h, o, r, dep, schema)
    BY <2>1, <2>2, <2>3 DEF RunSound, Holds
  <2>5. KnowsPair(h, p, dep, fn) => KnowsPair(h, o, dep, fn)
    BY <1>1 DEF KnowsPair, Holds
  <2>6. KnowsPair(h, o, dep, fn) \/ Supabase!Overrun
    BY <2>5, EdgeRun
  <2>7. Answers(o, r, fn)
    BY <2>0, <2>2, <2>3 DEF Answers
  <2> QED BY <2>1, <2>2, <2>4, <2>6, <2>7, EdgeOwnStep
<1> QED BY <1>2, <1>3 DEF Supabase!Renew

\* A command that writes a Function, under an attempt on record
LEMMA EdgeCommand ==
  ASSUME EdgeKept, NEW h \in Helpers, NEW slug \in {"control", "gateway"},
         NEW b \in EdgeBuilds \cup {Nobody}, NEW o \in EdgeRuns,
         supabaseOp[h].pc \in {"deploy", "restore"},
         Supabase!Puts(slug, b) \/ fn' = fn,
         supabaseOp' = [supabaseOp EXCEPT ![h] = o],
         record' = record, dep' = dep, schema' = schema,
         o.pc \in {"list", "recover", "confirm", "confirm-absent", "release"},
         o.target = supabaseOp[h].target, o.late = supabaseOp[h].late,
         o.recovered = supabaseOp[h].recovered,
         o.pc = "list" => supabaseOp[h].pc = "deploy"
  PROVE  EdgeKept'
<1> PICK p \in EdgeRuns : p = supabaseOp[h]
  BY EdgeRun
<1> PICK z \in EdgeFiles : z = record[h]
  BY EdgeRun
<1> PICK w \in EdgeLeases : w = dep
  BY EdgeRun
<1> PICK g \in EdgePairs : g = fn
  BY EdgeRun
<1> PICK s \in Nat : s = schema
  BY EdgeRun
<1>1. fn' = g \/ fn' = [g EXCEPT ![slug] = b]
  BY DEF Supabase!Puts
<1> PICK f \in EdgePairs : f = fn'
  BY <1>1 DEF EdgePairs
<1>2. /\ p.target \in EdgeBuilds /\ z.attempted # {} /\ z.status = "applying"
      /\ ~p.recovered
      /\ p.pc = "deploy" => s >= EdgeSchema[p.target]
  BY EdgeRun DEF RunSound, PastPush
<1>3. RunSound(h, o, z, w, s) /\ KnowsPair(h, o, w, f)
  BY <1>2 DEF RunSound, KnowsPair, PastPush
<1>4. Answers(o, z, f)
  BY <1>2 DEF Answers, Believing
<1>5. /\ record' = [record EXCEPT ![h] = z] /\ dep' = w /\ fn' = f /\ schema' = s
      /\ s >= schema
      /\ \A d \in Helpers \ {h} :
           Holds(d, supabaseOp[d], w) <=> Holds(d, supabaseOp[d], dep)
  BY EdgeRun
<1> QED BY <1>3, <1>4, <1>5, EdgeRunStep

LEMMA EdgeDeploy ==
  ASSUME EdgeKept, NEW h \in Helpers, Supabase!Deploy(h)
  PROVE  EdgeKept'
<1> PICK p \in EdgeRuns : p = supabaseOp[h]
  BY EdgeRun
<1> PICK slug \in {"control", "gateway"} : slug = Supabase!Slug(h)
  <2>1. supabaseOp[h].next \in {1, 2}
    BY EdgeRun DEF EdgeRuns
  <2> QED BY <2>1, SlugIsFunction
<1> PICK b \in EdgeBuilds \cup {Nobody} : b = p.target
  BY DEF EdgeRuns
<1>1. p.pc = "deploy" /\ record' = record /\ dep' = dep /\ schema' = schema
  BY DEF Supabase!Deploy, Supabase!At, Supabase!Command
<1>2. Supabase!Puts(slug, b) \/ fn' = fn
  BY DEF Supabase!Deploy, Supabase!Command
<1>3. PICK step \in {"list", "recover"} :
        supabaseOp' = [supabaseOp EXCEPT ![h] = [p EXCEPT !.pc = step]]
  BY EdgeRun DEF Supabase!Deploy, Supabase!Command, Supabase!Goto
<1>4. step \in EdgeSteps
  BY DEF EdgeSteps, Deploying
<1> PICK o \in EdgeRuns :
      /\ o = [p EXCEPT !.pc = step] /\ o.pc = step
      /\ o.target = p.target /\ o.expected = p.expected
      /\ o.inventory = p.inventory /\ o.next = p.next
      /\ o.recovered = p.recovered /\ o.late = p.late
  BY <1>4, EdgeAt
<1> QED BY <1>1, <1>2, <1>3, EdgeCommand

LEMMA EdgeList ==
  ASSUME EdgeKept, NEW h \in Helpers, Supabase!List(h)
  PROVE  EdgeKept'
<1> PICK p \in EdgeRuns : p = supabaseOp[h]
  BY EdgeRun
<1> PICK z \in EdgeFiles : z = record[h]
  BY EdgeRun
<1> PICK f \in EdgePairs : f = fn
  BY EdgeRun
<1>1. RunSound(h, p, z, dep, schema) /\ p.pc = "list"
  BY EdgeRun DEF Supabase!List, Supabase!At
<1>2. CASE \/ Supabase!Throw(h)
           \/ Supabase!Goto(h, "recover") /\ UNCHANGED <<Supabase!remote, record>>
  BY <1>1, <1>2, EdgeThrow DEF Supabase!Goto, Supabase!remote
<1>3. CASE ~(\/ Supabase!Throw(h)
             \/ Supabase!Goto(h, "recover") /\ UNCHANGED <<Supabase!remote, record>>)
  <2> PICK step \in {"verify", "renew"} :
        step = IF p.next = 2 THEN "verify" ELSE "renew"
    OBVIOUS
  <2> PICK o : o = [p EXCEPT !.inventory = f, !.next = 2, !.pc = step]
    OBVIOUS
  <2>1. /\ supabaseOp' = [supabaseOp EXCEPT ![h] = o]
        /\ record' = [record EXCEPT ![h] = z]
        /\ dep' = dep /\ fn' = fn /\ schema' = schema
    BY <1>3, EdgeRun DEF Supabase!List, Supabase!remote, EdgeKept, EdgeType
  <2>2. step \in EdgeSteps /\ step \notin Believing /\ step \in PastPush
    BY DEF EdgeSteps, Deploying, Believing, PastPush
  <2>3. /\ o \in EdgeRuns /\ o.pc = step /\ o.target = p.target /\ o.next = 2
        /\ o.recovered = p.recovered /\ o.late = p.late
    BY <2>2 DEF EdgeRuns
  <2>4. /\ p.target \in EdgeBuilds /\ z.status = "applying" /\ ~p.recovered
        /\ schema >= EdgeSchema[p.target]
    BY <1>1 DEF RunSound, Deploying, PastPush
  <2>5. RunSound(h, o, z, dep, schema) /\ KnowsPair(h, o, dep, fn)
    BY <2>3, <2>4 DEF RunSound, KnowsPair
  <2>6. Answers(o, z, fn) \/ ~Answers(p, z, fn)
    BY <2>2, <2>3, <2>4 DEF Answers
  <2> QED BY <2>1, <2>3, <2>5, <2>6, EdgeOwnStep
<1> QED BY <1>2, <1>3

LEMMA EdgeVerify ==
  ASSUME EdgeKept, NEW h \in Helpers,
         Supabase!VerifyControl(h) \/ Supabase!VerifyGateway(h)
  PROVE  EdgeKept'
<1> PICK p \in EdgeRuns : p = supabaseOp[h]
  BY EdgeRun
<1> PICK f \in EdgePairs : f = fn
  BY EdgeRun
<1>1. /\ p.pc \in {"verify", "verify-gateway"} /\ record' = record
      /\ dep' = dep /\ fn' = fn /\ schema' = schema
  BY DEF Supabase!VerifyControl, Supabase!VerifyGateway, Supabase!Inspect, Supabase!At,
    Supabase!remote
<1>2. CASE Supabase!Goto(h, "recover")
  BY <1>1, <1>2, EdgeThrow DEF Supabase!Goto
<1>3. CASE Supabase!VerifyControl(h) /\ ~Supabase!Goto(h, "recover")
  <2>1. /\ supabaseOp' = [supabaseOp EXCEPT ![h].pc = "verify-gateway"]
        /\ fn.control = p.target /\ p.pc = "verify"
    BY <1>3 DEF Supabase!VerifyControl, Supabase!Inspect, Supabase!Goto, Supabase!At
  <2>2. /\ "verify-gateway" \in EdgeSteps \ Deploying
        /\ "verify" \in PastPush
    BY DEF EdgeSteps, Deploying, PastPush, Believing
  <2> QED BY <1>1, <2>1, <2>2, EdgeGoes
<1>4. CASE Supabase!VerifyGateway(h) /\ ~Supabase!Goto(h, "recover")
  <2>1. /\ supabaseOp' = [supabaseOp EXCEPT ![h].pc = "complete"]
        /\ fn.gateway = p.target /\ p.pc = "verify-gateway"
    BY <1>4 DEF Supabase!VerifyGateway, Supabase!Inspect, Supabase!Goto, Supabase!At
  <2>2. "complete" \in EdgeSteps \ Deploying /\ "verify-gateway" \in PastPush
    BY DEF EdgeSteps, Deploying, PastPush, Believing
  <2>3. \/ fn = Supabase!Both(p.target) \/ Supabase!Overrun
        \/ ~Holds(h, p, dep)
    <3>1. KnowsPair(h, p, dep, fn) \/ Supabase!Overrun
      BY EdgeRun
    <3>2. f.control = p.target /\ f.gateway = p.target => f = Supabase!Both(p.target)
      BY DEF EdgePairs, Supabase!Both
    <3> QED BY <2>1, <3>1, <3>2 DEF KnowsPair
  <2>4. fn.control = fn.gateway \/ ~Answers(p, record[h], fn)
    <3>1. record[h].attempted # {} => record[h].status = "applying"
      BY <2>1, EdgeRun DEF RunSound
    <3> QED BY <2>1, <3>1 DEF Answers, Seen, Believing
  <2> QED BY <1>1, <2>1, <2>2, <2>3, <2>4, EdgeGoes
<1> QED BY <1>2, <1>3, <1>4


\* A run that held the lease gives it back.
LEMMA EdgeGivesBack ==
  ASSUME EdgeKept, NEW h \in Helpers, NEW b \in EdgeBuilds \cup {Nobody},
         NEW o \in EdgeRuns, dep.lease = h, dep' = Supabase!Unleased(b),
         supabaseOp' = [supabaseOp EXCEPT ![h] = o],
         record' = record, fn' = fn, schema' = schema,
         supabaseOp[h].pc \in {"complete", "release"},
         o.pc \in {"resume", "finish", "recover", "fail"},
         o.pc = "fail" <=> supabaseOp[h].pc = "release",
         o.target = supabaseOp[h].target, o.late = supabaseOp[h].late,
         o.recovered = supabaseOp[h].recovered
  PROVE  EdgeKept'
<1> PICK p \in EdgeRuns : p = supabaseOp[h]
  BY EdgeRun
<1> PICK z \in EdgeFiles : z = record[h]
  BY EdgeRun
<1> PICK w : w = Supabase!Unleased(b)
  OBVIOUS
<1> PICK f \in EdgePairs : f = fn
  BY EdgeRun
<1> PICK s \in Nat : s = schema
  BY EdgeRun
<1>1. w \in EdgeLeases /\ w.lease = Nobody
  BY DEF Supabase!Unleased, Supabase!None, Nobody, EdgeLeases
<1>2. \A d \in Helpers \ {h} :
        Holds(d, supabaseOp[d], w) <=> Holds(d, supabaseOp[d], dep)
  BY <1>1, NobodyNoRun DEF Holds
<1>3. /\ p.target \in EdgeBuilds /\ (z.attempted # {} => z.status = "applying")
      /\ p.pc = "complete" => ~p.recovered
  BY EdgeRun DEF RunSound
<1>4. RunSound(h, o, z, w, s) /\ KnowsPair(h, o, w, f)
  BY <1>3 DEF RunSound, KnowsPair, Deploying, PastPush
<1>5. Answers(o, z, f) \/ ~Answers(p, z, f)
  BY <1>3 DEF Answers, Seen, Believing
<1>6. record' = [record EXCEPT ![h] = z] /\ s >= schema
  BY EdgeRun
<1> QED BY <1>1, <1>2, <1>4, <1>5, <1>6, EdgeRunStep

LEMMA EdgeComplete ==
  ASSUME EdgeKept, NEW h \in Helpers, Supabase!Complete(h)
  PROVE  EdgeKept'
<1> PICK p \in EdgeRuns : p = supabaseOp[h]
  BY EdgeRun
<1>1. p.pc = "complete"
  BY DEF Supabase!Complete, Supabase!At
<1>2. CASE Supabase!Throw(h)
  BY <1>1, <1>2, EdgeThrow
<1>3. CASE ~Supabase!Throw(h)
  <2> PICK step \in {"resume", "finish"} :
        step = IF Supabase!Update(h) /\ p.resume THEN "resume" ELSE "finish"
    OBVIOUS
  <2> PICK b \in EdgeBuilds \cup {Nobody} : b = p.target
    BY DEF EdgeRuns
  <2>1. /\ dep.lease = h /\ dep' = Supabase!Unleased(b)
        /\ record' = record /\ fn' = fn /\ schema' = schema
        /\ \/ supabaseOp' = [supabaseOp EXCEPT
                ![h] = [p EXCEPT !.leased = FALSE, !.pc = step]]
           \/ supabaseOp' = [supabaseOp EXCEPT ![h] = [p EXCEPT !.pc = "recover"]]
    BY <1>3, EdgeRun DEF Supabase!Complete, Supabase!Completes, Supabase!Leased,
      Supabase!Goto, EdgeKept, EdgeType
  <2>2. {"resume", "finish", "recover"} \subseteq EdgeSteps
    BY DEF EdgeSteps, Believing
  <2>3. CASE supabaseOp' = [supabaseOp EXCEPT
               ![h] = [p EXCEPT !.leased = FALSE, !.pc = step]]
    <3> PICK o : o = [p EXCEPT !.leased = FALSE, !.pc = step]
      OBVIOUS
    <3>1. /\ o \in EdgeRuns /\ o.pc = step /\ o.target = p.target
          /\ o.recovered = p.recovered /\ o.late = p.late
      BY <2>2 DEF EdgeRuns
    <3>2. /\ supabaseOp' = [supabaseOp EXCEPT ![h] = o]
          /\ supabaseOp[h].pc \in {"complete", "release"}
          /\ o.pc \in {"resume", "finish", "recover", "fail"}
          /\ o.pc = "fail" <=> supabaseOp[h].pc = "release"
          /\ o.target = supabaseOp[h].target /\ o.late = supabaseOp[h].late
          /\ o.recovered = supabaseOp[h].recovered
      BY <1>1, <2>3, <3>1
    <3>3. h \in Helpers /\ b \in EdgeBuilds \cup {Nobody} /\ o \in EdgeRuns
      BY <3>1
    <3> QED BY ONLY EdgeKept, <2>1, <3>2, <3>3, EdgeGivesBack
  <2>4. CASE supabaseOp' = [supabaseOp EXCEPT ![h] = [p EXCEPT !.pc = "recover"]]
    <3> PICK o \in EdgeRuns :
          /\ o = [p EXCEPT !.pc = "recover"] /\ o.pc = "recover"
          /\ o.target = p.target /\ o.expected = p.expected
          /\ o.inventory = p.inventory /\ o.next = p.next
          /\ o.recovered = p.recovered /\ o.late = p.late
      BY <2>2, EdgeAt
    <3>1. /\ supabaseOp' = [supabaseOp EXCEPT ![h] = o]
          /\ supabaseOp[h].pc \in {"complete", "release"}
          /\ o.pc \in {"resume", "finish", "recover", "fail"}
          /\ o.pc = "fail" <=> supabaseOp[h].pc = "release"
          /\ o.target = supabaseOp[h].target /\ o.late = supabaseOp[h].late
          /\ o.recovered = supabaseOp[h].recovered
      BY <1>1, <2>4
    <3>2. h \in Helpers /\ b \in EdgeBuilds \cup {Nobody} /\ o \in EdgeRuns
      OBVIOUS
    <3> QED BY ONLY EdgeKept, <2>1, <3>1, <3>2, EdgeGivesBack
  <2> QED BY <2>1, <2>3, <2>4
<1> QED BY <1>2, <1>3

LEMMA EdgeResume ==
  ASSUME EdgeKept, NEW h \in Helpers, Supabase!Resume(h)
  PROVE  EdgeKept'
<1>1. /\ supabaseOp[h].pc = "resume" /\ record' = record
      /\ dep' = dep /\ fn' = fn /\ schema' = schema
  BY DEF Supabase!Resume, Supabase!At
<1>2. CASE supabaseOp' = [supabaseOp EXCEPT ![h].pc = "release"]
  BY <1>1, <1>2, EdgeGivesUp
<1>3. CASE supabaseOp' = [supabaseOp EXCEPT ![h].pc = "finish"]
  <2>1. "finish" \in EdgeSteps \ (Deploying \cup PastPush)
    BY DEF EdgeSteps, Deploying, PastPush, Believing
  <2>2. ~Answers(supabaseOp[h], record[h], fn)
    <3>1. record[h].attempted # {} => record[h].status = "applying"
      BY <1>1, EdgeRun DEF RunSound
    <3> QED BY <1>1, <3>1 DEF Answers, Seen, Believing
  <2> QED BY <1>1, <1>3, <2>1, <2>2, EdgeGoes
<1> QED BY <1>2, <1>3 DEF Supabase!Resume, Supabase!Goto

LEMMA EdgeFinish ==
  ASSUME EdgeKept, NEW h \in Helpers, Supabase!Finish(h)
  PROVE  EdgeKept'
<1> PICK z \in EdgeFiles : z = record[h]
  BY EdgeRun
<1> PICK r : r = [z EXCEPT !.status = "verified"]
  OBVIOUS
<1>1. /\ supabaseOp[h].pc = "finish" /\ Supabase!Exit(h)
      /\ record' = [record EXCEPT ![h] = r]
      /\ dep' = dep /\ fn' = fn /\ schema' = schema
  BY EdgeRun DEF Supabase!Finish, Supabase!At, Supabase!remote, EdgeKept, EdgeType
<1>2. r \in EdgeFiles
  BY DEF EdgeFiles
<1>3. ~Answers(supabaseOp[h], z, fn)
  <2>1. z.attempted # {} => z.status = "applying"
    BY <1>1, EdgeRun DEF RunSound
  <2> QED BY <1>1, <2>1 DEF Answers, Seen, Believing
<1> QED BY <1>1, <1>2, <1>3, EdgeExit

LEMMA EdgeRecover ==
  ASSUME EdgeKept, NEW h \in Helpers, Supabase!Recover(h)
  PROVE  EdgeKept'
<1> PICK p \in EdgeRuns : p = supabaseOp[h]
  BY EdgeRun
<1> PICK z \in EdgeFiles : z = record[h]
  BY EdgeRun
<1>1. /\ p.pc = "recover" /\ record' = record
      /\ dep' = dep /\ fn' = fn /\ schema' = schema
  BY DEF Supabase!Recover, Supabase!At, Supabase!remote
<1>2. CASE supabaseOp' = [supabaseOp EXCEPT ![h].pc = "release"]
  BY <1>1, <1>2, EdgeGivesUp
<1>3. CASE /\ supabaseOp' = [supabaseOp EXCEPT ![h].pc = "restore"]
           /\ z.attempted # {} /\ Supabase!Leased(h)
  <2>1. "restore" \in EdgeSteps
    BY DEF EdgeSteps
  <2> PICK o \in EdgeRuns :
        /\ o = [p EXCEPT !.pc = "restore"] /\ o.pc = "restore"
        /\ o.target = p.target /\ o.expected = p.expected
        /\ o.inventory = p.inventory /\ o.next = p.next
        /\ o.recovered = p.recovered /\ o.late = p.late
    BY <2>1, EdgeAt
  <2>2. p.target \in EdgeBuilds /\ z.status = "applying" /\ ~p.recovered
    BY <1>1, <1>3, EdgeRun DEF RunSound
  <2>3. Holds(h, o, dep)
    BY <1>3 DEF Supabase!Leased, Holds
  <2>4. RunSound(h, o, z, dep, schema) /\ KnowsPair(h, o, dep, fn)
    BY <1>3, <2>2, <2>3 DEF RunSound, KnowsPair, Deploying, PastPush
  <2>5. Answers(o, z, fn)
    BY <1>3, <2>2 DEF Answers, Believing
  <2>6. supabaseOp' = [supabaseOp EXCEPT ![h] = o] /\ record' = [record EXCEPT ![h] = z]
    BY <1>1, <1>3, EdgeRun
  <2> QED BY <1>1, <2>4, <2>5, <2>6, EdgeOwnStep
<1> QED BY <1>2, <1>3 DEF Supabase!Recover, Supabase!Goto

LEMMA EdgeRestore ==
  ASSUME EdgeKept, NEW h \in Helpers, Supabase!Restore(h)
  PROVE  EdgeKept'
<1> PICK p \in EdgeRuns : p = supabaseOp[h]
  BY EdgeRun
<1> PICK slug \in {"control", "gateway"} : slug = Supabase!Undone(h)
  BY DEF Supabase!Undone, Supabase!Other
<1> PICK b \in EdgeBuilds \cup {Nobody} : b = Supabase!Restored(h)
  <2>1. p.captured[slug] \in EdgeBuilds \cup {Nobody}
    BY DEF EdgeRuns, EdgePairs
  <2> QED BY <2>1 DEF Supabase!Restored, Supabase!None, Nobody
<1> PICK step \in {"recover", "confirm", "confirm-absent"} : step = Supabase!AfterRestore(h)
  BY DEF Supabase!AfterRestore
<1>1. p.pc = "restore" /\ record' = record /\ dep' = dep /\ schema' = schema
  BY DEF Supabase!Restore, Supabase!At, Supabase!Command
<1>2. Supabase!Puts(slug, b) \/ fn' = fn
  BY DEF Supabase!Restore, Supabase!Command
<1>3. \/ supabaseOp' = [supabaseOp EXCEPT ![h] = [p EXCEPT !.pc = "release"]]
      \/ supabaseOp' = [supabaseOp EXCEPT
           ![h] = [p EXCEPT !.restored = @ \cup {slug}, !.pc = step]]
  BY EdgeRun DEF Supabase!Restore, Supabase!Command, Supabase!Goto, EdgeKept, EdgeType
<1>4. {"recover", "confirm", "confirm-absent", "release"} \subseteq EdgeSteps
  BY DEF EdgeSteps
<1>5. CASE supabaseOp' = [supabaseOp EXCEPT ![h] = [p EXCEPT !.pc = "release"]]
  <2> PICK o \in EdgeRuns :
        /\ o = [p EXCEPT !.pc = "release"] /\ o.pc = "release"
        /\ o.target = p.target /\ o.expected = p.expected
        /\ o.inventory = p.inventory /\ o.next = p.next
        /\ o.recovered = p.recovered /\ o.late = p.late
    BY <1>4, EdgeAt
  <2> QED BY <1>1, <1>2, <1>5, EdgeCommand
<1>6. CASE supabaseOp' = [supabaseOp EXCEPT
             ![h] = [p EXCEPT !.restored = @ \cup {slug}, !.pc = step]]
  <2> PICK o : o = [p EXCEPT !.restored = @ \cup {slug}, !.pc = step]
    OBVIOUS
  <2>1. /\ o \in EdgeRuns /\ o.pc = step /\ o.target = p.target
        /\ o.recovered = p.recovered /\ o.late = p.late
    BY <1>4 DEF EdgeRuns
  <2> QED BY <1>1, <1>2, <1>6, <2>1, EdgeCommand
<1> QED BY <1>3, <1>5, <1>6

\* A recovery is believed once both Functions were found alike.
LEMMA EdgeConfirm ==
  ASSUME EdgeKept, NEW h \in Helpers,
         Supabase!ConfirmControl(h) \/ Supabase!ConfirmGateway(h)
  PROVE  EdgeKept'
<1> PICK p \in EdgeRuns : p = supabaseOp[h]
  BY EdgeRun
<1>1. /\ p.pc \in {"confirm", "confirm-gateway"} /\ record' = record
      /\ dep' = dep /\ fn' = fn /\ schema' = schema
  BY DEF Supabase!ConfirmControl, Supabase!ConfirmGateway, Supabase!Inspect, Supabase!At,
    Supabase!remote
<1>2. CASE Supabase!Goto(h, "release")
  BY <1>1, <1>2, EdgeGivesUp DEF Supabase!Goto
<1>3. {"confirm-gateway", "confirm-paused"} \subseteq EdgeSteps \ (Deploying \cup PastPush)
  BY DEF EdgeSteps, Deploying, PastPush, Believing
<1>4. CASE Supabase!ConfirmControl(h) /\ ~Supabase!Goto(h, "release")
  <2>1. /\ supabaseOp' = [supabaseOp EXCEPT ![h].pc = "confirm-gateway"]
        /\ fn.control = p.expected
    BY <1>4 DEF Supabase!ConfirmControl, Supabase!Inspect, Supabase!Goto
  <2> QED BY <1>1, <1>3, <2>1, EdgeGoes
<1>5. CASE Supabase!ConfirmGateway(h) /\ ~Supabase!Goto(h, "release")
  <2>1. /\ supabaseOp' = [supabaseOp EXCEPT ![h].pc = "confirm-paused"]
        /\ fn.gateway = p.expected /\ p.pc = "confirm-gateway"
    BY <1>5 DEF Supabase!ConfirmGateway, Supabase!Inspect, Supabase!Goto, Supabase!At
  <2>2. fn.control = fn.gateway \/ ~Answers(p, record[h], fn)
    <3>1. record[h].attempted # {} => record[h].status = "applying"
      BY <2>1, EdgeRun DEF RunSound
    <3> QED BY <2>1, <3>1 DEF Answers, Seen, Believing
  <2> QED BY <1>1, <1>3, <2>1, <2>2, EdgeGoes
<1> QED BY <1>2, <1>4, <1>5

LEMMA EdgeConfirmed ==
  ASSUME EdgeKept, NEW h \in Helpers,
         Supabase!ConfirmPaused(h) \/ Supabase!ConfirmAbsent(h)
  PROVE  EdgeKept'
<1> PICK p \in EdgeRuns : p = supabaseOp[h]
  BY EdgeRun
<1> PICK z \in EdgeFiles : z = record[h]
  BY EdgeRun
<1>1. /\ p.pc \in {"confirm-paused", "confirm-absent"} /\ record' = record
      /\ dep' = dep /\ fn' = fn /\ schema' = schema
  BY DEF Supabase!ConfirmPaused, Supabase!ConfirmAbsent, Supabase!At, Supabase!remote
<1>2. CASE Supabase!Goto(h, "release")
  BY <1>1, <1>2, EdgeGivesUp DEF Supabase!Goto
<1>3. CASE ~Supabase!Goto(h, "release")
  <2> PICK o : o = [p EXCEPT !.recovered = TRUE, !.pc = "release"]
    OBVIOUS
  <2>0. /\ Supabase!Recovered(h)
        /\ p.pc = "confirm-paused" \/ fn = Supabase!Both(Nobody)
    BY <1>1, <1>3 DEF Supabase!ConfirmPaused, Supabase!ConfirmAbsent, Supabase!At,
      Supabase!None, Nobody
  <2>1. /\ supabaseOp' = [supabaseOp EXCEPT ![h] = o]
        /\ record' = [record EXCEPT ![h] = z]
        /\ p.pc = "confirm-paused" \/ fn.control = fn.gateway
    <3>1. [supabaseOp EXCEPT ![h].recovered = TRUE, ![h].pc = "release"]
            = [supabaseOp EXCEPT ![h] = [p EXCEPT !.recovered = TRUE, !.pc = "release"]]
      BY DEF EdgeKept, EdgeType
    <3>2. supabaseOp' = [supabaseOp EXCEPT ![h] = o]
      BY <2>0, <3>1 DEF Supabase!Recovered
    <3>3. record' = [record EXCEPT ![h] = z]
      BY <1>1, EdgeRun
    <3>4. fn = Supabase!Both(Nobody) => fn.control = fn.gateway
      BY DEF Supabase!Both
    <3> QED BY <2>0, <3>2, <3>3, <3>4
  <2>2. /\ o \in EdgeRuns /\ o.pc = "release" /\ o.target = p.target /\ o.late = p.late
    BY DEF EdgeRuns, EdgeSteps
  <2>3. p.target \in EdgeBuilds /\ (z.attempted # {} => z.status = "applying")
    BY <1>1, EdgeRun DEF RunSound
  <2>4. RunSound(h, o, z, dep, schema) /\ KnowsPair(h, o, dep, fn)
    BY <2>2, <2>3 DEF RunSound, KnowsPair, Deploying, PastPush
  <2>5. fn.control = fn.gateway \/ ~Answers(p, z, fn)
    BY <2>1, <2>3 DEF Answers, Seen, Believing
  <2> QED BY <1>1, <2>1, <2>2, <2>4, <2>5, EdgeOwnStep
<1> QED BY <1>2, <1>3

LEMMA EdgeRelease ==
  ASSUME EdgeKept, NEW h \in Helpers, Supabase!Release(h)
  PROVE  EdgeKept'
<1> PICK p \in EdgeRuns : p = supabaseOp[h]
  BY EdgeRun
<1>1. /\ p.pc = "release" /\ record' = record /\ fn' = fn /\ schema' = schema
      /\ supabaseOp' = [supabaseOp EXCEPT ![h].pc = "fail"]
  BY DEF Supabase!Release, Supabase!At, Supabase!Goto
<1>2. dep' = dep \/ (dep.lease = h /\ dep' = Supabase!Unleased(dep.build))
  <2>1. CASE supabaseOp[h].leased /\ dep.lease = h
    BY <2>1 DEF Supabase!Release
  <2>2. CASE ~(supabaseOp[h].leased /\ dep.lease = h)
    BY <2>2 DEF Supabase!Release
  <2> QED BY <2>1, <2>2
<1>3. CASE dep' = dep
  BY <1>1, <1>3, EdgeGivesUp
<1>4. CASE dep.lease = h /\ dep' = Supabase!Unleased(dep.build)
  <2> PICK b \in EdgeBuilds \cup {Nobody} : b = dep.build
    BY EdgeRun DEF EdgeLeases
  <2>1. "fail" \in EdgeSteps
    BY DEF EdgeSteps
  <2> PICK o \in EdgeRuns :
        /\ o = [p EXCEPT !.pc = "fail"] /\ o.pc = "fail"
        /\ o.target = p.target /\ o.expected = p.expected
        /\ o.inventory = p.inventory /\ o.next = p.next
        /\ o.recovered = p.recovered /\ o.late = p.late
    BY <2>1, EdgeAt
  <2>2. /\ supabaseOp' = [supabaseOp EXCEPT ![h] = o]
        /\ dep.lease = h /\ dep' = Supabase!Unleased(b)
        /\ record' = record /\ fn' = fn /\ schema' = schema
    BY <1>1, <1>4, EdgeRun
  <2>3. /\ supabaseOp[h].pc \in {"complete", "release"}
        /\ o.pc \in {"resume", "finish", "recover", "fail"}
        /\ o.pc = "fail" <=> supabaseOp[h].pc = "release"
        /\ o.target = supabaseOp[h].target /\ o.late = supabaseOp[h].late
        /\ o.recovered = supabaseOp[h].recovered
    BY <1>1
  <2>4. h \in Helpers /\ b \in EdgeBuilds \cup {Nobody} /\ o \in EdgeRuns
    OBVIOUS
  <2> QED BY ONLY EdgeKept, <2>2, <2>3, <2>4, EdgeGivesBack
<1> QED BY <1>2, <1>3, <1>4

LEMMA EdgeFail ==
  ASSUME EdgeKept, NEW h \in Helpers, Supabase!Fail(h)
  PROVE  EdgeKept'
<1> PICK p \in EdgeRuns : p = supabaseOp[h]
  BY EdgeRun
<1> PICK z \in EdgeFiles : z = record[h]
  BY EdgeRun
<1> PICK r : r = [z EXCEPT !.status = "failed", !.recovered = p.recovered]
  OBVIOUS
<1>1. /\ p.pc = "fail" /\ Supabase!Exit(h) /\ record' = [record EXCEPT ![h] = r]
      /\ dep' = dep /\ fn' = fn /\ schema' = schema
  BY EdgeRun DEF Supabase!Fail, Supabase!At, Supabase!remote, EdgeKept, EdgeType
<1>2. /\ r \in EdgeFiles /\ r.status = "failed" /\ r.recovered = p.recovered
      /\ r.attempted = z.attempted
  BY DEF EdgeFiles, EdgeRuns
<1>3. Answers(p, z, fn) => z.attempted # {} /\ ~p.recovered
  <2>1. z.attempted # {} => z.status = "applying"
    BY <1>1, EdgeRun DEF RunSound
  <2> QED BY <1>1, <2>1 DEF Answers, Seen
<1> QED BY <1>1, <1>2, <1>3, EdgeExit

\* The lease runs out: under a command that is noted, else under nobody who
\* goes on without asking for it again.
LEMMA EdgeExpire ==
  ASSUME EdgeKept, Supabase!Expire
  PROVE  EdgeKept'
<1> PICK w \in EdgeLeases : w = dep
  BY DEF EdgeKept, EdgeType
<1> PICK v : v = [w EXCEPT !.live = FALSE]
  OBVIOUS
<1>1. /\ dep' = v /\ fn' = fn /\ schema' = schema /\ record' = record
      /\ v \in EdgeLeases /\ ~v.live
  BY DEF Supabase!Expire, EdgeLeases
<1>2. ASSUME NEW d \in Helpers
      PROVE  \E o \in EdgeRuns :
               /\ o = supabaseOp'[d] /\ o.pc = supabaseOp[d].pc
               /\ o.target = supabaseOp[d].target /\ o.expected = supabaseOp[d].expected
               /\ o.recovered = supabaseOp[d].recovered
               /\ supabaseOp[d].late => o.late
               /\ d = w.lease /\ o.pc \in {"deploy", "restore"} => o.late
  <2> PICK p \in EdgeRuns : p = supabaseOp[d]
    BY EdgeRun
  <2> PICK late \in BOOLEAN : late <=> p.late \/ p.pc \in {"deploy", "restore"}
    OBVIOUS
  <2>1. CASE d = w.lease
    <3> PICK o : o = [p EXCEPT !.late = late]
      OBVIOUS
    <3>1. p.late \in BOOLEAN
      BY DEF EdgeRuns
    <3>2. supabaseOp'[d] = [p EXCEPT !.late = p.late \/ p.pc \in {"deploy", "restore"}]
      BY <2>1 DEF Supabase!Expire, Supabase!Commanding, EdgeKept, EdgeType
    <3>3. (p.late \/ p.pc \in {"deploy", "restore"}) = late
      BY <3>1
    <3>4. o = supabaseOp'[d]
      BY <3>2, <3>3
    <3>5. /\ o \in EdgeRuns /\ o.pc = p.pc /\ o.target = p.target
          /\ o.expected = p.expected /\ o.recovered = p.recovered /\ o.late = late
      BY DEF EdgeRuns
    <3> QED BY <3>4, <3>5
  <2>2. CASE d # w.lease
    <3>1. supabaseOp'[d] = p
      BY <2>2 DEF Supabase!Expire, EdgeKept, EdgeType
    <3> QED BY <2>2, <3>1
  <2> QED BY <2>1, <2>2
<1>3. supabaseOp' \in [Helpers -> EdgeRuns]
  <2>1. DOMAIN supabaseOp' = Helpers
        /\ supabaseOp' = [d \in Helpers |-> supabaseOp'[d]]
    BY DEF Supabase!Expire, EdgeKept, EdgeType
  <2> QED BY <1>2, <2>1
<1>4. EdgeType'
  BY <1>1, <1>3 DEF EdgeKept, EdgeType
<1>5. ASSUME NEW d \in Helpers
      PROVE  RunSound(d, supabaseOp'[d], record[d], v, schema)
  <2> PICK o \in EdgeRuns :
        /\ o = supabaseOp'[d] /\ o.pc = supabaseOp[d].pc
        /\ o.target = supabaseOp[d].target /\ o.expected = supabaseOp[d].expected
        /\ o.recovered = supabaseOp[d].recovered
        /\ supabaseOp[d].late => o.late
        /\ d = w.lease /\ o.pc \in {"deploy", "restore"} => o.late
    BY <1>2
  <2>1. RunSound(d, supabaseOp[d], record[d], w, schema)
    BY DEF EdgeKept
  <2>2. o.pc \in {"deploy", "restore"} => record[d].attempted # {} /\ o.late
    BY <2>1 DEF RunSound, Holds
  <2> QED BY <2>1, <2>2 DEF RunSound
<1>6. \A d \in Helpers : KnowsPair(d, supabaseOp'[d], v, fn)
  BY <1>1 DEF KnowsPair, Holds
<1>7. MixedIsAnswered'
  <2>1. ASSUME NEW d \in Helpers, Answers(supabaseOp[d], record[d], fn)
        PROVE  Answers(supabaseOp'[d], record[d], fn)
    <3> PICK o \in EdgeRuns :
          /\ o = supabaseOp'[d] /\ o.pc = supabaseOp[d].pc
          /\ o.target = supabaseOp[d].target /\ o.expected = supabaseOp[d].expected
          /\ o.recovered = supabaseOp[d].recovered
      BY <1>2
    <3> QED BY <2>1 DEF Answers, Seen
  <2> QED BY <1>1, <2>1 DEF EdgeKept, MixedIsAnswered
<1>8. (\A d \in Helpers : RunSound(d, supabaseOp[d], record[d], dep, schema))'
  BY <1>1, <1>5
<1>9. (\A d \in Helpers : KnowsPair(d, supabaseOp[d], dep, fn) \/ Supabase!Overrun)'
  BY <1>1, <1>6
<1> QED BY <1>4, <1>7, <1>8, <1>9 DEF EdgeKept

LEMMA EdgeStutters ==
  ASSUME EdgeKept, UNCHANGED supabaseVars
  PROVE  EdgeKept'
BY DEF EdgeKept, EdgeType, MixedIsAnswered, Supabase!Overrun, supabaseVars

LEMMA EdgeNextStep ==
  ASSUME EdgeKept, Supabase!Next
  PROVE  EdgeKept'
<1>1. CASE Supabase!Expire
  BY <1>1, EdgeExpire
<1>2. ASSUME NEW h \in Helpers, Supabase!Run(h)
      PROVE  EdgeKept'
  <2>1. CASE Supabase!Preflight(h)
    BY <2>1, EdgeBegin, EdgePreflight DEF Supabase!Preflight, Supabase!None, Nobody
  <2>2. CASE Supabase!Apply(h)
    <3>1. CASE \/ Supabase!Pause(h) \/ Supabase!Capture(h) \/ Supabase!Backup(h)
               \/ Supabase!Lease(h) \/ Supabase!Push(h) \/ Supabase!LeaseFirst(h)
               \/ Supabase!Secrets(h)
      BY <3>1, EdgePause, EdgeCapture, EdgeBackup, EdgeAcquires, EdgePush, EdgeSecrets
    <3>2. CASE \/ Supabase!Renew(h) \/ Supabase!Deploy(h) \/ Supabase!List(h)
               \/ Supabase!VerifyControl(h) \/ Supabase!VerifyGateway(h)
               \/ Supabase!Complete(h) \/ Supabase!Resume(h) \/ Supabase!Finish(h)
      BY <3>2, EdgeRenew, EdgeDeploy, EdgeList, EdgeVerify, EdgeComplete, EdgeResume,
         EdgeFinish
    <3> QED BY <2>2, <3>1, <3>2 DEF Supabase!Apply
  <2>3. CASE Supabase!Catch(h)
    BY <2>3, EdgeRecover, EdgeRestore, EdgeConfirm, EdgeConfirmed, EdgeRelease, EdgeFail
       DEF Supabase!Catch
  <2> QED BY <1>2, <2>1, <2>2, <2>3, EdgeCrash DEF Supabase!Run
<1> QED BY <1>1, <1>2 DEF Supabase!Next

LEMMA EdgeInvariant == AdministrationSpec => []EdgeInv
<1>1. AdministrationInit => EdgeInv
  <2>1. AdministrationInit /\ subject = "supabase" => Supabase!Init
    BY DEF AdministrationInit, ConfigurationsInit
  <2> QED BY <2>1, EdgeStart DEF EdgeInv
<1>2. EdgeInv /\ [AdministrationNext]_administrationVars => EdgeInv'
  <2> SUFFICES ASSUME EdgeInv, [AdministrationNext]_administrationVars,
                      subject' = "supabase"
               PROVE  EdgeKept'
    BY DEF EdgeInv
  <2>1. subject = "supabase" /\ (Supabase!Next \/ UNCHANGED supabaseVars)
    BY DEF AdministrationNext, administrationVars, ConfigurationsNext, NodeNext,
           CloudflareNext, SupabaseNext, ConsoleNext
  <2>2. EdgeKept
    BY <2>1 DEF EdgeInv
  <2> QED BY <2>1, <2>2, EdgeNextStep, EdgeStutters
<1> QED BY <1>1, <1>2, PTL DEF AdministrationSpec

(* Supabase: Functions of two builds, with nobody at work on them, are on   *)
(* record in the state file of a run that answers for them, which no later  *)
(* step of any run closes before it has found the pair alike - with or      *)
(* without the lease, and however late a command lands.                     *)
THEOREM DegradedIsRecordedHolds == AdministrationSpec => []DegradedIsRecorded
<1>1. EdgeInv => DegradedIsRecorded
  BY DEF EdgeInv, EdgeKept, MixedIsAnswered, Answers, DegradedIsRecorded,
         Supabase!DegradedIsRecorded
<1> QED BY <1>1, EdgeInvariant, PTL

\* Only the run that completes changes the recorded build.
LEMMA BuildIsCompleted ==
  ASSUME EdgeKept, NEW h \in Helpers, Supabase!Run(h), dep'.build # dep.build
  PROVE  Supabase!Complete(h) /\ Supabase!Completes(h)
<1>1. Supabase!Throw(h) => dep' = dep
  BY DEF Supabase!Throw, Supabase!remote
<1>2. ~Supabase!Preflight(h) /\ ~Supabase!Crash(h)
  <2>1. \A b, e, again : Supabase!Begin(h, b, e, again) => dep' = dep
    BY DEF Supabase!Begin, Supabase!remote
  <2>2. Supabase!InspectControl(h) \/ Supabase!InspectGateway(h) => dep' = dep
    BY DEF Supabase!InspectControl, Supabase!InspectGateway, Supabase!Inspect,
      Supabase!remote
  <2>3. ~Supabase!Crash(h)
    BY DEF Supabase!Crash, Supabase!remote
  <2> QED BY <2>1, <2>2, <2>3 DEF Supabase!Preflight
<1>3. ~Supabase!Catch(h)
  <2>1. ~Supabase!Release(h)
    <3>1. Supabase!Release(h) => dep' = dep \/ dep' = Supabase!Unleased(dep.build)
      BY Zenon DEF Supabase!Release
    <3> QED BY <3>1 DEF Supabase!Unleased
  <2>2. ~(Supabase!Recover(h) \/ Supabase!Restore(h) \/ Supabase!Fail(h))
    BY DEF Supabase!Recover, Supabase!Restore, Supabase!Command, Supabase!Fail,
      Supabase!remote
  <2>3. ~(\/ Supabase!ConfirmControl(h) \/ Supabase!ConfirmGateway(h)
          \/ Supabase!ConfirmPaused(h) \/ Supabase!ConfirmAbsent(h))
    BY DEF Supabase!ConfirmControl, Supabase!ConfirmGateway, Supabase!Inspect,
      Supabase!ConfirmPaused, Supabase!ConfirmAbsent, Supabase!remote
  <2> QED BY <2>1, <2>2, <2>3 DEF Supabase!Catch
<1>4. ~(Supabase!Lease(h) \/ Supabase!LeaseFirst(h))
  <2>1. \A next : ~Supabase!AcquireLease(h, next)
    BY <1>1, EdgeRun DEF Supabase!AcquireLease, EdgeLeases
  <2> QED BY <2>1 DEF Supabase!Lease, Supabase!LeaseFirst
<1>5. ~(\/ Supabase!Pause(h) \/ Supabase!Capture(h) \/ Supabase!Backup(h)
        \/ Supabase!Push(h) \/ Supabase!Secrets(h) \/ Supabase!Renew(h))
  BY <1>1 DEF Supabase!Pause, Supabase!Capture, Supabase!Backup, Supabase!Push,
    Supabase!Secrets, Supabase!Renew, Supabase!remote
<1>6. ~(\/ Supabase!Deploy(h) \/ Supabase!List(h) \/ Supabase!VerifyControl(h)
        \/ Supabase!VerifyGateway(h) \/ Supabase!Resume(h) \/ Supabase!Finish(h))
  BY <1>1 DEF Supabase!Deploy, Supabase!Command, Supabase!List, Supabase!VerifyControl,
    Supabase!VerifyGateway, Supabase!Inspect, Supabase!Resume, Supabase!Finish,
    Supabase!remote
<1>7. Supabase!Complete(h)
  BY <1>2, <1>3, <1>4, <1>5, <1>6 DEF Supabase!Run, Supabase!Apply
<1>8. Supabase!Completes(h) \/ Supabase!Throw(h)
  BY <1>7, Zenon DEF Supabase!Complete
<1> QED BY <1>1, <1>7, <1>8

(* Supabase: as long as no lease ran out under a running command, a         *)
(* deployment completes only when both Functions run the build it records,  *)
(* on a schema that build can use, whatever other runs started, failed or   *)
(* recovered meanwhile: the lease kept them off, although it may run out at *)
(* any moment between two commands.                                         *)
THEOREM CompletedIsWholeHolds == AdministrationSpec => CompletedIsWhole
<1>1. ASSUME EdgeInv, [AdministrationNext]_administrationVars
      PROVE  [subject = "supabase" => Supabase!CompletedIsWhole]_supabaseVars
  <2> SUFFICES ASSUME subject = "supabase", ~UNCHANGED supabaseVars,
                      dep'.build # dep.build, ~Supabase!Overrun
               PROVE  /\ fn = Supabase!Both(dep'.build)
                      /\ schema >= EdgeSchema[dep'.build]
    BY DEF Supabase!CompletedIsWhole
  <2>1. Supabase!Next /\ EdgeKept
    BY <1>1 DEF AdministrationNext, administrationVars, ConfigurationsNext, NodeNext,
                CloudflareNext, SupabaseNext, ConsoleNext, EdgeInv
  <2>2. dep \in EdgeLeases
    BY <2>1 DEF EdgeKept, EdgeType
  <2>3. PICK h \in Helpers : Supabase!Run(h)
    BY <2>1, <2>2 DEF Supabase!Next, Supabase!Expire, EdgeLeases
  <2>4. Supabase!Complete(h) /\ Supabase!Completes(h)
    BY <2>1, <2>3, BuildIsCompleted
  <2>5. supabaseOp[h].pc = "complete" /\ dep' = Supabase!Unleased(supabaseOp[h].target)
    BY <2>4 DEF Supabase!Complete, Supabase!At, Supabase!Throw, Supabase!remote
  <2>6. Holds(h, supabaseOp[h], dep)
    BY <2>4 DEF Supabase!Completes, Supabase!Leased, Holds
  <2>7. /\ RunSound(h, supabaseOp[h], record[h], dep, schema)
        /\ KnowsPair(h, supabaseOp[h], dep, fn)
    BY <2>1, <2>3 DEF EdgeKept
  <2> QED BY <2>5, <2>6, <2>7 DEF RunSound, KnowsPair, PastPush, Supabase!Unleased
<1> QED BY <1>1, EdgeInvariant, PTL DEF AdministrationSpec, CompletedIsWhole

(* Supabase: as long as no lease ran out under a running command, the first *)
(* Function an update replaces belongs to the pair its preflight listed,    *)
(* although it listed that pair before it asked for the lease.              *)
THEOREM StartsFromListedHolds == AdministrationSpec => StartsFromListed
<1>1. ASSUME EdgeInv
      PROVE  subject = "supabase" => Supabase!StartsFromListed
  <2> SUFFICES ASSUME subject = "supabase", NEW h \in Helpers,
                      supabaseOp[h].expected # Nobody, supabaseOp[h].pc = "deploy",
                      supabaseOp[h].next = 1, ~Supabase!Overrun
               PROVE  fn = supabaseOp[h].inventory
    BY DEF Supabase!StartsFromListed, Supabase!Update, Supabase!At, Supabase!None, Nobody
  <2>1. /\ RunSound(h, supabaseOp[h], record[h], dep, schema)
        /\ KnowsPair(h, supabaseOp[h], dep, fn)
    BY <1>1 DEF EdgeInv, EdgeKept
  <2>2. Holds(h, supabaseOp[h], dep)
    BY <2>1 DEF RunSound, Supabase!Overrun
  <2> QED BY <2>1, <2>2 DEF KnowsPair
<1> QED BY <1>1, EdgeInvariant, PTL DEF StartsFromListed

-----------------------------------------------------------------------------
(* The Node deployment helper.  Who works holds the lock, and until it has *)
(* replaced current.json, current.json is what it read when it took the    *)
(* lock; the rest is what each place of an operation has checked and done. *)

Active == {"plan", "verify", "read", "put", "confirm", "confirm-apply", "copy",
           "extract", "unpack", "activate", "pointer", "record", "release"}

HelperSteps == {"idle", "lock", "failed", "done", "crashed"} \cup Active

HelperEffects == {"pause", "resume", "backup", "extract", "activate"}

HelperPhases ==
  {"none", "preparing", "planned", "pause-requested", "resume-requested",
   "pause-confirmed", "resume-confirmed", "backup-started", "backup-verified",
   "extracting", "activation-requested", "restart-required"}

Pointers == [version : Versions \cup {Nobody}, previous : Versions \cup {Nobody}]

HelperOps ==
  [kind : {"none", "apply", "rollback", "resume"}, pc : HelperSteps,
   target : Versions \cup {Nobody}, expected : Versions \cup {Nobody},
   snapshot : Pointers, seen : Nat]

ServerType ==
  /\ lock \in Helpers \cup {Nobody}
  /\ pointer \in Pointers
  /\ config \in [version : Nat, paused : BOOLEAN]
  /\ schemaLedger \in Seq(STRING)
  /\ launching \in Versions \cup {Nobody} /\ running \in Versions \cup {Nobody}

HelperType ==
  /\ nodeOp \in [Helpers -> HelperOps]
  /\ journal \in [Helpers -> HelperPhases]
  /\ effects \in [Helpers -> SUBSET HelperEffects]

(* What is being launched can open the database after the active version:  *)
(* an update extends it, a rollback keeps to its migrations.               *)
ServerSound ==
  /\ Node!PointerRuns /\ Node!UpdateIsRecoverable
  /\ running # Nobody => launching = Nobody
  /\ launching # Nobody =>
       /\ pointer.version # Nobody
       /\ Node!IsPrefix(Migrations[launching], Migrations[pointer.version])
  /\ pointer.version = Nobody => schemaLedger = <<>> /\ pointer.previous = Nobody

\* The helper alone has the lock, and nobody has moved the pointer since.
Holding(h, o) ==
  /\ o.pc \in Active => lock = h
  /\ o.pc \in Active \ {"record", "release"} => pointer = o.snapshot

\* What the operation has checked about the versions it is given
Chosen(o) ==
  /\ o.pc # "idle" => o.kind # "none"
  /\ o.kind = "apply" => o.target \in Versions
  /\ o.pc \in {"plan", "confirm-apply", "copy", "extract", "unpack"} => o.kind = "apply"
  /\ o.pc = "confirm" => o.kind # "apply"
  /\ o.pc \in {"activate", "pointer"} => o.kind # "resume"
  /\ o.pc \in {"read", "put", "confirm-apply", "copy"} => o.snapshot.version # Nobody
  /\ o.pc \in Active \ {"plan", "verify", "record", "release"} /\ o.kind # "resume" =>
       o.expected = o.snapshot.version
  /\ o.pc = "verify" /\ o.kind = "apply" => o.expected = o.snapshot.version
  /\ o.pc \in {"read", "put", "confirm", "activate", "pointer"} /\ o.kind = "rollback" =>
       /\ o.snapshot.version # Nobody /\ o.snapshot.previous # Nobody
       /\ Migrations[o.snapshot.previous] = Migrations[o.snapshot.version]
  /\ o.pc \in {"activate", "pointer"} /\ o.kind = "apply" /\ o.snapshot.version # Nobody =>
       Node!IsPrefix(Migrations[o.snapshot.version], Migrations[o.target])

\* The configuration it confirms and copies is the paused one it has seen.
Confirmed(o) ==
  /\ o.pc \in {"read", "put", "confirm", "confirm-apply", "copy"} =>
       o.seen <= config.version
  /\ o.pc \in {"confirm-apply", "copy"} /\ config.version = o.seen =>
       config.paused = TRUE

\* An update goes on from a backup of what it replaces.
Saved(o) ==
  o.pc \in {"extract", "unpack", "activate", "pointer"} /\ o.kind = "apply"
    /\ o.snapshot.version # Nobody
  => [ledger |-> Migrations[o.snapshot.version], paused |-> TRUE] \in nodeBackups

\* The build that will serve the resumed traffic is the active one.
Stays(o) ==
  o.pc \in {"read", "put"} /\ o.kind = "resume" =>
    /\ pointer.version # Nobody
    /\ running \in {Nobody, pointer.version}
    /\ launching \in {Nobody, pointer.version}
    /\ schemaLedger = Migrations[pointer.version]

\* What it has done, against the phase it has journalled
Told(o, j, e) ==
  /\ e \subseteq Node!Admits(j)
  /\ o.pc \in {"idle", "lock", "plan", "verify", "read", "put"} => e = {}
  /\ o.pc \in {"read", "put"} => j \in {"pause-requested", "resume-requested"}
  /\ o.pc = "confirm" => e \subseteq IF o.kind = "resume" THEN {"resume"} ELSE {"pause"}
  /\ o.pc \in {"confirm-apply", "copy"} => e \subseteq {"pause"}
  /\ o.pc \in {"extract", "unpack"} => e \subseteq {"pause", "backup"}
  /\ o.pc = "unpack" => j = "extracting"
  /\ o.pc \in {"activate", "pointer"} => e \subseteq {"pause", "backup", "extract"}
  /\ o.pc \in {"pointer", "record"} => j = "activation-requested"
  /\ o.pc = "record" => e \subseteq {"pause", "backup", "extract", "activate"}

HelperSound(h, o, j, e) ==
  /\ Holding(h, o) /\ Chosen(o) /\ Confirmed(o) /\ Saved(o) /\ Stays(o)
  /\ Told(o, j, e)

HelpersSound ==
  \A h \in Helpers, o \in HelperOps, j \in HelperPhases, e \in SUBSET HelperEffects :
    nodeOp[h] = o /\ journal[h] = j /\ effects[h] = e => HelperSound(h, o, j, e)

HelperKept == ServerType /\ HelperType /\ ServerSound /\ HelpersSound

HelperInv == subject = "node" => HelperKept

\* A prefix, position by position
LEMMA PrefixMeans ==
  ASSUME NEW s \in Seq(STRING), NEW t \in Seq(STRING)
  PROVE  Node!IsPrefix(s, t)
           <=> Len(s) <= Len(t) /\ \A i \in 1 .. Len(s) : s[i] = t[i]
<1>1. Len(s) \in Nat /\ Len(t) \in Nat
  OBVIOUS
<1>2. ASSUME Len(s) <= Len(t)
      PROVE  SubSeq(s, 1, Len(s)) = SubSeq(t, 1, Len(s))
               <=> \A i \in 1 .. Len(s) : s[i] = t[i]
  <2>1. /\ SubSeq(s, 1, Len(s)) = [i \in 1 .. Len(s) |-> s[i]]
        /\ SubSeq(t, 1, Len(s)) = [i \in 1 .. Len(s) |-> t[i]]
    BY <1>1, <1>2
  <2> QED BY <2>1
<1> QED BY <1>2 DEF Node!IsPrefix

LEMMA PrefixOrder ==
  ASSUME NEW s \in Seq(STRING), NEW t \in Seq(STRING), NEW u \in Seq(STRING)
  PROVE  /\ Node!IsPrefix(s, s) /\ Node!IsPrefix(<<>>, s)
         /\ Node!IsPrefix(s, t) /\ Node!IsPrefix(t, u) => Node!IsPrefix(s, u)
<1>1. <<>> \in Seq(STRING) /\ Len(s) \in Nat /\ Len(t) \in Nat /\ Len(u) \in Nat
      /\ Len(<<>>) = 0
  OBVIOUS
<1>2. Node!IsPrefix(s, s)
  BY <1>1, PrefixMeans
<1>3. Node!IsPrefix(<<>>, s)
  <2>1. Node!IsPrefix(<<>>, s)
          <=> Len(<<>>) <= Len(s) /\ \A i \in 1 .. Len(<<>>) : <<>>[i] = s[i]
    BY <1>1, PrefixMeans
  <2> QED BY <1>1, <2>1
<1>4. ASSUME Node!IsPrefix(s, t), Node!IsPrefix(t, u)
      PROVE  Node!IsPrefix(s, u)
  BY <1>1, <1>4, PrefixMeans
<1> QED BY <1>2, <1>3, <1>4

\* What a phase admits to
LEMMA AdmittedEffects ==
  /\ \A p \in {"none", "preparing", "planned"} : Node!Admits(p) = {}
  /\ \A p \in {"pause-requested", "resume-requested", "pause-confirmed",
               "resume-confirmed"} : Node!Admits(p) = {"pause", "resume"}
  /\ \A p \in {"backup-started", "backup-verified"} :
       Node!Admits(p) = {"pause", "backup"}
  /\ Node!Admits("extracting") = {"pause", "backup", "extract"}
  /\ \A p \in {"activation-requested", "restart-required"} :
       Node!Admits(p) = {"pause", "backup", "extract", "activate"}
BY DEF Node!Admits

\* What a step of one helper begins with
LEMMA HelperRun ==
  ASSUME HelperKept, NEW h \in Helpers
  PROVE  /\ nodeOp[h] \in HelperOps /\ journal[h] \in HelperPhases
         /\ effects[h] \in SUBSET HelperEffects
         /\ HelperSound(h, nodeOp[h], journal[h], effects[h])
         /\ \A s : [nodeOp EXCEPT ![h].pc = s]
                   = [nodeOp EXCEPT ![h] = [nodeOp[h] EXCEPT !.pc = s]]
         /\ nodeOp = [nodeOp EXCEPT ![h] = nodeOp[h]]
         /\ journal = [journal EXCEPT ![h] = journal[h]]
         /\ effects = [effects EXCEPT ![h] = effects[h]]
<1>1. /\ nodeOp \in [Helpers -> HelperOps] /\ journal \in [Helpers -> HelperPhases]
      /\ effects \in [Helpers -> SUBSET HelperEffects]
  BY DEF HelperKept, HelperType
<1>2. HelperSound(h, nodeOp[h], journal[h], effects[h])
  BY <1>1 DEF HelperKept, HelpersSound
<1> QED BY <1>1, <1>2

\* What does not rest on the lock holds of an operation whatever happens.
LEMMA AtRest ==
  ASSUME NEW h \in Helpers, NEW o \in HelperOps, NEW j, NEW e,
         HelperSound(h, o, j, e), o.pc \notin Active
  PROVE  HelperSound(h, o, j, e)'
BY DEF HelperSound, Holding, Chosen, Confirmed, Saved, Stays, Told, Active

\* A step of one helper: it has the lock, or leaves the system alone.
LEMMA HelperStep ==
  ASSUME HelperKept, NEW h \in Helpers,
         NEW o \in HelperOps, NEW j \in HelperPhases, NEW e \in SUBSET HelperEffects,
         nodeOp' = [nodeOp EXCEPT ![h] = o],
         journal' = [journal EXCEPT ![h] = j],
         effects' = [effects EXCEPT ![h] = e],
         \/ lock' = lock
         \/ lock = Nobody /\ lock' = h
         \/ lock = h /\ lock' = Nobody,
         lock = h \/ UNCHANGED Node!system,
         ServerType', ServerSound', HelperSound(h, o, j, e)'
  PROVE  HelperKept'
<1>1. HelperType'
  BY DEF HelperKept, HelperType
<1>2. /\ nodeOp'[h] = o /\ journal'[h] = j /\ effects'[h] = e
      /\ \A d \in Helpers \ {h} : /\ nodeOp'[d] = nodeOp[d]
                                  /\ journal'[d] = journal[d]
                                  /\ effects'[d] = effects[d]
  BY DEF HelperKept, HelperType
<1>3. ASSUME NEW d \in Helpers, d # h, NEW p \in HelperOps, NEW k \in HelperPhases,
             NEW f \in SUBSET HelperEffects, HelperSound(d, p, k, f)
      PROVE  HelperSound(d, p, k, f)'
  <2>1. CASE p.pc \notin Active
    BY <1>3, <2>1, AtRest
  <2>2. CASE p.pc \in Active
    <3>1. lock = d
      BY <1>3, <2>2 DEF HelperSound, Holding
    <3>2. d # Nobody
      BY AdministrationAssumption DEF Nobody
    <3>3. lock' = lock /\ UNCHANGED Node!system
      BY <1>3, <3>1, <3>2
    <3> QED BY <1>3, <3>3 DEF Node!system, HelperSound, Holding, Confirmed, Saved, Stays,
              Chosen, Told
  <2> QED BY <2>1, <2>2
<1>4. HelpersSound'
  <2> SUFFICES ASSUME NEW d \in Helpers, NEW p \in HelperOps, NEW k \in HelperPhases,
                      NEW f \in SUBSET HelperEffects,
                      nodeOp'[d] = p, journal'[d] = k, effects'[d] = f
               PROVE  HelperSound(d, p, k, f)'
    BY DEF HelpersSound
  <2>1. CASE d = h
    BY <1>2, <2>1
  <2>2. CASE d # h
    <3>1. HelperSound(d, p, k, f)
      BY <1>2, <2>2 DEF HelperKept, HelpersSound
    <3> QED BY <1>3, <2>2, <3>1
  <2> QED BY <2>1, <2>2
<1> QED BY <1>1, <1>4 DEF HelperKept

\* A step that leaves the system alone
LEMMA HelperOwnStep ==
  ASSUME HelperKept, NEW h \in Helpers,
         NEW o \in HelperOps, NEW j \in HelperPhases, NEW e \in SUBSET HelperEffects,
         nodeOp' = [nodeOp EXCEPT ![h] = o],
         journal' = [journal EXCEPT ![h] = j],
         effects' = [effects EXCEPT ![h] = e],
         \/ lock' = lock
         \/ lock = Nobody /\ lock' = h
         \/ lock = h /\ lock' = Nobody,
         UNCHANGED Node!system,
         HelperSound(h, o, j, e)'
  PROVE  HelperKept'
<1>1. lock' \in Helpers \cup {Nobody}
  BY DEF HelperKept, ServerType
<1>2. ServerType'
  BY <1>1 DEF HelperKept, ServerType, Node!system
<1>3. ServerSound'
  BY DEF HelperKept, ServerSound, Node!system, Node!PointerRuns, Node!UpdateIsRecoverable,
         Node!Compatible
<1> QED BY <1>2, <1>3, HelperStep

\* An operation that has only gone on to another place
Moved(o, p, s) ==
  /\ o.pc = s /\ o.kind = p.kind /\ o.target = p.target /\ o.expected = p.expected
  /\ o.snapshot = p.snapshot /\ o.seen = p.seen

LEMMA GoesOn ==
  ASSUME HelperKept, NEW h \in Helpers, NEW p \in HelperOps, p = nodeOp[h],
         NEW e, e = effects[h],
         NEW s \in HelperSteps, NEW k \in HelperPhases,
         Node!Goto(h, s), journal' = [journal EXCEPT ![h] = k],
         UNCHANGED <<Node!system, effects>>,
         \/ lock' = lock
         \/ lock = Nobody /\ lock' = h
         \/ lock = h /\ lock' = Nobody,
         \A o \in HelperOps : Moved(o, p, s) => HelperSound(h, o, k, e)'
  PROVE  HelperKept'
<1> PICK o : o = [p EXCEPT !.pc = s]
  OBVIOUS
<1>1. o \in HelperOps /\ Moved(o, p, s)
  BY DEF HelperOps, Moved
<1>2. /\ nodeOp' = [nodeOp EXCEPT ![h] = o] /\ effects' = [effects EXCEPT ![h] = e]
      /\ e \in SUBSET HelperEffects
  BY HelperRun DEF Node!Goto
<1> QED BY <1>1, <1>2, HelperOwnStep

LEMMA FailKeeps ==
  ASSUME HelperKept, NEW h \in Helpers, nodeOp[h].pc # "idle", Node!Fail(h)
  PROVE  HelperKept'
<1> PICK p \in HelperOps, j \in HelperPhases, e \in SUBSET HelperEffects :
      /\ p = nodeOp[h] /\ j = journal[h] /\ e = effects[h] /\ HelperSound(h, p, j, e)
  BY HelperRun
<1>1. /\ Node!Goto(h, "failed") /\ UNCHANGED <<Node!system, effects>>
      /\ journal' = journal
      /\ \/ lock' = lock
         \/ lock = h /\ lock' = Nobody
  BY DEF Node!Fail, Node!system, Node!None, Nobody
<1>2. ASSUME NEW o \in HelperOps, Moved(o, p, "failed")
      PROVE  HelperSound(h, o, j, e)'
  BY <1>2 DEF Moved, HelperSound, Holding, Chosen, Confirmed, Saved, Stays, Told, Active
<1>3. journal' = [journal EXCEPT ![h] = j]
  BY <1>1, HelperRun
<1> QED BY <1>1, <1>2, <1>3, GoesOn DEF HelperSteps

LEMMA BeginKeeps ==
  ASSUME HelperKept, NEW h \in Helpers,
         NEW kind \in {"apply", "rollback", "resume"}, NEW v \in Versions \cup {Nobody},
         kind = "apply" => v \in Versions,
         Node!Begin(h, kind, v)
  PROVE  HelperKept'
<1> PICK p \in HelperOps, j \in HelperPhases, e \in SUBSET HelperEffects :
      /\ p = nodeOp[h] /\ j = journal[h] /\ e = effects[h] /\ HelperSound(h, p, j, e)
  BY HelperRun
<1> PICK b \in Versions \cup {Nobody} : b = pointer.version
  BY DEF HelperKept, ServerType, Pointers
<1> PICK z \in HelperOps : z = Node!Idle
  BY DEF Node!Idle, HelperOps, HelperSteps, Pointers, Node!NoPointer, Node!None, Nobody
<1> PICK o : o = [z EXCEPT !.kind = kind, !.pc = "lock", !.target = v, !.expected = b]
  OBVIOUS
<1>1. /\ p.pc = "idle" /\ nodeOp' = [nodeOp EXCEPT ![h] = o]
      /\ lock' = lock /\ UNCHANGED Node!system
      /\ journal' = [journal EXCEPT ![h] = j] /\ effects' = [effects EXCEPT ![h] = e]
  <2>1. /\ p.pc = "idle" /\ nodeOp' = [nodeOp EXCEPT ![h] = o]
        /\ lock' = lock /\ UNCHANGED Node!system
        /\ journal' = journal /\ effects' = effects
    BY DEF Node!Begin, Node!At
  <2> QED BY <2>1, HelperRun
<1>2. /\ o \in HelperOps /\ o.kind = kind /\ o.pc = "lock" /\ o.target = v
      /\ o.expected = b
  BY DEF HelperOps, HelperSteps
<1>3. HelperSound(h, o, j, e)'
  BY <1>1, <1>2 DEF HelperSound, Holding, Chosen, Confirmed, Saved, Stays, Told, Active
<1> QED BY <1>1, <1>2, <1>3, HelperOwnStep

LEMMA LockKeeps ==
  ASSUME HelperKept, NEW h \in Helpers, Node!Lock(h)
  PROVE  HelperKept'
<1> PICK p \in HelperOps, j \in HelperPhases, e \in SUBSET HelperEffects :
      /\ p = nodeOp[h] /\ j = journal[h] /\ e = effects[h] /\ HelperSound(h, p, j, e)
  BY HelperRun
<1> PICK r \in Pointers : r = pointer
  BY DEF HelperKept, ServerType
<1> PICK s : s = IF p.kind = "apply" THEN "plan" ELSE "verify"
  OBVIOUS
<1> PICK o : o = [p EXCEPT !.snapshot = r, !.pc = s]
  OBVIOUS
<1>1. p.pc = "lock"
  BY DEF Node!Lock, Node!At
<1>2. CASE Node!Fail(h)
  BY <1>1, <1>2, FailKeeps
<1>3. CASE ~Node!Fail(h)
  <2>1. /\ lock = Nobody /\ lock' = h /\ UNCHANGED Node!system
        /\ nodeOp' = [nodeOp EXCEPT ![h].snapshot = r, ![h].pc = s]
        /\ journal' = [journal EXCEPT ![h] = "preparing"]
        /\ effects' = [effects EXCEPT ![h] = e]
    BY <1>3, HelperRun DEF Node!Lock, Node!LockFree, Node!None, Nobody
  <2>2. nodeOp' = [nodeOp EXCEPT ![h] = o]
    BY <2>1 DEF HelperKept, HelperType
  <2>3. /\ o \in HelperOps /\ o.pc = s /\ o.kind = p.kind /\ o.target = p.target
        /\ o.expected = p.expected /\ o.snapshot = r
    <3>1. s \in HelperSteps
      BY DEF HelperSteps, Active
    <3> QED BY <3>1 DEF HelperOps
  <2>4. pointer' = r
    BY <2>1 DEF Node!system
  <2>5. "preparing" \in HelperPhases /\ Node!Admits("preparing") = {}
    BY AdmittedEffects DEF HelperPhases
  <2>6. HelperSound(h, o, "preparing", e)'
    BY <1>1, <2>1, <2>3, <2>4, <2>5
       DEF HelperSound, Holding, Chosen, Confirmed, Saved, Stays, Told, Active
  <2> QED BY <2>1, <2>2, <2>3, <2>5, <2>6, HelperOwnStep
<1> QED BY <1>2, <1>3

LEMMA PlanKeeps ==
  ASSUME HelperKept, NEW h \in Helpers, Node!Plan(h)
  PROVE  HelperKept'
<1> PICK p \in HelperOps, j \in HelperPhases, e \in SUBSET HelperEffects :
      /\ p = nodeOp[h] /\ j = journal[h] /\ e = effects[h] /\ HelperSound(h, p, j, e)
  BY HelperRun
<1> PICK s : s = IF pointer.version = Node!None THEN "extract" ELSE "verify"
  OBVIOUS
<1>1. p.pc = "plan"
  BY DEF Node!Plan, Node!At
<1>2. CASE Node!Fail(h)
  BY <1>1, <1>2, FailKeeps
<1>3. CASE ~Node!Fail(h)
  <2>1. /\ pointer.version = p.expected
        /\ Node!Goto(h, s) /\ journal' = [journal EXCEPT ![h] = "planned"]
        /\ lock' = lock /\ UNCHANGED <<Node!system, effects>>
    BY <1>3 DEF Node!Plan, Node!PlanFits, Node!Advance
  <2>2. /\ "planned" \in HelperPhases /\ Node!Admits("planned") = {}
        /\ s \in HelperSteps
    BY AdmittedEffects DEF HelperPhases, HelperSteps, Active
  <2>3. /\ lock = h /\ pointer = p.snapshot /\ p.kind = "apply" /\ p.target \in Versions
        /\ e = {}
    BY <1>1 DEF HelperSound, Holding, Chosen, Told, Active
  <2>4. ASSUME NEW o \in HelperOps, Moved(o, p, s)
        PROVE  HelperSound(h, o, "planned", e)'
    BY <2>1, <2>2, <2>3, <2>4 DEF Moved, HelperSound, Holding, Chosen, Confirmed, Saved, Stays,
       Told, Active, Node!system, Node!None, Nobody
  <2> QED BY <2>1, <2>2, <2>4, GoesOn
<1> QED BY <1>2, <1>3

LEMMA VerifyKeeps ==
  ASSUME HelperKept, NEW h \in Helpers, Node!Verify(h)
  PROVE  HelperKept'
<1> PICK p \in HelperOps, j \in HelperPhases, e \in SUBSET HelperEffects :
      /\ p = nodeOp[h] /\ j = journal[h] /\ e = effects[h] /\ HelperSound(h, p, j, e)
  BY HelperRun
<1> PICK n \in Nat : n = config.version
  BY DEF HelperKept, ServerType
<1> PICK k : k = IF p.kind = "resume" THEN "resume-requested" ELSE "pause-requested"
  OBVIOUS
<1> PICK o : o = [p EXCEPT !.pc = "read", !.seen = n]
  OBVIOUS
<1>1. p.pc = "verify"
  BY DEF Node!Verify, Node!At
<1>2. CASE Node!Fail(h)
  BY <1>1, <1>2, FailKeeps
<1>3. CASE ~Node!Fail(h)
  <2>1. /\ Node!Verified(h) /\ Node!RollbackFits(h)
        /\ nodeOp' = [nodeOp EXCEPT ![h].pc = "read", ![h].seen = n]
        /\ journal' = [journal EXCEPT ![h] = k]
        /\ lock' = lock /\ UNCHANGED <<Node!system, effects>>
    BY <1>3 DEF Node!Verify, Node!Advance, Node!RequestPhase
  <2>2. nodeOp' = [nodeOp EXCEPT ![h] = o]
    BY <2>1 DEF HelperKept, HelperType
  <2>3. /\ o \in HelperOps /\ o.pc = "read" /\ o.kind = p.kind /\ o.target = p.target
        /\ o.expected = p.expected /\ o.snapshot = p.snapshot /\ o.seen = n
    BY DEF HelperOps, HelperSteps, Active
  <2>4. /\ k \in HelperPhases /\ k \in {"resume-requested", "pause-requested"}
    BY DEF HelperPhases
  <2>5. /\ lock = h /\ pointer = p.snapshot /\ e = {} /\ Chosen(p)
    BY <1>1 DEF HelperSound, Holding, Told, Active
  <2>6. /\ pointer.version # Nobody /\ running = pointer.version
        /\ schemaLedger = Migrations[pointer.version]
        /\ p.kind = "rollback" =>
             /\ pointer.version = p.expected /\ pointer.previous # Nobody
             /\ schemaLedger = Migrations[pointer.previous]
    BY <2>1 DEF Node!Verified, Node!Matches, Node!RunsPointer, Node!RollbackFits,
       Node!SameSchema, Node!None, Nobody
  <2>7. launching = Nobody
    BY <2>6 DEF HelperKept, ServerSound
  <2>8. UNCHANGED <<pointer, nodeBackups, schemaLedger, config, launching, running, lock>>
    BY <2>1 DEF Node!system
  <2>9. Holding(h, o)' /\ Confirmed(o)' /\ Saved(o)' /\ Stays(o)'
    BY <2>3, <2>5, <2>6, <2>7, <2>8 DEF Holding, Confirmed, Saved, Stays, Active
  <2>10. Chosen(o)
    <3>1. o.snapshot.version = pointer.version /\ o.snapshot.previous = pointer.previous
      BY <2>3, <2>5
    <3> QED BY <1>1, <2>3, <2>5, <2>6, <3>1 DEF Chosen, HelperOps
  <2>11. Told(o, k, e)
    BY <2>3, <2>4, <2>5 DEF Told
  <2>12. HelperSound(h, o, k, e)'
    BY <2>9, <2>10, <2>11 DEF HelperSound, Chosen, Told
  <2>13. effects' = [effects EXCEPT ![h] = e]
    BY <2>1, HelperRun
  <2> QED BY <2>1, <2>2, <2>3, <2>4, <2>12, <2>13, HelperOwnStep
<1> QED BY <1>2, <1>3

LEMMA ReadConfigKeeps ==
  ASSUME HelperKept, NEW h \in Helpers, Node!ReadConfig(h)
  PROVE  HelperKept'
<1> PICK p \in HelperOps, j \in HelperPhases, e \in SUBSET HelperEffects :
      /\ p = nodeOp[h] /\ j = journal[h] /\ e = effects[h] /\ HelperSound(h, p, j, e)
  BY HelperRun
<1> PICK s : s = IF config.paused = (p.kind # "resume")
                   THEN IF p.kind = "apply" THEN "confirm-apply" ELSE "confirm"
                   ELSE "put"
  OBVIOUS
<1>1. p.pc = "read"
  BY DEF Node!ReadConfig, Node!At
<1>2. CASE Node!Fail(h)
  BY <1>1, <1>2, FailKeeps
<1>3. CASE ~Node!Fail(h)
  <2>1. /\ running # Nobody /\ config.version = p.seen
        /\ Node!Goto(h, IF config.paused = Node!Wanted(h) THEN Node!AfterPause(h) ELSE "put")
        /\ lock' = lock /\ journal' = journal /\ UNCHANGED <<Node!system, effects>>
    BY <1>3 DEF Node!ReadConfig, Node!None, Nobody
  <2>2. p.kind \in {"apply", "rollback", "resume"}
    BY <1>1 DEF HelperSound, Chosen, HelperOps
  <2>3. /\ Node!AfterPause(h) = IF p.kind = "apply" THEN "confirm-apply" ELSE "confirm"
        /\ Node!Wanted(h) = (p.kind # "resume")
    BY <2>2 DEF Node!AfterPause, Node!Wanted
  <2>4. Node!Goto(h, s)
    BY <2>1, <2>3
  <2>5. s \in HelperSteps
    BY DEF HelperSteps, Active
  <2>6. UNCHANGED <<pointer, nodeBackups, schemaLedger, config, launching, running, lock>>
    BY <2>1 DEF Node!system
  <2>7. /\ Holding(h, p) /\ Chosen(p) /\ Confirmed(p) /\ Stays(p) /\ Told(p, j, e)
        /\ config.version \in Nat /\ config.paused \in BOOLEAN
    BY DEF HelperSound, HelperKept, ServerType
  <2>8. /\ p.snapshot.version # Nobody
        /\ pointer = p.snapshot /\ e = {} /\ j \in {"pause-requested", "resume-requested"}
        /\ lock = h
    BY <1>1, <2>1, <2>7 DEF Holding, Chosen, Told, Active
  <2>9. ASSUME NEW o \in HelperOps, Moved(o, p, s)
        PROVE  HelperSound(h, o, j, e)'
    <3>1. Holding(h, o)' /\ Saved(o)' /\ Stays(o)'
      BY <1>1, <2>6, <2>7, <2>8, <2>9 DEF Holding, Saved, Stays, Moved, Active
    <3>2. Chosen(o)
      BY <1>1, <2>2, <2>7, <2>9 DEF Chosen, Moved, Active
    <3>3. Told(o, j, e)
      BY <1>1, <2>7, <2>8, <2>9 DEF Told, Moved
    <3>4. Confirmed(o)'
      BY <1>1, <2>1, <2>2, <2>6, <2>7, <2>8, <2>9 DEF Confirmed, Moved
    <3> QED BY <3>1, <3>2, <3>3, <3>4 DEF HelperSound, Chosen, Told
  <2>10. journal' = [journal EXCEPT ![h] = j]
    BY <2>1, HelperRun
  <2> QED BY <2>1, <2>4, <2>5, <2>9, <2>10, GoesOn
<1> QED BY <1>2, <1>3

\* What is promised of the server and its versions is about neither the
\* configuration nor the backups that are added.
LEMMA SoundStays ==
  ASSUME HelperKept, UNCHANGED <<pointer, schemaLedger, launching, running>>,
         nodeBackups \subseteq nodeBackups'
  PROVE  ServerSound'
BY DEF HelperKept, ServerSound, Node!PointerRuns, Node!UpdateIsRecoverable, Node!Compatible

LEMMA PutKeeps ==
  ASSUME HelperKept, NEW h \in Helpers, Node!Put(h)
  PROVE  HelperKept'
<1> PICK p \in HelperOps, j \in HelperPhases, e \in SUBSET HelperEffects :
      /\ p = nodeOp[h] /\ j = journal[h] /\ e = effects[h] /\ HelperSound(h, p, j, e)
  BY HelperRun
<1> PICK n \in Nat : n = config.version + 1
  BY DEF HelperKept, ServerType
<1> PICK s : s = IF p.kind = "apply" THEN "confirm-apply" ELSE "confirm"
  OBVIOUS
<1> PICK x : x = IF p.kind = "resume" THEN "resume" ELSE "pause"
  OBVIOUS
<1> PICK f : f = e \cup {x}
  OBVIOUS
<1> PICK o : o = [p EXCEPT !.pc = s, !.seen = n]
  OBVIOUS
<1> PICK z : z = [p EXCEPT !.pc = "failed"]
  OBVIOUS
<1>1. p.pc = "put"
  BY DEF Node!Put, Node!At
<1>2. CASE Node!Fail(h)
  BY <1>1, <1>2, FailKeeps
<1>3. CASE ~Node!Fail(h)
  <2>1. p.kind \in {"apply", "rollback", "resume"}
    BY <1>1 DEF HelperSound, Chosen, HelperOps
  <2>2. /\ Node!AfterPause(h) = s /\ Node!Wanted(h) = (p.kind # "resume")
    BY <2>1 DEF Node!AfterPause, Node!Wanted
  <2>3. /\ lock = h /\ config' = [version |-> n, paused |-> p.kind # "resume"]
        /\ effects' = [effects EXCEPT ![h] = f]
        /\ UNCHANGED <<pointer, dirs, nodeBackups, schemaLedger, launching, running,
                       journal>>
    BY <1>3, <2>2 DEF Node!Put, Node!MayWrite, Node!Did
  <2>4. \/ nodeOp' = [nodeOp EXCEPT ![h].pc = s, ![h].seen = n] /\ lock' = lock
        \/ Node!Goto(h, "failed") /\ lock' = Nobody
    BY <1>3, <2>2 DEF Node!Put, Node!None, Nobody
  <2>5. /\ o \in HelperOps /\ o.pc = s /\ o.kind = p.kind /\ o.target = p.target
        /\ o.expected = p.expected /\ o.snapshot = p.snapshot /\ o.seen = n
    <3>1. s \in HelperSteps
      BY DEF HelperSteps, Active
    <3> QED BY <3>1 DEF HelperOps
  <2>6. /\ z \in HelperOps /\ z.pc = "failed" /\ z.kind = p.kind /\ z.target = p.target
    BY DEF HelperOps, HelperSteps
  <2>7. /\ ServerType' /\ ServerSound'
    <3>1. ServerSound'
      BY <2>3, SoundStays
    <3>2. lock' \in Helpers \cup {Nobody}
      BY <2>3, <2>4
    <3>3. config' \in [version : Nat, paused : BOOLEAN]
      BY <2>3
    <3> QED BY <2>3, <3>1, <3>2, <3>3 DEF HelperKept, ServerType
  <2>8. f \in SUBSET HelperEffects
    BY DEF HelperEffects
  <2>9. /\ e = {} /\ j \in {"pause-requested", "resume-requested"} /\ Holding(h, p)
        /\ Chosen(p)
    BY <1>1 DEF HelperSound, Told
  <2>10. Told(o, j, f) /\ Told(z, j, f)
    <3>1. Node!Admits(j) = {"pause", "resume"}
      BY <2>9, AdmittedEffects
    <3> QED BY <2>5, <2>6, <2>9, <3>1 DEF Told
  <2>11. journal' = [journal EXCEPT ![h] = j]
    BY <2>3, HelperRun
  <2>12. CASE nodeOp' = [nodeOp EXCEPT ![h].pc = s, ![h].seen = n] /\ lock' = lock
    <3>1. nodeOp' = [nodeOp EXCEPT ![h] = o]
      BY <2>12 DEF HelperKept, HelperType
    <3>2. Chosen(o)
      BY <1>1, <2>1, <2>5, <2>9 DEF Chosen, Active
    <3>3. Holding(h, o)' /\ Saved(o)' /\ Stays(o)'
      BY <1>1, <2>3, <2>5, <2>9, <2>12 DEF Holding, Saved, Stays, Active
    <3>4. Confirmed(o)'
      <4>1. config'.version = n /\ config'.paused = (p.kind # "resume")
        BY <2>3
      <4>2. p.kind = "apply" => config'.paused = TRUE
        BY <4>1
      <4>3. o.pc \in {"confirm-apply", "copy"} => p.kind = "apply"
        BY <2>5
      <4> QED BY <2>5, <4>1, <4>2, <4>3 DEF Confirmed
    <3>5. HelperSound(h, o, j, f)'
      BY <2>10, <3>2, <3>3, <3>4 DEF HelperSound, Chosen, Told
    <3>6. o \in HelperOps /\ lock = h /\ lock' = lock
      BY <2>3, <2>5, <2>12
    <3>7. effects' = [effects EXCEPT ![h] = f]
      BY <2>3
    <3> QED BY ONLY <2>7, <2>8, <2>11, <3>1, <3>5, <3>6, <3>7, HelperStep, HelperKept,
              h \in Helpers, j \in HelperPhases
  <2>13. CASE Node!Goto(h, "failed") /\ lock' = Nobody
    <3>1. nodeOp' = [nodeOp EXCEPT ![h] = z]
      BY <2>13, HelperRun DEF Node!Goto
    <3>2. HelperSound(h, z, j, f)'
      <4>1. Holding(h, z)' /\ Confirmed(z)' /\ Saved(z)' /\ Stays(z)'
        BY <2>6 DEF Holding, Confirmed, Saved, Stays, Active
      <4>2. Chosen(z)
        BY <2>1, <2>6, <2>9 DEF Chosen, Active
      <4> QED BY <2>10, <4>1, <4>2 DEF HelperSound, Chosen, Told
    <3> QED BY <2>3, <2>6, <2>7, <2>8, <2>11, <2>13, <3>1, <3>2, HelperStep
  <2> QED BY <2>4, <2>12, <2>13
<1> QED BY <1>2, <1>3

LEMMA ConfirmKeeps ==
  ASSUME HelperKept, NEW h \in Helpers, Node!Confirm(h)
  PROVE  HelperKept'
<1> PICK p \in HelperOps, j \in HelperPhases, e \in SUBSET HelperEffects :
      /\ p = nodeOp[h] /\ j = journal[h] /\ e = effects[h] /\ HelperSound(h, p, j, e)
  BY HelperRun
<1>1. p.pc = "confirm"
  BY DEF Node!Confirm, Node!At
<1>2. CASE Node!Fail(h)
  BY <1>1, <1>2, FailKeeps
<1>3. CASE ~Node!Fail(h)
  <2>1. /\ lock' = lock /\ UNCHANGED <<Node!system, effects>>
        /\ \/ /\ p.kind = "rollback" /\ Node!Goto(h, "activate")
              /\ journal' = [journal EXCEPT ![h] = "pause-confirmed"]
           \/ /\ p.kind = "resume" /\ Node!Goto(h, "release")
              /\ journal' = [journal EXCEPT ![h] = "resume-confirmed"]
    BY <1>3 DEF Node!Confirm, Node!Advance
  <2>2. /\ lock = h /\ pointer = p.snapshot /\ Chosen(p)
        /\ e \subseteq IF p.kind = "resume" THEN {"resume"} ELSE {"pause"}
    BY <1>1 DEF HelperSound, Holding, Told, Active
  <2>3. \A k \in {"pause-confirmed", "resume-confirmed"} :
          k \in HelperPhases /\ Node!Admits(k) = {"pause", "resume"}
    BY AdmittedEffects DEF HelperPhases
  <2>4. "activate" \in HelperSteps /\ "release" \in HelperSteps
    BY DEF HelperSteps, Active
  <2>5. UNCHANGED <<pointer, nodeBackups, schemaLedger, config, launching, running, lock>>
    BY <2>1 DEF Node!system
  <2>6. ASSUME NEW o \in HelperOps, p.kind = "rollback", Moved(o, p, "activate")
        PROVE  HelperSound(h, o, "pause-confirmed", e)'
    BY <1>1, <2>2, <2>3, <2>5, <2>6 DEF Moved, HelperSound, Holding, Chosen, Confirmed,
       Saved, Stays, Told, Active
  <2>7. ASSUME NEW o \in HelperOps, p.kind = "resume", Moved(o, p, "release")
        PROVE  HelperSound(h, o, "resume-confirmed", e)'
    BY <1>1, <2>2, <2>3, <2>5, <2>7 DEF Moved, HelperSound, Holding, Chosen, Confirmed,
       Saved, Stays, Told, Active
  <2>8. CASE p.kind = "rollback"
    BY <2>1, <2>3, <2>4, <2>6, <2>8, GoesOn
  <2>9. CASE p.kind = "resume"
    BY <2>1, <2>3, <2>4, <2>7, <2>9, GoesOn
  <2> QED BY <2>1, <2>8, <2>9
<1> QED BY <1>2, <1>3

LEMMA StartBackupKeeps ==
  ASSUME HelperKept, NEW h \in Helpers, Node!StartBackup(h)
  PROVE  HelperKept'
<1> PICK p \in HelperOps, j \in HelperPhases, e \in SUBSET HelperEffects :
      /\ p = nodeOp[h] /\ j = journal[h] /\ e = effects[h] /\ HelperSound(h, p, j, e)
  BY HelperRun
<1>1. p.pc = "confirm-apply"
  BY DEF Node!StartBackup, Node!At
<1>2. CASE Node!Fail(h)
  BY <1>1, <1>2, FailKeeps
<1>3. CASE ~Node!Fail(h)
  <2>1. /\ Node!Goto(h, "copy") /\ journal' = [journal EXCEPT ![h] = "backup-started"]
        /\ lock' = lock /\ UNCHANGED <<Node!system, effects>>
    BY <1>3 DEF Node!StartBackup, Node!Advance
  <2>2. /\ "backup-started" \in HelperPhases /\ "copy" \in HelperSteps
        /\ Node!Admits("backup-started") = {"pause", "backup"}
    BY AdmittedEffects DEF HelperPhases, HelperSteps, Active
  <2>3. UNCHANGED <<pointer, nodeBackups, schemaLedger, config, launching, running, lock>>
    BY <2>1 DEF Node!system
  <2>4. ASSUME NEW o \in HelperOps, Moved(o, p, "copy")
        PROVE  HelperSound(h, o, "backup-started", e)'
    BY <1>1, <2>2, <2>3, <2>4 DEF Moved, HelperSound, Holding, Chosen, Confirmed,
       Saved, Stays, Told, Active
  <2> QED BY <2>1, <2>2, <2>4, GoesOn
<1> QED BY <1>2, <1>3

LEMMA CopyKeeps ==
  ASSUME HelperKept, NEW h \in Helpers, Node!Copy(h)
  PROVE  HelperKept'
<1> PICK p \in HelperOps, j \in HelperPhases, e \in SUBSET HelperEffects :
      /\ p = nodeOp[h] /\ j = journal[h] /\ e = effects[h] /\ HelperSound(h, p, j, e)
  BY HelperRun
<1> PICK f : f = e \cup {"backup"}
  OBVIOUS
<1> PICK o : o = [p EXCEPT !.pc = "extract"]
  OBVIOUS
<1>1. p.pc = "copy"
  BY DEF Node!Copy, Node!At
<1>2. CASE Node!Fail(h)
  BY <1>1, <1>2, FailKeeps
<1>3. CASE ~Node!Fail(h)
  <2>1. /\ schemaLedger = Migrations[pointer.version] /\ config.version = p.seen
        /\ nodeBackups' = nodeBackups \cup {[ledger |-> schemaLedger,
                                             paused |-> config.paused]}
        /\ effects' = [effects EXCEPT ![h] = f] /\ lock = h
        /\ journal' = [journal EXCEPT ![h] = "backup-verified"]
        /\ Node!Goto(h, "extract")
        /\ UNCHANGED <<lock, pointer, dirs, schemaLedger, config, launching, running>>
    BY <1>3 DEF Node!Copy, Node!BackupFits, Node!Matches, Node!Did, Node!Advance
  <2>2. nodeOp' = [nodeOp EXCEPT ![h] = o]
    BY <2>1, HelperRun DEF Node!Goto
  <2>3. /\ o \in HelperOps /\ Moved(o, p, "extract")
    BY DEF HelperOps, HelperSteps, Active, Moved
  <2>4. /\ Holding(h, p) /\ Chosen(p) /\ Confirmed(p) /\ e \subseteq {"pause"}
    BY <1>1 DEF HelperSound, Told
  <2>5. config.paused = TRUE /\ pointer = p.snapshot
    BY <1>1, <2>1, <2>4 DEF Confirmed, Holding, Active
  <2>6. /\ "backup-verified" \in HelperPhases /\ f \in SUBSET HelperEffects
        /\ Node!Admits("backup-verified") = {"pause", "backup"}
    BY AdmittedEffects DEF HelperPhases, HelperEffects
  <2>7. Holding(h, o)' /\ Confirmed(o)' /\ Stays(o)'
    BY <2>1, <2>3, <2>5 DEF Holding, Confirmed, Stays, Moved, Active
  <2>8. Chosen(o)
    BY <1>1, <2>3, <2>4 DEF Chosen, Moved, Active
  <2>9. Told(o, "backup-verified", f)
    BY <2>3, <2>4, <2>6 DEF Told, Moved
  <2>10. Saved(o)'
    <3>1. [ledger |-> schemaLedger, paused |-> config.paused] \in nodeBackups'
      BY <2>1
    <3>2. [ledger |-> Migrations[pointer.version], paused |-> TRUE] \in nodeBackups'
      BY <2>1, <2>5, <3>1
    <3>3. o.snapshot.version = pointer.version
      BY <2>3, <2>5 DEF Moved
    <3> QED BY <3>2, <3>3 DEF Saved
  <2>11. HelperSound(h, o, "backup-verified", f)'
    BY <2>7, <2>8, <2>9, <2>10 DEF HelperSound, Chosen, Told
  <2>12. ServerType' /\ ServerSound'
    BY <2>1, SoundStays DEF HelperKept, ServerType
  <2> QED BY <2>1, <2>2, <2>3, <2>6, <2>11, <2>12, HelperStep
<1> QED BY <1>2, <1>3

LEMMA StartExtractKeeps ==
  ASSUME HelperKept, NEW h \in Helpers, Node!StartExtract(h)
  PROVE  HelperKept'
<1> PICK p \in HelperOps, j \in HelperPhases, e \in SUBSET HelperEffects :
      /\ p = nodeOp[h] /\ j = journal[h] /\ e = effects[h] /\ HelperSound(h, p, j, e)
  BY HelperRun
<1>1. p.pc = "extract"
  BY DEF Node!StartExtract, Node!At
<1>2. CASE Node!Fail(h)
  BY <1>1, <1>2, FailKeeps
<1>3. CASE ~Node!Fail(h)
  <2>1. /\ Node!Goto(h, "unpack") /\ journal' = [journal EXCEPT ![h] = "extracting"]
        /\ lock' = lock /\ UNCHANGED <<Node!system, effects>>
    BY <1>3 DEF Node!StartExtract, Node!Advance
  <2>2. /\ "extracting" \in HelperPhases /\ "unpack" \in HelperSteps
        /\ Node!Admits("extracting") = {"pause", "backup", "extract"}
    BY AdmittedEffects DEF HelperPhases, HelperSteps, Active
  <2>3. UNCHANGED <<pointer, nodeBackups, schemaLedger, config, launching, running, lock>>
    BY <2>1 DEF Node!system
  <2>4. ASSUME NEW o \in HelperOps, Moved(o, p, "unpack")
        PROVE  HelperSound(h, o, "extracting", e)'
    BY <1>1, <2>2, <2>3, <2>4 DEF Moved, HelperSound, Holding, Chosen, Confirmed,
       Saved, Stays, Told, Active
  <2> QED BY <2>1, <2>2, <2>4, GoesOn
<1> QED BY <1>2, <1>3

LEMMA UnpackKeeps ==
  ASSUME HelperKept, NEW h \in Helpers, Node!Unpack(h)
  PROVE  HelperKept'
<1> PICK p \in HelperOps, j \in HelperPhases, e \in SUBSET HelperEffects :
      /\ p = nodeOp[h] /\ j = journal[h] /\ e = effects[h] /\ HelperSound(h, p, j, e)
  BY HelperRun
<1> PICK f : f = e \cup {"extract"}
  OBVIOUS
<1> PICK s \in {"activate", "failed"} :
      /\ Node!Goto(h, s)
      /\ s = "activate" => Node!Extends(h) /\ lock' = lock
      /\ s = "failed" => lock' = Nobody
  BY DEF Node!Unpack, Node!None, Nobody
<1> PICK o : o = [p EXCEPT !.pc = s]
  OBVIOUS
<1>1. p.pc = "unpack"
  BY DEF Node!Unpack, Node!At
<1>2. /\ effects' = [effects EXCEPT ![h] = f]
      /\ UNCHANGED <<pointer, nodeBackups, schemaLedger, config, launching, running,
                     journal>>
  BY DEF Node!Unpack, Node!Did
<1>3. /\ lock = h /\ pointer = p.snapshot /\ Chosen(p) /\ Saved(p)
      /\ p.kind = "apply" /\ j = "extracting" /\ e \subseteq {"pause", "backup"}
  BY <1>1 DEF HelperSound, Holding, Chosen, Told, Active
<1>4. nodeOp' = [nodeOp EXCEPT ![h] = o] /\ journal' = [journal EXCEPT ![h] = j]
  BY <1>2, HelperRun DEF Node!Goto
<1>5. o \in HelperOps /\ Moved(o, p, s)
  BY DEF HelperOps, HelperSteps, Active, Moved
<1>6. Holding(h, o)' /\ Confirmed(o)' /\ Saved(o)' /\ Stays(o)'
  BY <1>1, <1>2, <1>3, <1>5 DEF Holding, Confirmed, Saved, Stays, Moved, Active
<1>7. Chosen(o)
  <2>1. s = "activate" /\ p.snapshot.version # Nobody =>
          Node!IsPrefix(Migrations[p.snapshot.version], Migrations[p.target])
    BY DEF Node!Extends, Node!None, Nobody
  <2> QED BY <1>1, <1>3, <1>5, <2>1 DEF Chosen, Moved, Active
<1>8. f \in SUBSET HelperEffects /\ Told(o, j, f)
  BY <1>3, <1>5, AdmittedEffects DEF Told, Moved, HelperEffects
<1>9. HelperSound(h, o, j, f)'
  BY <1>6, <1>7, <1>8 DEF HelperSound, Chosen, Told
<1>10. ServerType' /\ ServerSound'
  BY <1>2, <1>3, SoundStays DEF HelperKept, ServerType
<1> QED BY <1>2, <1>3, <1>4, <1>5, <1>8, <1>9, <1>10, HelperStep

LEMMA ActivateKeeps ==
  ASSUME HelperKept, NEW h \in Helpers, Node!Activate(h)
  PROVE  HelperKept'
<1> PICK p \in HelperOps, j \in HelperPhases, e \in SUBSET HelperEffects :
      /\ p = nodeOp[h] /\ j = journal[h] /\ e = effects[h] /\ HelperSound(h, p, j, e)
  BY HelperRun
<1>1. p.pc = "activate"
  BY DEF Node!Activate, Node!At
<1>2. CASE Node!Fail(h)
  BY <1>1, <1>2, FailKeeps
<1>3. CASE ~Node!Fail(h)
  <2>1. /\ Node!Goto(h, "pointer")
        /\ journal' = [journal EXCEPT ![h] = "activation-requested"]
        /\ lock' = lock /\ UNCHANGED <<Node!system, effects>>
    BY <1>3 DEF Node!Activate, Node!Advance
  <2>2. /\ "activation-requested" \in HelperPhases /\ "pointer" \in HelperSteps
        /\ Node!Admits("activation-requested") = {"pause", "backup", "extract", "activate"}
    BY AdmittedEffects DEF HelperPhases, HelperSteps, Active
  <2>3. UNCHANGED <<pointer, nodeBackups, schemaLedger, config, launching, running, lock>>
    BY <2>1 DEF Node!system
  <2>4. ASSUME NEW o \in HelperOps, Moved(o, p, "pointer")
        PROVE  HelperSound(h, o, "activation-requested", e)'
    BY <1>1, <2>2, <2>3, <2>4 DEF Moved, HelperSound, Holding, Chosen, Confirmed,
       Saved, Stays, Told, Active
  <2> QED BY <2>1, <2>2, <2>4, GoesOn
<1> QED BY <1>2, <1>3

LEMMA WritePointerKeeps ==
  ASSUME HelperKept, NEW h \in Helpers, Node!WritePointer(h)
  PROVE  HelperKept'
<1> PICK p \in HelperOps, j \in HelperPhases, e \in SUBSET HelperEffects :
      /\ p = nodeOp[h] /\ j = journal[h] /\ e = effects[h] /\ HelperSound(h, p, j, e)
  BY HelperRun
<1> PICK f : f = e \cup {"activate"}
  OBVIOUS
<1> PICK o : o = [p EXCEPT !.pc = "record"]
  OBVIOUS
<1> PICK next : next = IF p.kind = "apply" THEN p.target ELSE p.snapshot.previous
  OBVIOUS
<1>1. p.pc = "pointer"
  BY DEF Node!WritePointer, Node!At
<1>2. /\ pointer' = [version |-> next, previous |-> p.snapshot.version]
      /\ effects' = [effects EXCEPT ![h] = f] /\ Node!Goto(h, "record")
      /\ UNCHANGED <<lock, nodeBackups, schemaLedger, config, launching, running,
                     journal>>
  BY DEF Node!WritePointer, Node!NewPointer, Node!Did
<1>3. /\ lock = h /\ pointer = p.snapshot /\ Chosen(p) /\ Saved(p)
      /\ p.kind \in {"apply", "rollback"} /\ j = "activation-requested"
      /\ e \subseteq {"pause", "backup", "extract"} /\ e \subseteq Node!Admits(j)
  BY <1>1 DEF HelperSound, Holding, Chosen, Told, Active, HelperOps
<1>4. nodeOp' = [nodeOp EXCEPT ![h] = o] /\ journal' = [journal EXCEPT ![h] = j]
  BY <1>2, HelperRun DEF Node!Goto
<1>5. o \in HelperOps /\ Moved(o, p, "record")
  BY DEF HelperOps, HelperSteps, Active, Moved
<1>6. Holding(h, o)' /\ Confirmed(o)' /\ Saved(o)' /\ Stays(o)'
  BY <1>1, <1>2, <1>3, <1>5 DEF Holding, Confirmed, Saved, Stays, Moved, Active
<1>7. Chosen(o)
  BY <1>1, <1>3, <1>5 DEF Chosen, Moved, Active
<1>8. f \in SUBSET HelperEffects /\ Told(o, j, f)
  BY <1>3, <1>5, AdmittedEffects DEF Told, Moved, HelperEffects
<1>9. HelperSound(h, o, j, f)'
  BY <1>6, <1>7, <1>8 DEF HelperSound, Chosen, Told
<1>10. /\ next \in Versions /\ next # Nobody
       /\ p.kind = "rollback" => /\ pointer.version # Nobody
                                 /\ Migrations[next] = Migrations[pointer.version]
       /\ p.kind = "apply" /\ pointer.version # Nobody =>
            Node!IsPrefix(Migrations[pointer.version], Migrations[next])
  <2>1. next # Nobody
    BY <1>1, <1>3, AdministrationAssumption DEF Chosen, Nobody
  <2>2. next \in Versions
    BY <1>1, <1>3, <2>1 DEF Chosen, HelperOps, Pointers
  <2> QED BY <1>1, <1>3, <2>1, <2>2 DEF Chosen
<1>11. ServerType'
  <2>1. pointer' \in Pointers
    BY <1>2, <1>10 DEF Pointers, HelperOps
  <2> QED BY <1>2, <2>1 DEF HelperKept, ServerType
<1>12. ServerSound'
  <2>1. /\ ServerType /\ ServerSound /\ Migrations \in [Versions -> Seq(STRING)]
        /\ pointer.version \in Versions \cup {Nobody}
    BY AdministrationAssumption DEF HelperKept, ServerType, Pointers
  <2>2. pointer'.version = next /\ pointer'.previous = pointer.version
    BY <1>2, <1>3
  <2>3. Node!IsPrefix(schemaLedger, Migrations[next])
    <3>1. CASE pointer.version = Nobody
      <4>1. schemaLedger = <<>> /\ Migrations[next] \in Seq(STRING)
        BY <1>10, <2>1, <3>1 DEF ServerSound
      <4> QED BY <4>1, PrefixOrder
    <3>2. CASE pointer.version # Nobody
      <4>1. /\ Node!IsPrefix(schemaLedger, Migrations[pointer.version])
            /\ Migrations[pointer.version] \in Seq(STRING)
            /\ Migrations[next] \in Seq(STRING) /\ schemaLedger \in Seq(STRING)
        BY <1>10, <2>1, <3>2
           DEF ServerSound, ServerType, Node!PointerRuns, Node!Compatible, Node!None, Nobody
      <4>2. CASE p.kind = "rollback"
        BY <1>10, <4>1, <4>2
      <4>3. CASE p.kind = "apply"
        BY <1>10, <3>2, <4>1, <4>3, PrefixOrder
      <4> QED BY <1>3, <4>2, <4>3
    <3> QED BY <3>1, <3>2
  <2>4. launching # Nobody => Node!IsPrefix(Migrations[launching], Migrations[next])
    <3> SUFFICES ASSUME launching # Nobody
                 PROVE  Node!IsPrefix(Migrations[launching], Migrations[next])
      OBVIOUS
    <3>1. /\ pointer.version # Nobody
          /\ Node!IsPrefix(Migrations[launching], Migrations[pointer.version])
          /\ Migrations[launching] \in Seq(STRING)
          /\ Migrations[pointer.version] \in Seq(STRING)
          /\ Migrations[next] \in Seq(STRING)
      BY <1>10, <2>1 DEF ServerSound, ServerType
    <3>2. CASE p.kind = "rollback"
      BY <1>10, <3>1, <3>2
    <3>3. CASE p.kind = "apply"
      BY <1>10, <3>1, <3>3, PrefixOrder
    <3> QED BY <1>3, <3>2, <3>3
  <2>5. Node!UpdateIsRecoverable'
    <3>1. pointer.version # Nobody /\ Migrations[pointer.version] # Migrations[next] =>
            [ledger |-> Migrations[pointer.version], paused |-> TRUE] \in nodeBackups
      <4>1. CASE p.kind = "rollback"
        BY <1>10, <4>1
      <4>2. CASE p.kind = "apply"
        BY <1>1, <1>3, <4>2 DEF Saved
      <4> QED BY <1>3, <4>1, <4>2
    <3> QED BY <1>2, <2>2, <3>1 DEF Node!UpdateIsRecoverable, Node!None, Nobody
  <2>6. Node!PointerRuns'
    BY <1>2, <2>2, <2>3 DEF Node!PointerRuns, Node!Compatible
  <2> QED BY <1>2, <1>10, <2>1, <2>2, <2>4, <2>5, <2>6 DEF ServerSound
<1> QED BY <1>2, <1>3, <1>4, <1>5, <1>8, <1>9, <1>11, <1>12, HelperStep

LEMMA RecordKeeps ==
  ASSUME HelperKept, NEW h \in Helpers, Node!Record(h)
  PROVE  HelperKept'
<1> PICK p \in HelperOps, j \in HelperPhases, e \in SUBSET HelperEffects :
      /\ p = nodeOp[h] /\ j = journal[h] /\ e = effects[h] /\ HelperSound(h, p, j, e)
  BY HelperRun
<1>1. p.pc = "record"
  BY DEF Node!Record, Node!At
<1>2. CASE Node!Fail(h)
  BY <1>1, <1>2, FailKeeps
<1>3. CASE ~Node!Fail(h)
  <2>1. /\ Node!Goto(h, "release")
        /\ journal' = [journal EXCEPT ![h] = "restart-required"]
        /\ lock' = lock /\ UNCHANGED <<Node!system, effects>>
    BY <1>3 DEF Node!Record, Node!Advance
  <2>2. /\ "restart-required" \in HelperPhases /\ "release" \in HelperSteps
        /\ Node!Admits("restart-required") = {"pause", "backup", "extract", "activate"}
    BY AdmittedEffects DEF HelperPhases, HelperSteps, Active
  <2>3. UNCHANGED <<pointer, nodeBackups, schemaLedger, config, launching, running, lock>>
    BY <2>1 DEF Node!system
  <2>4. ASSUME NEW o \in HelperOps, Moved(o, p, "release")
        PROVE  HelperSound(h, o, "restart-required", e)'
    BY <1>1, <2>2, <2>3, <2>4 DEF Moved, HelperSound, Holding, Chosen, Confirmed,
       Saved, Stays, Told, Active
  <2> QED BY <2>1, <2>2, <2>4, GoesOn
<1> QED BY <1>2, <1>3

LEMMA EndKeeps ==
  ASSUME HelperKept, NEW h \in Helpers, Node!Release(h) \/ Node!Crash(h)
  PROVE  HelperKept'
<1> PICK p \in HelperOps, j \in HelperPhases, e \in SUBSET HelperEffects :
      /\ p = nodeOp[h] /\ j = journal[h] /\ e = effects[h] /\ HelperSound(h, p, j, e)
  BY HelperRun
<1>1. PICK s \in {"done", "crashed"} : Node!Goto(h, s)
  BY DEF Node!Release, Node!Crash
<1>2. /\ p.pc # "idle" /\ journal' = journal /\ UNCHANGED <<Node!system, effects>>
      /\ \/ lock' = lock
         \/ lock = h /\ lock' = Nobody
  BY DEF Node!Release, Node!Crash, Node!Working, Node!At, Node!None, Nobody
<1>3. s \in HelperSteps
  BY DEF HelperSteps
<1>4. ASSUME NEW o \in HelperOps, Moved(o, p, s)
      PROVE  HelperSound(h, o, j, e)'
  BY <1>2, <1>4 DEF Moved, HelperSound, Holding, Chosen, Confirmed, Saved, Stays, Told, Active
<1>5. journal' = [journal EXCEPT ![h] = j]
  BY <1>2, HelperRun
<1> QED BY <1>1, <1>2, <1>3, <1>4, <1>5, GoesOn

LEMMA RecoverLockKeeps ==
  ASSUME HelperKept, NEW h \in Helpers, Node!RecoverLock(h)
  PROVE  HelperKept'
<1> PICK p \in HelperOps, j \in HelperPhases, e \in SUBSET HelperEffects :
      /\ p = nodeOp[h] /\ j = journal[h] /\ e = effects[h] /\ HelperSound(h, p, j, e)
  BY HelperRun
<1>1. /\ p.pc = "crashed" /\ lock = h /\ lock' = Nobody /\ UNCHANGED Node!system
      /\ nodeOp' = nodeOp /\ journal' = journal /\ effects' = effects
  BY DEF Node!RecoverLock, Node!At, Node!None, Nobody
<1>2. HelperSound(h, p, j, e)'
  BY <1>1, AtRest DEF Active
<1>3. /\ nodeOp' = [nodeOp EXCEPT ![h] = p] /\ journal' = [journal EXCEPT ![h] = j]
      /\ effects' = [effects EXCEPT ![h] = e]
  BY <1>1, HelperRun
<1> QED BY <1>1, <1>2, <1>3, HelperOwnStep

\* A step of the server, the launcher or the administrator
LEMMA ServerStep ==
  ASSUME HelperKept,
         UNCHANGED <<nodeOp, journal, effects, lock, pointer, nodeBackups>>,
         config' = config \/ config'.version > config.version,
         ServerType', ServerSound',
         \A o \in HelperOps : pointer = o.snapshot /\ Stays(o) => Stays(o)'
  PROVE  HelperKept'
<1>1. config.version \in Nat /\ config'.version \in Nat
  BY DEF HelperKept, ServerType
<1>2. ASSUME NEW h \in Helpers, NEW o \in HelperOps, NEW j, NEW e,
             HelperSound(h, o, j, e)
      PROVE  HelperSound(h, o, j, e)'
  <2>1. Holding(h, o)' /\ Chosen(o) /\ Saved(o)' /\ Told(o, j, e)
    BY <1>2 DEF HelperSound, Holding, Saved
  <2>2. Confirmed(o)'
    <3>1. Confirmed(o) /\ o.seen \in Nat
      BY <1>2 DEF HelperSound, HelperOps
    <3> QED BY <1>1, <3>1 DEF Confirmed
  <2>3. Stays(o)'
    <3>1. CASE o.pc \in {"read", "put"}
      BY <1>2, <3>1 DEF HelperSound, Holding, Active
    <3>2. CASE o.pc \notin {"read", "put"}
      BY <3>2 DEF Stays
    <3> QED BY <3>1, <3>2
  <2> QED BY <2>1, <2>2, <2>3 DEF HelperSound, Chosen, Told
<1>3. HelperType'
  BY DEF HelperKept, HelperType
<1>4. HelpersSound'
  BY <1>2 DEF HelperKept, HelpersSound
<1> QED BY <1>3, <1>4 DEF HelperKept

LEMMA LaunchKeeps ==
  ASSUME HelperKept, Node!Launch
  PROVE  HelperKept'
<1>1. /\ running = Nobody /\ pointer.version # Nobody /\ launching' = pointer.version
      /\ UNCHANGED <<lock, pointer, nodeBackups, schemaLedger, config, running, nodeOp,
                     journal, effects>>
  BY DEF Node!Launch, Node!None, Nobody
<1>2. /\ ServerType /\ pointer.version \in Versions
      /\ Migrations[pointer.version] \in Seq(STRING)
  BY <1>1, AdministrationAssumption DEF HelperKept, ServerType, Pointers
<1>3. ServerType'
  BY <1>1, <1>2 DEF ServerType
<1>4. ServerSound'
  BY <1>1, <1>2, PrefixOrder DEF HelperKept, ServerSound, Node!PointerRuns,
     Node!UpdateIsRecoverable, Node!Compatible
<1>5. \A o \in HelperOps : Stays(o) => Stays(o)'
  BY <1>1 DEF Stays
<1> QED BY <1>1, <1>3, <1>4, <1>5, ServerStep

LEMMA OpenKeeps ==
  ASSUME HelperKept, Node!Open
  PROVE  HelperKept'
<1>1. /\ launching # Nobody /\ launching' = Nobody
      /\ \/ running' = launching /\ schemaLedger' = Migrations[launching]
         \/ UNCHANGED <<running, schemaLedger>>
      /\ UNCHANGED <<lock, pointer, nodeBackups, config, nodeOp, journal, effects>>
  BY DEF Node!Open, Node!None, Nobody
<1>2. /\ ServerType /\ ServerSound /\ launching \in Versions
      /\ Migrations[launching] \in Seq(STRING)
  BY <1>1, AdministrationAssumption DEF HelperKept, ServerType
<1>3. ServerType'
  BY <1>1, <1>2 DEF ServerType
<1>4. ServerSound'
  BY <1>1, <1>2 DEF ServerSound, Node!PointerRuns, Node!UpdateIsRecoverable,
     Node!Compatible, Node!None, Nobody
<1>5. \A o \in HelperOps : Stays(o) => Stays(o)'
  BY <1>1 DEF Stays
<1> QED BY <1>1, <1>3, <1>4, <1>5, ServerStep

LEMMA StopKeeps ==
  ASSUME HelperKept, Node!Stop
  PROVE  HelperKept'
<1>1. /\ running' = Nobody
      /\ UNCHANGED <<lock, pointer, nodeBackups, schemaLedger, config, launching, nodeOp,
                     journal, effects>>
  BY DEF Node!Stop, Node!None, Nobody
<1>2. ServerType'
  BY <1>1 DEF HelperKept, ServerType
<1>3. ServerSound'
  BY <1>1 DEF HelperKept, ServerSound, Node!PointerRuns, Node!UpdateIsRecoverable,
     Node!Compatible
<1>4. \A o \in HelperOps : Stays(o) => Stays(o)'
  BY <1>1 DEF Stays
<1> QED BY <1>1, <1>2, <1>3, <1>4, ServerStep

LEMMA AdministerKeeps ==
  ASSUME HelperKept, NEW b \in BOOLEAN, Node!Administer(b)
  PROVE  HelperKept'
<1>1. /\ config' = [version |-> config.version + 1, paused |-> b]
      /\ UNCHANGED <<lock, pointer, nodeBackups, schemaLedger, launching, running, nodeOp,
                     journal, effects>>
  BY DEF Node!Administer
<1>2. config.version \in Nat
  BY DEF HelperKept, ServerType
<1>3. config'.version > config.version /\ config' \in [version : Nat, paused : BOOLEAN]
  BY <1>1, <1>2
<1>4. ServerType'
  BY <1>1, <1>3 DEF HelperKept, ServerType
<1>5. ServerSound'
  BY <1>1, SoundStays
<1>6. \A o \in HelperOps : Stays(o) => Stays(o)'
  BY <1>1 DEF Stays
<1> QED BY <1>1, <1>3, <1>4, <1>5, <1>6, ServerStep

LEMMA HelpKeeps ==
  ASSUME HelperKept, NEW h \in Helpers, Node!Help(h)
  PROVE  HelperKept'
<1>1. CASE \E v \in Versions : Node!Begin(h, "apply", v)
  BY <1>1, BeginKeeps
<1>2. CASE \E k \in {"rollback", "resume"} : Node!Begin(h, k, Node!None)
  BY <1>2, BeginKeeps DEF Node!None, Nobody
<1>3. CASE Node!Lock(h) \/ Node!Plan(h) \/ Node!Verify(h) \/ Node!ReadConfig(h)
  BY <1>3, LockKeeps, PlanKeeps, VerifyKeeps, ReadConfigKeeps
<1>4. CASE Node!Put(h) \/ Node!Confirm(h) \/ Node!StartBackup(h) \/ Node!Copy(h)
  BY <1>4, PutKeeps, ConfirmKeeps, StartBackupKeeps, CopyKeeps
<1>5. CASE \/ Node!StartExtract(h) \/ Node!Unpack(h) \/ Node!Activate(h)
           \/ Node!WritePointer(h)
  BY <1>5, StartExtractKeeps, UnpackKeeps, ActivateKeeps, WritePointerKeeps
<1>6. CASE Node!Record(h) \/ Node!Release(h) \/ Node!Crash(h) \/ Node!RecoverLock(h)
  BY <1>6, RecordKeeps, EndKeeps, RecoverLockKeeps
<1> QED BY <1>1, <1>2, <1>3, <1>4, <1>5, <1>6 DEF Node!Help

LEMMA HelperNextKeeps ==
  ASSUME HelperKept, Node!Next
  PROVE  HelperKept'
BY HelpKeeps, LaunchKeeps, OpenKeeps, StopKeeps, AdministerKeeps DEF Node!Next

LEMMA HelperStutters ==
  ASSUME HelperKept, UNCHANGED nodeVars
  PROVE  HelperKept'
<1>1. UNCHANGED <<lock, pointer, nodeBackups, schemaLedger, config, launching, running,
                  nodeOp, journal, effects>>
  BY DEF nodeVars
<1>2. ServerType' /\ ServerSound'
  BY <1>1 DEF HelperKept, ServerType, ServerSound, Node!PointerRuns,
     Node!UpdateIsRecoverable, Node!Compatible
<1>3. \A o \in HelperOps : Stays(o) => Stays(o)'
  BY <1>1 DEF Stays
<1> QED BY <1>1, <1>2, <1>3, ServerStep

\* Nothing is installed, or one version with its own migrations.
LEMMA HelperStart == Node!Init => HelperKept
<1> SUFFICES ASSUME Node!Init PROVE HelperKept
  OBVIOUS
<1>1. /\ lock = Nobody /\ nodeBackups = {} /\ launching = Nobody
      /\ config = [version |-> 1, paused |-> FALSE]
      /\ nodeOp = [h \in Helpers |-> Node!Idle]
      /\ journal = [h \in Helpers |-> "none"] /\ effects = [h \in Helpers |-> {}]
  BY DEF Node!Init, Node!None, Nobody
<1>2. \/ /\ pointer = [version |-> Nobody, previous |-> Nobody]
         /\ schemaLedger = <<>> /\ running = Nobody
      \/ \E v \in Versions :
           /\ pointer = [version |-> v, previous |-> Nobody]
           /\ schemaLedger = Migrations[v] /\ running = v
  BY DEF Node!Init, Node!NoPointer, Node!None, Nobody
<1>3. \A v \in Versions : /\ v # Nobody /\ Migrations[v] \in Seq(STRING)
                          /\ Node!IsPrefix(Migrations[v], Migrations[v])
  BY AdministrationAssumption, PrefixOrder DEF Nobody
<1>4. ServerType
  <2>1. config \in [version : Nat, paused : BOOLEAN]
    BY <1>1
  <2>2. pointer \in Pointers
    BY <1>2 DEF Pointers
  <2>3. schemaLedger \in Seq(STRING) /\ running \in Versions \cup {Nobody}
    <3>1. CASE schemaLedger = <<>> /\ running = Nobody
      BY <3>1
    <3>2. CASE \E v \in Versions : schemaLedger = Migrations[v] /\ running = v
      BY <1>3, <3>2
    <3> QED BY <1>2, <3>1, <3>2
  <2> QED BY <1>1, <2>1, <2>2, <2>3 DEF ServerType
<1>5. ServerSound
  BY <1>1, <1>2, <1>3 DEF ServerSound, Node!PointerRuns, Node!UpdateIsRecoverable,
     Node!Compatible, Node!None, Nobody
<1>6. /\ Node!Idle \in HelperOps /\ Node!Idle.pc = "idle" /\ Node!Idle.kind = "none"
      /\ "none" \in HelperPhases
  BY DEF Node!Idle, HelperOps, HelperSteps, HelperPhases, Pointers, Node!NoPointer,
     Node!None, Nobody
<1>7. HelperType
  BY <1>1, <1>6 DEF HelperType
<1>8. HelpersSound
  BY <1>1, <1>6 DEF HelpersSound, HelperSound, Holding, Chosen, Confirmed, Saved, Stays,
     Told, Active
<1> QED BY <1>4, <1>5, <1>7, <1>8 DEF HelperKept

LEMMA HelperInvariant == AdministrationSpec => []HelperInv
<1>1. AdministrationInit => HelperInv
  <2>1. AdministrationInit /\ subject = "node" => Node!Init
    BY DEF AdministrationInit, ConfigurationsInit
  <2> QED BY <2>1, HelperStart DEF HelperInv
<1>2. HelperInv /\ [AdministrationNext]_administrationVars => HelperInv'
  <2> SUFFICES ASSUME HelperInv, [AdministrationNext]_administrationVars,
                      subject' = "node"
               PROVE  HelperKept'
    BY DEF HelperInv
  <2>1. subject = "node" /\ (Node!Next \/ UNCHANGED nodeVars)
    BY DEF AdministrationNext, administrationVars, ConfigurationsNext, NodeNext,
           CloudflareNext, SupabaseNext, ConsoleNext
  <2>2. HelperKept
    BY <2>1 DEF HelperInv
  <2> QED BY <2>1, <2>2, HelperNextKeeps, HelperStutters
<1> QED BY <1>1, <1>2, PTL DEF AdministrationSpec

(* Node: the active version can open the database whatever was launched,   *)
(* killed or recovered between the steps of apply and rollback; an update  *)
(* that no rollback undoes left the backup of the schema before it, paused;*)
(* and the journal of a helper names everything it may have done.          *)
THEOREM NodeHasWayBackHolds == AdministrationSpec => []NodeHasWayBack
<1>1. HelperInv => NodeHasWayBack
  <2> SUFFICES ASSUME HelperInv, subject = "node"
               PROVE  Node!PointerRuns /\ Node!UpdateIsRecoverable /\ Node!IntentRecorded
    BY DEF NodeHasWayBack, PointerRuns, UpdateIsRecoverable, IntentRecorded
  <2>1. HelperKept
    BY DEF HelperInv
  <2>2. \A h \in Helpers : effects[h] \subseteq Node!Admits(journal[h])
    BY <2>1, HelperRun DEF HelperSound, Told
  <2> QED BY <2>1, <2>2 DEF HelperKept, ServerSound, Node!IntentRecorded
<1> QED BY <1>1, HelperInvariant, PTL

\* Only WritePointer replaces current.json, and only a PUT resumes.
LEMMA HelperMoves ==
  ASSUME HelperKept, Node!Next
  PROVE  /\ pointer' # pointer => \E h \in Helpers : Node!WritePointer(h)
         /\ \A h \in Helpers :
              "resume" \in effects'[h] \ effects[h] => Node!Put(h) /\ ~Node!Fail(h)
<1>1. effects \in [Helpers -> SUBSET HelperEffects]
  BY DEF HelperKept, HelperType
<1>2. CASE \/ Node!Launch \/ Node!Open \/ Node!Stop
           \/ \E b \in BOOLEAN : Node!Administer(b)
  BY <1>2 DEF Node!Launch, Node!Open, Node!Stop, Node!Administer
<1>3. ASSUME NEW d \in Helpers, Node!Help(d)
      PROVE  /\ pointer' # pointer => Node!WritePointer(d)
             /\ \A h \in Helpers :
                  "resume" \in effects'[h] \ effects[h] => Node!Put(h) /\ ~Node!Fail(h)
  <2>1. CASE UNCHANGED <<pointer, effects>>
    BY <2>1
  <2>2. CASE Node!WritePointer(d)
    BY <1>1, <2>2 DEF Node!WritePointer, Node!Did
  <2>3. CASE Node!Copy(d) \/ Node!Unpack(d)
    BY <1>1, <2>1, <2>3 DEF Node!Copy, Node!Unpack, Node!Did, Node!Fail
  <2>4. CASE Node!Put(d)
    <3>1. CASE Node!Fail(d)
      BY <2>1, <3>1 DEF Node!Fail
    <3>2. CASE ~Node!Fail(d)
      <4>1. pointer' = pointer /\ \E x : Node!Did(d, x)
        BY <2>4, <3>2 DEF Node!Put
      <4> QED BY <1>1, <2>4, <3>2, <4>1 DEF Node!Did
    <3> QED BY <3>1, <3>2
  <2>5. CASE \/ \E k, v : Node!Begin(d, k, v)
             \/ Node!Lock(d) \/ Node!Plan(d) \/ Node!Verify(d) \/ Node!ReadConfig(d)
             \/ Node!Confirm(d) \/ Node!StartBackup(d) \/ Node!StartExtract(d)
    BY <2>1, <2>5 DEF Node!Begin, Node!Lock, Node!Plan, Node!Verify, Node!ReadConfig,
       Node!Confirm, Node!StartBackup, Node!StartExtract, Node!Fail, Node!system
  <2>6. CASE Node!Activate(d) \/ Node!Record(d) \/ Node!Release(d) \/ Node!Crash(d)
             \/ Node!RecoverLock(d)
    BY <2>1, <2>6 DEF Node!Activate, Node!Record, Node!Release, Node!Crash,
       Node!RecoverLock, Node!Fail, Node!system
  <2> QED BY <1>3, <2>2, <2>3, <2>4, <2>5, <2>6 DEF Node!Help
<1> QED BY <1>2, <1>3 DEF Node!Next

(* Node: current.json is replaced only by an apply or a rollback and only  *)
(* while it names the version the operator expected, which it then         *)
(* remembers as the previous one.                                          *)
THEOREM ReplacesExpectedHolds == AdministrationSpec => ReplacesExpected
<1>1. ASSUME HelperInv, [AdministrationNext]_administrationVars
      PROVE  [subject = "node" => Node!ReplacesExpected]_nodeVars
  <2> SUFFICES ASSUME subject = "node", ~UNCHANGED nodeVars, pointer' # pointer
               PROVE  /\ pointer'.previous = pointer.version
                      /\ \E h \in Helpers : /\ Node!At(h, "pointer")
                                            /\ nodeOp[h].kind # "resume"
                                            /\ nodeOp[h].expected = pointer.version
    BY DEF Node!ReplacesExpected
  <2>1. Node!Next /\ HelperKept
    BY <1>1 DEF AdministrationNext, administrationVars, ConfigurationsNext, NodeNext,
                CloudflareNext, SupabaseNext, ConsoleNext, HelperInv
  <2>2. PICK h \in Helpers : Node!WritePointer(h)
    BY <2>1, HelperMoves
  <2>3. /\ nodeOp[h].pc = "pointer"
        /\ pointer'.previous = nodeOp[h].snapshot.version
    BY <2>2 DEF Node!WritePointer, Node!At, Node!NewPointer
  <2>4. Holding(h, nodeOp[h]) /\ Chosen(nodeOp[h])
    BY <2>1, HelperRun DEF HelperSound
  <2> QED BY <2>3, <2>4 DEF Holding, Chosen, Active, Node!At
<1> QED BY <1>1, HelperInvariant, PTL DEF AdministrationSpec, ReplacesExpected

(* Node: whatever was stopped, launched or saved since the helper verified,*)
(* the PUT that resumes traffic finds the build that current.json names at *)
(* work on its own schema.                                                 *)
THEOREM ResumesActiveBuildHolds == AdministrationSpec => ResumesActiveBuild
<1>1. ASSUME HelperInv, [AdministrationNext]_administrationVars
      PROVE  [subject = "node" => Node!ResumesActiveBuild]_nodeVars
  <2> SUFFICES ASSUME subject = "node", ~UNCHANGED nodeVars, NEW h \in Helpers,
                      "resume" \in effects'[h] \ effects[h]
               PROVE  running = pointer.version /\ Node!Matches(running)
    BY DEF Node!ResumesActiveBuild
  <2>1. Node!Next /\ HelperKept
    BY <1>1 DEF AdministrationNext, administrationVars, ConfigurationsNext, NodeNext,
                CloudflareNext, SupabaseNext, ConsoleNext, HelperInv
  <2>2. Node!Put(h) /\ ~Node!Fail(h)
    BY <2>1, HelperMoves
  <2>3. /\ nodeOp[h].pc = "put" /\ running # Nobody
        /\ Node!Did(h, IF Node!Wanted(h) THEN "pause" ELSE "resume")
    BY <2>2 DEF Node!Put, Node!At, Node!PutApplies, Node!None, Nobody
  <2>4. nodeOp[h].kind = "resume"
    <3>1. effects'[h] = effects[h] \cup {IF Node!Wanted(h) THEN "pause" ELSE "resume"}
      BY <2>1, <2>3 DEF Node!Did, HelperKept, HelperType
    <3> QED BY <3>1 DEF Node!Wanted
  <2>5. Stays(nodeOp[h])
    BY <2>1, HelperRun DEF HelperSound
  <2> QED BY <2>3, <2>4, <2>5 DEF Stays, Node!Matches
<1> QED BY <1>1, HelperInvariant, PTL DEF AdministrationSpec, ResumesActiveBuild
=============================================================================
