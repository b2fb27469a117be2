------------------------------- MODULE Estate -------------------------------
(***************************************************************************)
(* The tables the API reads (0001_init.sql) and their writers: the seed    *)
(* (apps/stratus-api/src/db/seed/seed.ts), which replaces all their rows   *)
(* by a demo estate, statement by statement and outside of a transaction,  *)
(* and the incident-service, which writes incidents meanwhile.  Nothing    *)
(* else writes assets, findings or risk_snapshots.                         *)
(*                                                                         *)
(* The first statement fails when the tables do not exist.  The random     *)
(* choices of the seed are constants: its generator always starts with the *)
(* same number.  Two runs at the same time are left out.                   *)
(***************************************************************************)
EXTENDS Migrator, SequencesExt

CONSTANTS
  InitFile,       \* 0001_init.sql, the migration that creates the tables
  TotalAssets, CriticalAssets, AtRiskAssets,  \* 1247, 45 and 168 in the code
  BatchSize,      \* rows of one INSERT (200 assets, 150 findings in the code)
  ENVIRONMENTS,   \* the four in the code
  Environment(_), Provider(_),    \* what pick() gives each asset
  FindingsOf(_),  \* FindingsOf(health): how many findings an asset gets
  Status(_),      \* Status(i): the status of an asset's i-th finding ...
  RuleSeverity(_),    \* ... and the severity of the rule it is given
  Shape,          \* the priorities of the incidents it inserts
  SeedHours,      \* the hours of the snapshots it inserts
  LiveIncidents,  \* the incidents the incident-service may open
  MaxSeeds,       \* bound: runs of the seed
  MaxSeedFaults   \* bound: runs of the seed that die

ASSUME EstateAssumption ==
  /\ TotalAssets \in Nat /\ CriticalAssets \in Nat /\ AtRiskAssets \in Nat
  /\ CriticalAssets + AtRiskAssets <= TotalAssets /\ BatchSize \in Nat \ {0}
  /\ InitFile \in FileSet
  /\ \A i \in 1 .. TotalAssets : Environment(i) \in ENVIRONMENTS
  /\ \A health \in {"critical", "at-risk", "healthy"} :
       /\ FindingsOf(health) \in Nat
       /\ \A i \in 1 .. FindingsOf(health) : RuleSeverity(i) \in {"critical", "high", "medium", "low"}
  /\ Len(Shape) \in Nat \ {0}
  /\ IsFiniteSet(SeedHours) /\ SeedHours # {}
  /\ IsFiniteSet(ENVIRONMENTS) /\ ENVIRONMENTS # {}

(* buildAssets(), buildFindings().                                         *)
Health(i) == CASE i <= CriticalAssets -> "critical"
               [] i > CriticalAssets /\ i <= CriticalAssets + AtRiskAssets -> "at-risk"
               [] OTHER -> "healthy"
Risk(health) == CASE health = "critical" -> 90 [] health = "at-risk" -> 60 [] OTHER -> 10
Asset(i) == [id |-> i, health |-> Health(i), environment |-> Environment(i),
             provider |-> Provider(i), risk |-> 0]
Scored(a) == [a EXCEPT !.risk = Risk(a.health)]
BuiltAssets == {Scored(Asset(i)) : i \in 1 .. TotalAssets}

Finding(a, i) == [id |-> <<a.id, i>>, asset |-> a.id, risk |-> a.risk, status |-> Status(i),
                  severity |-> IF a.health = "critical" /\ i = 1 THEN "critical" ELSE RuleSeverity(i),
                  resolvedAt |-> "null"]
Resolved(f) ==
  IF f.status = "resolved" THEN [f EXCEPT !.resolvedAt = "three days later"] ELSE f
BuiltFindings ==
  UNION {{Finding(a, i) : i \in 1 .. FindingsOf(a.health)} : a \in BuiltAssets}

(* Its status, which pick() gives it, is one that is not closed.           *)
SeedIncident(n) ==
  [id |-> <<"inc", n>>, priority |-> Shape[n], status |-> "open"]
SeedSnapshots == [hour : SeedHours, environment : ENVIRONMENTS,
                  score : {50}]

VARIABLES
  assets, findings, incidents, snapshots,   \* the tables
  step,       \* the statement the seed is at, none if it is not running
  inserted,   \* the rows it has written with that statement
  seeds, seedFaults,
  \* History variables.
  completed,  \* whether the last run of the seed has ended
  opened      \* live incidents opened since the last TRUNCATE

tables  == <<assets, findings, incidents, snapshots>>
history == <<seeds, seedFaults, completed, opened>>
estate  == <<tables, step, inserted, history>>

EstateInit ==
  /\ assets = {} /\ findings = {} /\ incidents = {} /\ snapshots = {}
  /\ step = "none" /\ inserted = 0
  /\ seeds = 0 /\ seedFaults = 0
  /\ completed = FALSE /\ opened = {}

TablesExist == InitFile \in schema

(* The rows of each batch of statements.                                   *)
AssetRows == [i \in 1 .. TotalAssets |-> Asset(i)]
FindingRows == SetToSeq(BuiltFindings)
SnapshotRows == SetToSeq(SeedSnapshots)
Batch(rows, size) == {rows[i] : i \in inserted + 1 .. Min({inserted + size, Len(rows)})}

(* The statement is done: the next batch, or the statement that follows.   *)
Advance(rows, size, next) ==
  IF inserted + size < Len(rows)
  THEN inserted' = inserted + size /\ UNCHANGED step
  ELSE inserted' = 0 /\ step' = next

BeginSeed ==
  /\ step = "none" /\ seeds < MaxSeeds
  /\ seeds' = seeds + 1
  /\ step' = "truncate"
  /\ completed' = FALSE
  /\ UNCHANGED <<tables, inserted, seedFaults, opened>>

(* TRUNCATE of the four tables, whoever wrote their rows.                  *)
KeepIncidents ==            \* mutated form: incidents is not emptied
  /\ step = "truncate" /\ TablesExist
  /\ assets' = {} /\ findings' = {} /\ snapshots' = {}
  /\ opened' = {}
  /\ step' = "assets"
  /\ UNCHANGED <<incidents, inserted, seeds, seedFaults, completed>>
Truncate ==
  /\ step = "truncate" /\ TablesExist
  /\ assets' = {} /\ findings' = {} /\ incidents' = {} /\ snapshots' = {}
  /\ opened' = {}
  /\ step' = "assets"
  /\ UNCHANGED <<inserted, seeds, seedFaults, completed>>

InsertAssets ==
  /\ step = "assets"
  /\ assets' = assets \cup Batch(AssetRows, BatchSize)
  /\ Advance(AssetRows, BatchSize, "scores")
  /\ UNCHANGED <<findings, incidents, snapshots, history>>

(* One UPDATE for each asset.                                              *)
ScoreAsset ==
  /\ step = "scores"
  /\ assets' = {IF a.id = inserted + 1 THEN Scored(a) ELSE a : a \in assets}
  /\ Advance(AssetRows, 1, "findings")
  /\ UNCHANGED <<findings, incidents, snapshots, history>>

(* The asset of a finding must exist; ON CONFLICT (id) DO NOTHING.         *)
Ids(rows) == {r.id : r \in rows}
InsertFindings ==
  /\ step = "findings"
  /\ LET batch == Batch(FindingRows, BatchSize)
     IN  /\ {f.asset : f \in batch} \subseteq Ids(assets)
         /\ findings' = findings \cup {f \in batch : f.id \notin Ids(findings)}
  /\ Advance(FindingRows, BatchSize, "resolve")
  /\ UNCHANGED <<assets, incidents, snapshots, history>>

ResolveFindings ==
  /\ step = "resolve"
  /\ findings' = {Resolved(f) : f \in findings}
  /\ step' = "incidents"
  /\ UNCHANGED <<assets, incidents, snapshots, inserted, history>>

InsertIncident ==
  /\ step = "incidents"
  /\ incidents' = incidents \cup {SeedIncident(inserted + 1)}
  /\ Advance(Shape, 1, "snapshots")
  /\ UNCHANGED <<assets, findings, snapshots, history>>

(* The last row ends the run.                                              *)
InsertSnapshot ==
  /\ step = "snapshots"
  /\ snapshots' = snapshots \cup {SnapshotRows[inserted + 1]}
  /\ Advance(SnapshotRows, 1, "none")
  /\ completed' = (step' = "none")
  /\ UNCHANGED <<assets, findings, incidents, seeds, seedFaults, opened>>

(* A statement throws, because there is no table or for another reason, or *)
(* the process dies: what it has written stays.                            *)
EndSeed ==
  /\ step' = "none" /\ inserted' = 0
  /\ UNCHANGED <<tables, seeds, completed, opened>>
NoTable ==
  /\ step = "truncate" /\ ~TablesExist
  /\ EndSeed
  /\ UNCHANGED seedFaults
SeedDies ==
  /\ step # "none" /\ seedFaults < MaxSeedFaults
  /\ seedFaults' = seedFaults + 1
  /\ EndSeed

(* The incident-service opens an incident.                                 *)
OpenIncident(id) ==
  /\ TablesExist /\ id \notin Ids(incidents)
  /\ incidents' = incidents \cup {[id |-> id, priority |-> "P1", status |-> "open"]}
  /\ opened' = opened \cup {id}
  /\ UNCHANGED <<assets, findings, snapshots, step, inserted, seeds, seedFaults, completed>>

EstateNext ==
  \/ BeginSeed \/ Truncate \/ InsertAssets \/ ScoreAsset \/ InsertFindings
  \/ ResolveFindings \/ InsertIncident \/ InsertSnapshot \/ NoTable \/ SeedDies
  \/ \E id \in LiveIncidents : OpenIncident(id)
-----------------------------------------------------------------------------
(* A run of the seed that ends leaves exactly the demo estate, whatever an *)
(* interrupted run left before; the live incidents opened since it emptied *)
(* the tables are there too, and no other.                                 *)
SeedLeavesTheEstate ==
  completed =>
    /\ assets = BuiltAssets
    /\ findings = {Resolved(f) : f \in BuiltFindings}
    /\ Ids(incidents) = {<<"inc", n>> : n \in 1 .. Len(Shape)} \cup opened
    /\ snapshots = SeedSnapshots
=============================================================================
