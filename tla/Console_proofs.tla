--------------------------- MODULE Console_proofs ---------------------------
(***************************************************************************)
(* Theorems about the estate and those who write and read it: migrators    *)
(* that race, a seed that may die between any two of its statements, the   *)
(* incident-service that does not wait for it, and the pages, whose        *)
(* figures are computed one statement at a time.  They hold for any files, *)
(* any demo estate and any number of processes, runs and requests.         *)
(***************************************************************************)
EXTENDS Console, FunctionTheorems, FiniteSetTheorems, TLAPS

-----------------------------------------------------------------------------
(* The migrators.                                                          *)
(*                                                                         *)
(* A migrator believes applied only what is recorded, and what is recorded *)
(* has no gap: it is why the first file that a migrator has not found      *)
(* follows on what is recorded, however old its list is.                   *)
KnownIsRecorded == \A m \in Migrators : applied[m] \subseteq recorded
MigrationInv == MigratorTypeOK /\ MigrationsAreWhole /\ KnownIsRecorded
-----------------------------------------------------------------------------
LEMMA MigrationInit == MigratorInit => MigrationInv
BY MigratorAssumption
   DEF MigratorInit, MigrationInv, MigratorTypeOK, MigrationsAreWhole, KnownIsRecorded

(* Recording the next file of a migrator leaves no gap, because what comes *)
(* before it is recorded, even by others.                                  *)
LEMMA NoGap ==
  ASSUME MigrationInv, NEW m \in Migrators, NEW f \in FileSet, IsNext(m, f),
         NEW i \in 1 .. Len(Files), NEW j \in 1 .. Len(Files),
         i < j, Files[j] \in recorded \cup {f}
  PROVE  Files[i] \in recorded \cup {f}
<1>1. CASE Files[j] \in recorded
  BY <1>1 DEF MigrationInv, MigrationsAreWhole
<1>2. CASE Files[j] = f
  <2>1. PICK k \in 1 .. Len(Files) :
          f = Files[k] /\ \A l \in 1 .. k - 1 : Files[l] \in applied[m]
    BY DEF IsNext
  <2>2. k = j
    BY <1>2, <2>1, MigratorAssumption
  <2>3. i \in 1 .. k - 1
    BY <2>2
  <2>. QED
    BY <2>1, <2>3 DEF MigrationInv, KnownIsRecorded
<1>. QED
  BY <1>1, <1>2

LEMMA MigrationStep == MigrationInv /\ [MigratorNext]_migration => MigrationInv'
<1>. SUFFICES ASSUME MigrationInv, [MigratorNext]_migration PROVE MigrationInv'
  OBVIOUS
<1>. USE DEF MigrationInv
<1>1. ASSUME NEW m \in Migrators, ReadApplied(m) PROVE MigrationInv'
  BY <1>1 DEF ReadApplied, MigratorTypeOK, MigrationsAreWhole, KnownIsRecorded
<1>2. ASSUME NEW m \in Migrators, Apply(m) PROVE MigrationInv'
  BY <1>2 DEF Apply, MigratorTypeOK, MigrationsAreWhole, KnownIsRecorded
<1>3. ASSUME NEW m \in Migrators, Commit(m) PROVE MigrationInv'
  <2>1. PICK f \in FileSet :
          /\ IsNext(m, f)
          /\ schema' = schema \cup {f} /\ recorded' = recorded \cup {f}
          /\ applied' = [applied EXCEPT ![m] = @ \cup {f}]
    BY <1>3 DEF Commit
  <2>2. MigratorTypeOK'
    BY <1>3, <2>1 DEF Commit, MigratorTypeOK
  <2>3. MigrationsAreWhole'
    BY <2>1, NoGap DEF MigrationsAreWhole
  <2>4. KnownIsRecorded'
    BY <2>1 DEF MigratorTypeOK, KnownIsRecorded
  <2>. QED
    BY <2>2, <2>3, <2>4
<1>4. ASSUME NEW m \in Migrators, RowExists(m) PROVE MigrationInv'
  BY <1>4 DEF RowExists, MigratorTypeOK, MigrationsAreWhole, KnownIsRecorded
<1>5. ASSUME NEW m \in Migrators, RunFails(m) PROVE MigrationInv'
  <2>1. failures' \in [Migrators -> Nat]
    BY <1>5 DEF RunFails, MigratorTypeOK
  <2>. QED
    BY <1>5, <2>1 DEF RunFails, MigratorTypeOK, MigrationsAreWhole, KnownIsRecorded
<1>6. ASSUME NEW m \in Migrators, Rerun(m) PROVE MigrationInv'
  BY <1>6 DEF Rerun, MigratorTypeOK, MigrationsAreWhole, KnownIsRecorded
<1>7. CASE UNCHANGED migration
  BY <1>7 DEF migration, MigratorTypeOK, MigrationsAreWhole, KnownIsRecorded
<1>. QED
  BY <1>1, <1>2, <1>3, <1>4, <1>5, <1>6, <1>7 DEF MigratorNext
-----------------------------------------------------------------------------
(* What a step of the system is to the migrators and to the tables.        *)
LEMMA MigratorStep == [Next]_vars => [MigratorNext]_migration
BY DEF Next, vars

LEMMA EstateStep == [Next]_vars => [EstateNext]_estate
BY DEF Next, vars

(* The migrators notice nothing of the seed and of the pages.              *)
THEOREM ConsoleMigrates == Spec => MigratorSpec
<1>1. Init => MigratorInit
  BY DEF Init
<1>. QED
  BY <1>1, MigratorStep, PTL DEF Spec, MigratorSpec

(* Every migration is whole or not there at all, and none runs before one  *)
(* it builds on, for any number of migrators that race and runs that fail. *)
THEOREM Whole == Spec => []MigrationsAreWhole
<1>1. MigrationInv => MigrationsAreWhole
  BY DEF MigrationInv
<1>. QED
  BY <1>1, MigrationInit, MigrationStep, ConsoleMigrates, PTL DEF MigratorSpec

(* A migrator never takes a file for applied that is not recorded.         *)
THEOREM NoFileIsSkipped == Spec => []KnownIsRecorded
<1>1. MigrationInv => KnownIsRecorded
  BY DEF MigrationInv
<1>. QED
  BY <1>1, MigrationInit, MigrationStep, ConsoleMigrates, PTL DEF MigratorSpec
-----------------------------------------------------------------------------
(* The pages: what is sample data is not live.                             *)
SampleIsNotLive == \A x \in lookup : x.live => x.from # "sample"
PagesLive ==
  \A x \in overview \cup incident \cup UNION {lists[q] : q \in Lists} :
    x.live => x.from # "sample"
PagesInv == PagesLive /\ SampleIsNotLive

LEMMA PagesStep == PagesInv /\ [Next]_vars => PagesInv'
<1>. SUFFICES ASSUME PagesInv, [Next]_vars PROVE PagesInv'
  OBVIOUS
<1>. USE DEF PagesInv, PagesLive, SampleIsNotLive
<1>1. CASE UNCHANGED <<overview, lists, lookup, incident>>
  BY <1>1
<1>2. CASE ShowOverview
  <2>1. \A x \in overview' : x.live => x.from # "sample"
    BY <1>2 DEF ShowOverview, Get
  <2>. QED
    BY <1>2, <2>1 DEF ShowOverview
<1>3. ASSUME NEW q \in Lists, FetchList(q) PROVE PagesInv'
  <2>1. PICK answered \in Outcomes : lists' = [lists EXCEPT ![q] = {Get(answered)}]
    BY <1>3 DEF FetchList
  <2>2. \A p \in Lists : \A x \in lists'[p] : x.live => x.from # "sample"
    BY <2>1 DEF Get
  <2>. QED
    BY <1>3, <2>2 DEF FetchList
<1>4. ASSUME NEW id, ListForIncident(id) PROVE PagesInv'
  BY <1>4 DEF ListForIncident, Get
<1>5. CASE ShowIncident
  <2>1. PICK list \in lookup, answered \in Outcomes :
          incident' = {Combine(list, answered /\ list.id \in Ids(incidents))}
    BY <1>5 DEF ShowIncident
  <2>. DEFINE direct == answered /\ list.id \in Ids(incidents)
  <2>2. CASE direct
    <3>1. Combine(list, direct).from = "api"
      BY <2>2 DEF Combine
    <3>. QED
      BY <1>5, <2>1, <3>1 DEF ShowIncident
  <2>3. CASE ~direct
    <3>1. Combine(list, direct).live => list.live
      BY <2>3 DEF Combine
    <3>2. Combine(list, direct).from = IF list.found THEN list.from ELSE "nobody"
      BY <2>3 DEF Combine
    <3>. QED
      BY <1>5, <2>1, <3>1, <3>2 DEF ShowIncident
  <2>. QED
    BY <2>2, <2>3
<1>. QED
  BY <1>1, <1>2, <1>3, <1>4, <1>5
     DEF Next, PagesNext, AskOverview, Answer, vars, pages, Fetch

LEMMA PagesStart == Init => PagesInv
BY DEF Init, PagesInv, PagesLive, SampleIsNotLive

(* Whatever a page shows as live came from the API, whichever of its       *)
(* requests were answered and whenever the tables appeared or changed; and *)
(* on a list page, or in the overview, sample data is under a banner.  It  *)
(* is not about a banner in the other two places: there is none.           *)
THEOREM FallbacksFlagged == Spec => []FallbacksAreFlagged
<1>1. PagesInv => FallbacksAreFlagged
  <2>. SUFFICES ASSUME PagesInv PROVE FallbacksAreFlagged
    OBVIOUS
  <2>1. ASSUME NEW page \in ListPages \cup {"command center", "incident"}, NEW x \in Shown(page)
        PROVE  x.live => x.from # "sample"
    <3>1. x \in overview \cup incident \cup UNION {lists[q] : q \in Lists}
      BY <2>1 DEF Shown, Lists, ListPages
    <3>. QED
      BY <3>1 DEF PagesInv, PagesLive
  <2>2. ASSUME NEW page \in ListPages, NEW x \in Shown(page), x.from = "sample"
        PROVE  DemoBanner(page)
    <3>1. x \in lists[page] /\ page \in Lists
      BY <2>2 DEF Shown, Lists, ListPages
    <3>2. ~x.live
      BY <2>2, <3>1 DEF PagesInv, PagesLive
    <3>. QED
      BY <3>1, <3>2 DEF DemoBanner
  <2>3. ASSUME NEW x \in overview, x.from = "sample"
        PROVE  DemoBanner("command center")
    <3>1. ~x.live
      BY <2>3 DEF PagesInv, PagesLive
    <3>. QED
      BY <3>1 DEF DemoBanner
  <2>. QED
    BY <2>1, <2>2, <2>3 DEF FallbacksAreFlagged
<1>. QED
  BY <1>1, PagesStart, PagesStep, PTL DEF Spec
-----------------------------------------------------------------------------
(* Sequences of rows.                                                      *)
LEMMA MinOfTwo ==
  ASSUME NEW a \in Int, NEW b \in Int
  PROVE  Min({a, b}) = IF a <= b THEN a ELSE b
BY DEF Min

(* The rows of a finite set in some order.                                 *)
LEMMA SetToSeqIs ==
  ASSUME NEW S, IsFiniteSet(S)
  PROVE  /\ Len(SetToSeq(S)) \in Nat
         /\ \A i \in 1 .. Len(SetToSeq(S)) : SetToSeq(S)[i] \in S
         /\ S = {SetToSeq(S)[i] : i \in 1 .. Len(SetToSeq(S))}
<1>. DEFINE n == Cardinality(S)  q == SetToSeq(S)
<1>1. n \in Nat /\ ExistsBijection(1 .. n, S)
  BY FS_CardinalityType
<1>2. PICK b \in Bijection(1 .. n, S) : TRUE
  BY <1>1 DEF ExistsBijection
<1>3. b \in [1 .. n -> S] /\ IsInjective(b)
  BY <1>2 DEF Bijection, Injection
<1>4. q \in [1 .. n -> S] /\ IsInjective(q)
  BY <1>3 DEF SetToSeq
<1>5. q \in Injection(1 .. n, S)
  BY <1>4 DEF Injection
<1>6. IsFiniteSet(1 .. n) /\ Cardinality(1 .. n) = n
  BY <1>1, FS_Interval
<1>7. q \in Surjection(1 .. n, S)
  BY <1>5, <1>6, FS_Injection
<1>8. \A r \in S : \E i \in 1 .. n : q[i] = r
  BY <1>7 DEF Surjection
<1>9. Len(q) = n
  BY <1>1, <1>4
<1>. QED
  BY <1>1, <1>4, <1>8, <1>9
-----------------------------------------------------------------------------
(* The demo estate.                                                        *)
Healths == {"critical", "at-risk", "healthy"}
RawAssets == {Asset(i) : i \in 1 .. TotalAssets}
ResolvedFindings == {Resolved(f) : f \in BuiltFindings}
PossibleAssets == RawAssets \cup BuiltAssets
PossibleFindings == BuiltFindings \cup ResolvedFindings

LEMMA AssetIs ==
  ASSUME NEW i
  PROVE  /\ Asset(i).id = i /\ Scored(Asset(i)).id = i
         /\ Asset(i).health = Health(i) /\ Scored(Asset(i)).health = Health(i)
         /\ Scored(Scored(Asset(i))) = Scored(Asset(i))
         /\ Health(i) \in Healths
<1>1. Scored(Asset(i)) = [id |-> i, health |-> Health(i), environment |-> Environment(i),
                          provider |-> Provider(i), risk |-> Risk(Health(i))]
  BY DEF Asset, Scored
<1>2. Scored(Scored(Asset(i))) = Scored(Asset(i))
  BY <1>1 DEF Scored
<1>3. Health(i) \in Healths
  BY DEF Health, Healths
<1>. QED
  BY <1>1, <1>2, <1>3 DEF Asset

LEMMA FindingIs ==
  ASSUME NEW a, NEW i, a.health \in Healths, i \in 1 .. FindingsOf(a.health),
         NEW f, f = Finding(a, i)
  PROVE  /\ f.id = <<a.id, i>> /\ f.asset = a.id
         /\ f.severity \in Severities
         /\ Resolved(f).id = f.id /\ Resolved(f).severity = f.severity
         /\ Resolved(Resolved(f)) = Resolved(f)
<1>1. f = [id |-> <<a.id, i>>, asset |-> a.id, risk |-> a.risk, status |-> Status(i),
           severity |-> IF a.health = "critical" /\ i = 1 THEN "critical" ELSE RuleSeverity(i),
           resolvedAt |-> "null"]
  BY DEF Finding
<1>2. f.id = <<a.id, i>> /\ f.asset = a.id /\ f.severity \in Severities
  BY <1>1, EstateAssumption DEF Healths, Severities
<1>3. CASE f.status = "resolved"
  <2>1. Resolved(f) = [id |-> f.id, asset |-> f.asset, risk |-> f.risk, status |-> f.status,
                       severity |-> f.severity, resolvedAt |-> "three days later"]
    BY <1>1, <1>3 DEF Resolved
  <2>2. Resolved(Resolved(f)) = Resolved(f)
    BY <2>1 DEF Resolved
  <2>3. Resolved(f).id = f.id /\ Resolved(f).severity = f.severity
    BY <1>1, <1>3 DEF Resolved
  <2>. QED
    BY <1>2, <2>2, <2>3
<1>4. CASE f.status # "resolved"
  BY <1>2, <1>4 DEF Resolved
<1>. QED
  BY <1>3, <1>4

(* A finding is one of a scored asset, and its id tells which.             *)
LEMMA BuiltFindingIs ==
  ASSUME NEW f \in BuiltFindings
  PROVE  \E j \in 1 .. TotalAssets : \E i \in 1 .. FindingsOf(Health(j)) :
           /\ f = Finding(Scored(Asset(j)), i)
           /\ f.id = <<j, i>> /\ f.asset = j
           /\ f.severity \in Severities
           /\ Resolved(f).id = f.id /\ Resolved(f).severity = f.severity
           /\ Resolved(Resolved(f)) = Resolved(f)
<1>1. PICK a \in BuiltAssets : f \in {Finding(a, i) : i \in 1 .. FindingsOf(a.health)}
  BY DEF BuiltFindings
<1>2. PICK i \in 1 .. FindingsOf(a.health) : f = Finding(a, i)
  BY <1>1
<1>3. PICK j \in 1 .. TotalAssets : a = Scored(Asset(j))
  BY DEF BuiltAssets
<1>4. a.id = j /\ a.health = Health(j) /\ a.health \in Healths
  BY <1>3, AssetIs
<1>. QED
  BY <1>2, <1>3, <1>4, FindingIs

LEMMA FindingsHaveIds ==
  ASSUME NEW f \in BuiltFindings, NEW g \in BuiltFindings, f.id = g.id
  PROVE  f = g
<1>1. PICK j \in 1 .. TotalAssets : \E i \in 1 .. FindingsOf(Health(j)) :
        f = Finding(Scored(Asset(j)), i) /\ f.id = <<j, i>>
  BY BuiltFindingIs
<1>2. PICK i \in 1 .. FindingsOf(Health(j)) :
        f = Finding(Scored(Asset(j)), i) /\ f.id = <<j, i>>
  BY <1>1
<1>3. PICK k \in 1 .. TotalAssets : \E l \in 1 .. FindingsOf(Health(k)) :
        g = Finding(Scored(Asset(k)), l) /\ g.id = <<k, l>>
  BY BuiltFindingIs
<1>4. PICK l \in 1 .. FindingsOf(Health(k)) :
        g = Finding(Scored(Asset(k)), l) /\ g.id = <<k, l>>
  BY <1>3
<1>. QED
  BY <1>2, <1>4

(* The demo estate is finite.                                              *)
LEMMA AssetsAreFinite == IsFiniteSet(PossibleAssets)
<1>. DEFINE D == 1 .. TotalAssets
            raw == [i \in D |-> Asset(i)]  scored == [i \in D |-> Scored(Asset(i))]
<1>1. IsFiniteSet(D)
  BY EstateAssumption, FS_Interval
<1>2. raw \in Surjection(D, RawAssets) /\ scored \in Surjection(D, BuiltAssets)
  BY DEF Surjection, RawAssets, BuiltAssets
<1>3. IsFiniteSet(RawAssets) /\ IsFiniteSet(BuiltAssets)
  BY <1>1, <1>2, FS_Surjection
<1>. QED
  BY <1>3, FS_Union DEF PossibleAssets

LEMMA FindingsAreFinite == IsFiniteSet(BuiltFindings) /\ IsFiniteSet(PossibleFindings)
<1>. DEFINE most == FindingsOf("critical") + FindingsOf("at-risk") + FindingsOf("healthy")
            P == (1 .. TotalAssets) \X (1 .. most)
            idOf == [f \in BuiltFindings |-> f.id]
            resolve == [f \in BuiltFindings |-> Resolved(f)]
<1>1. \A j : FindingsOf(Health(j)) \in Nat /\ FindingsOf(Health(j)) <= most
  <2>1. FindingsOf("critical") \in Nat /\ FindingsOf("at-risk") \in Nat
        /\ FindingsOf("healthy") \in Nat
    BY EstateAssumption
  <2>2. \A j : Health(j) \in Healths
    BY AssetIs
  <2>. QED
    BY <2>1, <2>2 DEF Healths
<1>2. most \in Nat
  BY EstateAssumption
<1>3. IsFiniteSet(P)
  <2>1. IsFiniteSet(1 .. TotalAssets) /\ IsFiniteSet(1 .. most)
    BY <1>2, EstateAssumption, FS_Interval
  <2>. QED
    BY <2>1, FS_Product
<1>4. \A f \in BuiltFindings : f.id \in P
  <2>. TAKE f \in BuiltFindings
  <2>1. PICK j \in 1 .. TotalAssets : \E i \in 1 .. FindingsOf(Health(j)) : f.id = <<j, i>>
    BY BuiltFindingIs
  <2>2. PICK i \in 1 .. FindingsOf(Health(j)) : f.id = <<j, i>>
    BY <2>1
  <2>3. i \in 1 .. most
    BY <1>1, <1>2
  <2>. QED
    BY <2>2, <2>3
<1>5. \A f, g \in BuiltFindings : idOf[f] = idOf[g] => f = g
  BY FindingsHaveIds
<1>6. idOf \in Injection(BuiltFindings, P)
  BY <1>4, <1>5, Fun_IsInj
<1>7. IsFiniteSet(BuiltFindings)
  BY <1>3, <1>6, FS_Injection
<1>8. resolve \in Surjection(BuiltFindings, ResolvedFindings)
  BY DEF Surjection, ResolvedFindings
<1>9. IsFiniteSet(ResolvedFindings)
  BY <1>7, <1>8, FS_Surjection
<1>. QED
  BY <1>7, <1>9, FS_Union DEF PossibleFindings

LEMMA SnapshotsAreFinite == IsFiniteSet(SeedSnapshots) /\ SeedSnapshots # {}
<1>. DEFINE P == SeedHours \X ENVIRONMENTS
            row == [p \in P |-> [hour |-> p[1], environment |-> p[2], score |-> 50]]
<1>1. IsFiniteSet(P)
  BY EstateAssumption, FS_Product
<1>2. \A p \in P : row[p] \in SeedSnapshots
  BY DEF SeedSnapshots
<1>3. ASSUME NEW s \in SeedSnapshots PROVE \E p \in P : row[p] = s
  <2>1. <<s.hour, s.environment>> \in P /\ s.score = 50
    BY DEF SeedSnapshots
  <2>2. row[<<s.hour, s.environment>>] = s
    BY <2>1 DEF SeedSnapshots
  <2>. QED
    BY <2>1, <2>2
<1>4. row \in Surjection(P, SeedSnapshots)
  BY <1>2, <1>3, Fun_IsSurj
<1>5. SeedSnapshots # {}
  <2>1. PICK h \in SeedHours, e \in ENVIRONMENTS : TRUE
    BY EstateAssumption
  <2>2. <<h, e>> \in P
    OBVIOUS
  <2>. QED
    BY <1>2, <2>2
<1>. QED
  BY <1>1, <1>4, <1>5, FS_Surjection

(* Hence the sequences of rows that the seed inserts hold just these rows. *)
LEMMA RowsAre ==
  /\ Len(AssetRows) = TotalAssets /\ \A i \in 1 .. TotalAssets : AssetRows[i] = Asset(i)
  /\ Len(FindingRows) \in Nat
  /\ BuiltFindings = {FindingRows[i] : i \in 1 .. Len(FindingRows)}
  /\ Len(SnapshotRows) \in Nat \ {0}
  /\ SeedSnapshots = {SnapshotRows[i] : i \in 1 .. Len(SnapshotRows)}
<1>1. Len(AssetRows) = TotalAssets /\ \A i \in 1 .. TotalAssets : AssetRows[i] = Asset(i)
  BY EstateAssumption DEF AssetRows
<1>2. Len(FindingRows) \in Nat
      /\ BuiltFindings = {FindingRows[i] : i \in 1 .. Len(FindingRows)}
  BY FindingsAreFinite, SetToSeqIs DEF FindingRows
<1>3. Len(SnapshotRows) \in Nat
      /\ SeedSnapshots = {SnapshotRows[i] : i \in 1 .. Len(SnapshotRows)}
  BY SnapshotsAreFinite, SetToSeqIs DEF SnapshotRows
<1>4. Len(SnapshotRows) # 0
  BY <1>3, SnapshotsAreFinite
<1>. QED
  BY <1>1, <1>2, <1>3, <1>4
-----------------------------------------------------------------------------
(* What the tables hold at each statement of the seed, up to the rows that *)
(* the statement has written.  Nothing is said of a run that has died: the *)
(* next one begins with empty tables.                                      *)
Writing == {"assets", "scores", "findings", "resolve", "incidents", "snapshots"}
ScoredTo(n) == {IF i <= n THEN Scored(Asset(i)) ELSE Asset(i) : i \in 1 .. TotalAssets}
SeedIds(n) == {<<"inc", k>> : k \in 1 .. n}

SeedIsAt ==
  /\ step \in Writing \cup {"none", "truncate"}
  /\ inserted \in Nat
  /\ step \in {"none", "truncate", "resolve"} => inserted = 0
  /\ completed \in BOOLEAN
  /\ completed => step = "none"
AssetsSoFar ==
  /\ step = "assets" => inserted <= TotalAssets /\ assets = {Asset(i) : i \in 1 .. inserted}
  /\ step = "scores" => inserted <= TotalAssets /\ assets = ScoredTo(inserted)
  /\ step \in {"findings", "resolve", "incidents", "snapshots"} \/ completed =>
       assets = BuiltAssets
FindingsSoFar ==
  /\ step \in {"assets", "scores"} => findings = {}
  /\ step = "findings" => /\ inserted <= Len(FindingRows)
                          /\ findings = {FindingRows[i] : i \in 1 .. inserted}
  /\ step = "resolve" => findings = BuiltFindings
  /\ step \in {"incidents", "snapshots"} \/ completed => findings = ResolvedFindings
IncidentsSoFar ==
  /\ step \in {"assets", "scores", "findings", "resolve"} => Ids(incidents) = opened
  /\ step = "incidents" => /\ inserted < Len(Shape)
                           /\ Ids(incidents) = SeedIds(inserted) \cup opened
  /\ step = "snapshots" \/ completed => Ids(incidents) = SeedIds(Len(Shape)) \cup opened
SnapshotsSoFar ==
  /\ step \in Writing \ {"snapshots"} => snapshots = {}
  /\ step = "snapshots" => /\ inserted < Len(SnapshotRows)
                           /\ snapshots = {SnapshotRows[i] : i \in 1 .. inserted}
  /\ completed => snapshots = SeedSnapshots
SeedInv == SeedIsAt /\ AssetsSoFar /\ FindingsSoFar /\ IncidentsSoFar /\ SnapshotsSoFar

(* Whatever run of the seed wrote them, the rows are rows of the seed.     *)
RowsAreTheSeeds == assets \subseteq PossibleAssets /\ findings \subseteq PossibleFindings

LEMMA SeedStart == EstateInit => SeedInv /\ RowsAreTheSeeds
<1>. SUFFICES ASSUME EstateInit PROVE SeedInv /\ RowsAreTheSeeds
  OBVIOUS
<1>. USE DEF EstateInit
<1>1. SeedIsAt
  BY DEF SeedIsAt, Writing
<1>2. AssetsSoFar /\ FindingsSoFar
  BY DEF AssetsSoFar, FindingsSoFar
<1>3. IncidentsSoFar /\ SnapshotsSoFar
  BY DEF IncidentsSoFar, SnapshotsSoFar, Writing
<1>. QED
  BY <1>1, <1>2, <1>3 DEF SeedInv, RowsAreTheSeeds

(* What Advance makes of the rows inserted.                                *)
LEMMA Advances ==
  ASSUME inserted \in Nat, NEW rows, Len(rows) \in Nat, NEW size \in Nat \ {0}, NEW next,
         inserted <= Len(rows), Advance(rows, size, next)
  PROVE  /\ inserted' \in Nat
         /\ \/ /\ step' = step /\ inserted' < Len(rows)
               /\ Batch(rows, size) = {rows[i] : i \in inserted + 1 .. inserted'}
               /\ inserted' = inserted + size
            \/ /\ step' = next /\ inserted' = 0
               /\ inserted + size >= Len(rows)
               /\ Batch(rows, size) = {rows[i] : i \in inserted + 1 .. Len(rows)}
<1>1. CASE inserted + size < Len(rows)
  <2>1. Min({inserted + size, Len(rows)}) = inserted + size
    BY <1>1, MinOfTwo
  <2>2. inserted' = inserted + size /\ step' = step
    BY <1>1 DEF Advance
  <2>3. Batch(rows, size) = {rows[i] : i \in inserted + 1 .. inserted + size}
    BY <2>1 DEF Batch
  <2>. QED
    BY <1>1, <2>2, <2>3
<1>2. CASE ~(inserted + size < Len(rows))
  <2>1. Min({inserted + size, Len(rows)}) = Len(rows)
    BY <1>2, MinOfTwo
  <2>2. inserted' = 0 /\ step' = next
    BY <1>2 DEF Advance
  <2>3. Batch(rows, size) = {rows[i] : i \in inserted + 1 .. Len(rows)}
    BY <2>1 DEF Batch
  <2>. QED
    BY <1>2, <2>2, <2>3
<1>. QED
  BY <1>1, <1>2

LEMMA TruncateKeeps ==
  ASSUME SeedInv, Truncate
  PROVE  SeedInv'
<1>1. Ids({}) = {} /\ 1 .. 0 = {}
  BY DEF Ids
<1>2. /\ step' = "assets" /\ inserted' = 0 /\ completed' = completed /\ completed = FALSE
      /\ assets' = {} /\ findings' = {} /\ incidents' = {} /\ snapshots' = {} /\ opened' = {}
  BY DEF SeedInv, SeedIsAt, Truncate
<1>3. SeedIsAt'
  BY <1>2 DEF SeedIsAt, Writing
<1>4. AssetsSoFar'
  BY <1>1, <1>2, EstateAssumption DEF AssetsSoFar
<1>5. FindingsSoFar'
  BY <1>2 DEF FindingsSoFar
<1>6. IncidentsSoFar'
  BY <1>1, <1>2 DEF IncidentsSoFar, Ids
<1>7. SnapshotsSoFar'
  BY <1>2 DEF SnapshotsSoFar
<1>. QED
  BY <1>3, <1>4, <1>5, <1>6, <1>7 DEF SeedInv

LEMMA InsertAssetsKeeps ==
  ASSUME SeedInv, InsertAssets
  PROVE  SeedInv'
<1>1. /\ step = "assets" /\ inserted \in Nat /\ completed = FALSE /\ inserted <= TotalAssets
      /\ assets = {Asset(i) : i \in 1 .. inserted} /\ findings = {} /\ Ids(incidents) = opened
      /\ snapshots = {}
  BY DEF SeedInv, SeedIsAt, AssetsSoFar, FindingsSoFar, IncidentsSoFar, SnapshotsSoFar,
         InsertAssets, Writing
<1>2. /\ assets' = assets \cup Batch(AssetRows, BatchSize)
      /\ Advance(AssetRows, BatchSize, "scores")
      /\ findings' = findings /\ incidents' = incidents /\ snapshots' = snapshots
      /\ completed' = completed /\ opened' = opened
  BY DEF InsertAssets, history
<1>3. Len(AssetRows) = TotalAssets /\ TotalAssets \in Nat /\ BatchSize \in Nat \ {0}
  BY RowsAre, EstateAssumption
<1>4. inserted' \in Nat
  BY <1>1, <1>2, <1>3, Advances
<1>5. CASE /\ step' = step /\ inserted' < TotalAssets /\ inserted' > inserted
           /\ Batch(AssetRows, BatchSize) = {AssetRows[i] : i \in inserted + 1 .. inserted'}
  <2>1. assets' = {Asset(i) : i \in 1 .. inserted'}
    BY <1>1, <1>2, <1>3, <1>4, <1>5, RowsAre
  <2>2. step' = "assets" /\ completed' = FALSE
    BY <1>1, <1>2, <1>5
  <2>3. SeedIsAt'
    BY <1>4, <2>2 DEF SeedIsAt, Writing
  <2>4. AssetsSoFar'
    BY <1>3, <1>4, <1>5, <2>1, <2>2 DEF AssetsSoFar
  <2>5. FindingsSoFar'
    BY <1>1, <1>2, <2>2 DEF FindingsSoFar
  <2>6. IncidentsSoFar'
    BY <1>1, <1>2, <2>2 DEF IncidentsSoFar, Ids
  <2>7. SnapshotsSoFar'
    BY <1>1, <1>2, <2>2 DEF SnapshotsSoFar
  <2>. QED
    BY <2>3, <2>4, <2>5, <2>6, <2>7 DEF SeedInv
<1>6. CASE /\ step' = "scores" /\ inserted' = 0
           /\ Batch(AssetRows, BatchSize) = {AssetRows[i] : i \in inserted + 1 .. TotalAssets}
  <2>1. assets' = {Asset(i) : i \in 1 .. TotalAssets}
    BY <1>1, <1>2, <1>3, <1>6, RowsAre
  <2>2. assets' = ScoredTo(inserted')
    BY <1>6, <2>1 DEF ScoredTo
  <2>3. completed' = FALSE
    BY <1>1, <1>2
  <2>4. SeedIsAt'
    BY <1>4, <1>6, <2>3 DEF SeedIsAt, Writing
  <2>5. AssetsSoFar'
    BY <1>3, <1>4, <1>6, <2>2, <2>3 DEF AssetsSoFar
  <2>6. FindingsSoFar'
    BY <1>1, <1>2, <1>6, <2>3 DEF FindingsSoFar
  <2>7. IncidentsSoFar'
    BY <1>1, <1>2, <1>6, <2>3 DEF IncidentsSoFar, Ids
  <2>8. SnapshotsSoFar'
    BY <1>1, <1>2, <1>6, <2>3 DEF SnapshotsSoFar
  <2>. QED
    BY <2>4, <2>5, <2>6, <2>7, <2>8 DEF SeedInv
<1>. QED
  BY <1>1, <1>2, <1>3, <1>5, <1>6, Advances

LEMMA ScoringOne ==
  ASSUME NEW n \in Nat
  PROVE  {IF a.id = n + 1 THEN Scored(a) ELSE a : a \in ScoredTo(n)} = ScoredTo(n + 1)
<1>. DEFINE row(i) == IF i <= n THEN Scored(Asset(i)) ELSE Asset(i)
            after(i) == IF i <= n + 1 THEN Scored(Asset(i)) ELSE Asset(i)
            scored(a) == IF a.id = n + 1 THEN Scored(a) ELSE a
<1>1. \A i \in 1 .. TotalAssets : row(i).id = i
  BY AssetIs
<1>2. ASSUME NEW i \in 1 .. TotalAssets PROVE scored(row(i)) = after(i)
  <2>1. CASE i <= n
    BY <1>1, <2>1
  <2>2. CASE i = n + 1
    BY <1>1, <2>2
  <2>3. CASE i > n + 1
    BY <1>1, <2>3
  <2>. QED
    BY <2>1, <2>2, <2>3
<1>3. ScoredTo(n) = {row(i) : i \in 1 .. TotalAssets}
  BY DEF ScoredTo
<1>4. ScoredTo(n + 1) = {after(i) : i \in 1 .. TotalAssets}
  BY DEF ScoredTo
<1>5. {scored(a) : a \in ScoredTo(n)} = {scored(row(i)) : i \in 1 .. TotalAssets}
  BY <1>3
<1>. HIDE DEF row, after, scored
<1>6. {scored(row(i)) : i \in 1 .. TotalAssets} = {after(i) : i \in 1 .. TotalAssets}
  BY <1>2
<1>7. {scored(a) : a \in ScoredTo(n)} = ScoredTo(n + 1)
  BY <1>4, <1>5, <1>6
<1>. QED
  BY <1>7 DEF scored

LEMMA ScoredToAll ==
  ASSUME NEW n \in Nat, n >= TotalAssets
  PROVE  ScoredTo(n) = BuiltAssets
BY EstateAssumption DEF ScoredTo, BuiltAssets

LEMMA ScoreAssetKeeps ==
  ASSUME SeedInv, ScoreAsset
  PROVE  SeedInv'
<1>1. /\ step = "scores" /\ inserted \in Nat /\ completed = FALSE /\ inserted <= TotalAssets
      /\ assets = ScoredTo(inserted) /\ findings = {} /\ Ids(incidents) = opened
      /\ snapshots = {}
  BY DEF SeedInv, SeedIsAt, AssetsSoFar, FindingsSoFar, IncidentsSoFar, SnapshotsSoFar,
         ScoreAsset, Writing
<1>2. /\ assets' = {IF a.id = inserted + 1 THEN Scored(a) ELSE a : a \in assets}
      /\ Advance(AssetRows, 1, "findings")
      /\ findings' = findings /\ incidents' = incidents /\ snapshots' = snapshots
      /\ completed' = completed /\ opened' = opened
  BY DEF ScoreAsset, history
<1>3. Len(AssetRows) = TotalAssets /\ TotalAssets \in Nat
  BY RowsAre, EstateAssumption
<1>4. assets' = ScoredTo(inserted + 1)
  BY <1>1, <1>2, ScoringOne
<1>5. CASE step' = step /\ inserted' = inserted + 1 /\ inserted' < TotalAssets
  BY <1>1, <1>2, <1>3, <1>4, <1>5
     DEF SeedInv, SeedIsAt, AssetsSoFar, FindingsSoFar, IncidentsSoFar, SnapshotsSoFar,
         Writing, Ids
<1>6. CASE step' = "findings" /\ inserted' = 0 /\ inserted + 1 >= TotalAssets
  <2>1. assets' = BuiltAssets
    BY <1>1, <1>4, <1>6, ScoredToAll
  <2>2. findings' = {FindingRows[i] : i \in 1 .. inserted'}
    BY <1>1, <1>2, <1>6
  <2>. QED
    BY <1>1, <1>2, <1>6, <2>1, <2>2, RowsAre
       DEF SeedInv, SeedIsAt, AssetsSoFar, FindingsSoFar, IncidentsSoFar, SnapshotsSoFar,
           Writing, Ids
<1>. QED
  BY <1>1, <1>2, <1>3, <1>5, <1>6, Advances

(* No finding of a batch is taken for one that is there already.           *)
LEMMA InsertFindingsKeeps ==
  ASSUME SeedInv, InsertFindings
  PROVE  SeedInv'
<1>. DEFINE batch == Batch(FindingRows, BatchSize)
            last == Len(FindingRows)
<1>1. /\ step = "findings" /\ inserted \in Nat /\ completed = FALSE /\ inserted <= last
      /\ assets = BuiltAssets /\ findings = {FindingRows[i] : i \in 1 .. inserted}
      /\ Ids(incidents) = opened /\ snapshots = {}
  BY DEF SeedInv, SeedIsAt, AssetsSoFar, FindingsSoFar, IncidentsSoFar, SnapshotsSoFar,
         InsertFindings, Writing
<1>2. /\ findings' = findings \cup {f \in batch : f.id \notin Ids(findings)}
      /\ Advance(FindingRows, BatchSize, "resolve")
      /\ assets' = assets /\ incidents' = incidents /\ snapshots' = snapshots
      /\ completed' = completed /\ opened' = opened
  BY DEF InsertFindings, history
<1>3. last \in Nat /\ BatchSize \in Nat \ {0}
      /\ BuiltFindings = {FindingRows[i] : i \in 1 .. last}
  BY RowsAre, EstateAssumption
<1>. HIDE DEF last
<1>4. /\ inserted' \in Nat
      /\ \/ /\ step' = step /\ inserted' < last /\ inserted' = inserted + BatchSize
            /\ batch = {FindingRows[i] : i \in inserted + 1 .. inserted'}
         \/ /\ step' = "resolve" /\ inserted' = 0
            /\ batch = {FindingRows[i] : i \in inserted + 1 .. last}
  BY <1>1, <1>2, <1>3, Advances DEF last
<1>. HIDE DEF batch
<1>5. batch \subseteq BuiltFindings /\ findings \subseteq BuiltFindings
  BY <1>1, <1>3, <1>4
<1>6. findings' = findings \cup batch
  <2>1. ASSUME NEW f \in batch, f.id \in Ids(findings) PROVE f \in findings
    BY <1>5, <2>1, FindingsHaveIds DEF Ids
  <2>. QED
    BY <1>2, <2>1
<1>7. CASE /\ step' = step /\ inserted' < last /\ inserted' = inserted + BatchSize
           /\ batch = {FindingRows[i] : i \in inserted + 1 .. inserted'}
  <2>1. findings' = {FindingRows[i] : i \in 1 .. inserted'}
    BY <1>1, <1>3, <1>6, <1>7
  <2>2. step' = "findings" /\ completed' = FALSE
    BY <1>1, <1>2, <1>7
  <2>3. SeedIsAt'
    BY <1>4, <2>2 DEF SeedIsAt, Writing
  <2>4. AssetsSoFar'
    BY <1>1, <1>2, <2>2 DEF AssetsSoFar
  <2>5. FindingsSoFar'
    BY <1>3, <1>4, <1>7, <2>1, <2>2 DEF FindingsSoFar, last
  <2>6. IncidentsSoFar'
    BY <1>1, <1>2, <2>2 DEF IncidentsSoFar, Ids
  <2>7. SnapshotsSoFar'
    BY <1>1, <1>2, <2>2 DEF SnapshotsSoFar
  <2>. QED
    BY <2>3, <2>4, <2>5, <2>6, <2>7 DEF SeedInv
<1>8. CASE /\ step' = "resolve" /\ inserted' = 0
           /\ batch = {FindingRows[i] : i \in inserted + 1 .. last}
  <2>1. findings' = BuiltFindings
    BY <1>1, <1>3, <1>6, <1>8
  <2>. QED
    BY <1>1, <1>2, <1>8, <2>1
       DEF SeedInv, SeedIsAt, AssetsSoFar, FindingsSoFar, IncidentsSoFar, SnapshotsSoFar,
           Writing, Ids
<1>. QED
  BY <1>4, <1>7, <1>8

LEMMA ResolveFindingsKeeps ==
  ASSUME SeedInv, ResolveFindings
  PROVE  SeedInv'
<1>1. /\ step = "resolve" /\ inserted = 0 /\ completed = FALSE /\ assets = BuiltAssets
      /\ findings = BuiltFindings /\ Ids(incidents) = opened /\ snapshots = {}
  BY DEF SeedInv, SeedIsAt, AssetsSoFar, FindingsSoFar, IncidentsSoFar, SnapshotsSoFar,
         ResolveFindings, Writing
<1>2. /\ findings' = ResolvedFindings /\ step' = "incidents" /\ inserted' = inserted
      /\ assets' = assets /\ incidents' = incidents /\ snapshots' = snapshots
      /\ completed' = completed /\ opened' = opened
  BY <1>1 DEF ResolveFindings, ResolvedFindings, history
<1>3. SeedIds(0) = {}
  BY DEF SeedIds
<1>4. Len(Shape) \in Nat \ {0}
  BY EstateAssumption
<1>. QED
  BY <1>1, <1>2, <1>3, <1>4
     DEF SeedInv, SeedIsAt, AssetsSoFar, FindingsSoFar, IncidentsSoFar, SnapshotsSoFar,
         Writing, Ids

LEMMA InsertIncidentKeeps ==
  ASSUME SeedInv, InsertIncident
  PROVE  SeedInv'
<1>. DEFINE last == Len(Shape)
<1>1. /\ step = "incidents" /\ inserted \in Nat /\ completed = FALSE /\ inserted < last
      /\ assets = BuiltAssets /\ findings = ResolvedFindings
      /\ Ids(incidents) = SeedIds(inserted) \cup opened /\ snapshots = {}
  BY DEF SeedInv, SeedIsAt, AssetsSoFar, FindingsSoFar, IncidentsSoFar, SnapshotsSoFar,
         InsertIncident, Writing
<1>2. /\ incidents' = incidents \cup {SeedIncident(inserted + 1)}
      /\ Advance(Shape, 1, "snapshots")
      /\ assets' = assets /\ findings' = findings /\ snapshots' = snapshots
      /\ completed' = completed /\ opened' = opened
  BY DEF InsertIncident, history
<1>3. last \in Nat \ {0}
  BY EstateAssumption
<1>4. Ids(incidents)' = SeedIds(inserted + 1) \cup opened'
  <2>1. SeedIncident(inserted + 1).id = <<"inc", inserted + 1>>
    BY DEF SeedIncident
  <2>2. Ids(incidents)' = Ids(incidents) \cup {<<"inc", inserted + 1>>}
    BY <1>2, <2>1 DEF Ids
  <2>3. SeedIds(inserted + 1) = SeedIds(inserted) \cup {<<"inc", inserted + 1>>}
    BY <1>1 DEF SeedIds
  <2>. QED
    BY <1>1, <1>2, <2>2, <2>3
<1>5. \/ step' = step /\ inserted' = inserted + 1 /\ inserted' < last
      \/ step' = "snapshots" /\ inserted' = 0 /\ inserted + 1 = last
  BY <1>1, <1>2, <1>3 DEF Advance
<1>. HIDE DEF last
<1>6. CASE step' = step /\ inserted' = inserted + 1 /\ inserted' < last
  <2>1. Ids(incidents)' = SeedIds(inserted)' \cup opened'
    BY <1>4, <1>6
  <2>2. inserted' \in Nat
    BY <1>1, <1>6
  <2>3. IncidentsSoFar'
    BY <1>1, <1>2, <1>6, <2>1 DEF IncidentsSoFar, last
  <2>. QED
    BY <1>1, <1>2, <1>6, <2>2, <2>3
       DEF SeedInv, SeedIsAt, AssetsSoFar, FindingsSoFar, SnapshotsSoFar, Writing
<1>7. CASE step' = "snapshots" /\ inserted' = 0 /\ inserted + 1 = last
  <2>1. Len(SnapshotRows) > 0
    BY RowsAre
  <2>2. snapshots' = {SnapshotRows[i] : i \in 1 .. inserted'}
    BY <1>1, <1>2, <1>7
  <2>. QED
    BY <1>1, <1>2, <1>4, <1>7, <2>1, <2>2
       DEF SeedInv, SeedIsAt, AssetsSoFar, FindingsSoFar, IncidentsSoFar, SnapshotsSoFar,
           Writing, last
<1>. QED
  BY <1>5, <1>6, <1>7

LEMMA InsertSnapshotKeeps ==
  ASSUME SeedInv, InsertSnapshot
  PROVE  SeedInv'
<1>. DEFINE last == Len(SnapshotRows)
<1>1. /\ step = "snapshots" /\ inserted \in Nat /\ completed = FALSE /\ inserted < last
      /\ assets = BuiltAssets /\ findings = ResolvedFindings
      /\ Ids(incidents) = SeedIds(Len(Shape)) \cup opened
      /\ snapshots = {SnapshotRows[i] : i \in 1 .. inserted}
  BY DEF SeedInv, SeedIsAt, AssetsSoFar, FindingsSoFar, IncidentsSoFar, SnapshotsSoFar,
         InsertSnapshot, Writing
<1>2. /\ snapshots' = snapshots \cup {SnapshotRows[inserted + 1]}
      /\ Advance(SnapshotRows, 1, "none")
      /\ completed' = (step' = "none")
      /\ assets' = assets /\ findings' = findings /\ incidents' = incidents
      /\ opened' = opened
  BY DEF InsertSnapshot
<1>3. last \in Nat /\ SeedSnapshots = {SnapshotRows[i] : i \in 1 .. last}
  BY RowsAre
<1>4. snapshots' = {SnapshotRows[i] : i \in 1 .. inserted + 1}
  BY <1>1, <1>2
<1>5. \/ step' = step /\ inserted' = inserted + 1 /\ inserted' < last
      \/ step' = "none" /\ inserted' = 0 /\ inserted + 1 = last
  BY <1>1, <1>2, <1>3 DEF Advance
<1>. HIDE DEF last
<1>6. CASE step' = step /\ inserted' = inserted + 1 /\ inserted' < last
  <2>1. completed' = FALSE
    BY <1>1, <1>2, <1>6
  <2>. QED
    BY <1>1, <1>2, <1>3, <1>4, <1>6, <2>1
       DEF SeedInv, SeedIsAt, AssetsSoFar, FindingsSoFar, IncidentsSoFar, SnapshotsSoFar,
           Writing, Ids, last
<1>7. CASE step' = "none" /\ inserted' = 0 /\ inserted + 1 = last
  <2>1. snapshots' = SeedSnapshots
    BY <1>3, <1>4, <1>7
  <2>2. completed' = TRUE
    BY <1>2, <1>7
  <2>. QED
    BY <1>1, <1>2, <1>7, <2>1, <2>2
       DEF SeedInv, SeedIsAt, AssetsSoFar, FindingsSoFar, IncidentsSoFar, SnapshotsSoFar,
           Writing, Ids
<1>. QED
  BY <1>5, <1>6, <1>7

LEMMA OpenIncidentKeeps ==
  ASSUME SeedInv, NEW id, OpenIncident(id)
  PROVE  SeedInv'
<1>. DEFINE row == [id |-> id, priority |-> "P1", status |-> "open"]
<1>1. Ids(incidents)' = Ids(incidents) \cup {id}
  <2>1. row.id = id /\ incidents' = incidents \cup {row}
    BY DEF OpenIncident
  <2>. HIDE DEF row
  <2>. QED
    BY <2>1 DEF Ids
<1>2. opened' = opened \cup {id}
  BY DEF OpenIncident
<1>3. IncidentsSoFar'
  BY <1>1, <1>2 DEF SeedInv, IncidentsSoFar, OpenIncident
<1>. QED
  BY <1>3 DEF SeedInv, SeedIsAt, AssetsSoFar, FindingsSoFar, SnapshotsSoFar, OpenIncident

LEMMA SeedStep == SeedInv /\ [EstateNext]_estate => SeedInv'
<1>. SUFFICES ASSUME SeedInv, [EstateNext]_estate PROVE SeedInv'
  OBVIOUS
<1>1. CASE BeginSeed
  BY <1>1 DEF BeginSeed, tables, SeedInv, SeedIsAt, AssetsSoFar, FindingsSoFar,
              IncidentsSoFar, SnapshotsSoFar, Writing, Ids
<1>2. CASE NoTable \/ SeedDies
  <2>1. step' = "none" /\ inserted' = 0 /\ completed' = completed /\ opened' = opened
        /\ UNCHANGED tables
    BY <1>2 DEF NoTable, SeedDies, EndSeed
  <2>. QED
    BY <2>1 DEF tables, SeedInv, SeedIsAt, AssetsSoFar, FindingsSoFar,
                IncidentsSoFar, SnapshotsSoFar, Writing, Ids
<1>3. CASE UNCHANGED estate
  BY <1>3 DEF estate, tables, history, SeedInv, SeedIsAt, AssetsSoFar, FindingsSoFar,
              IncidentsSoFar, SnapshotsSoFar, Ids
<1>. QED
  BY <1>1, <1>2, <1>3, TruncateKeeps, InsertAssetsKeeps, ScoreAssetKeeps,
     InsertFindingsKeeps, ResolveFindingsKeeps, InsertIncidentKeeps, InsertSnapshotKeeps,
     OpenIncidentKeeps
     DEF EstateNext

(* A run of the seed that ends leaves the demo estate and the live         *)
(* incidents opened since it began, for any estate and any size of batch,  *)
(* however many runs died before it and wherever they did.                 *)
THEOREM TheSeedLeavesTheEstate == Spec => []SeedLeavesTheEstate
<1>1. Init => SeedInv
  BY SeedStart DEF Init
<1>2. SeedInv /\ [Next]_vars => SeedInv'
  BY EstateStep, SeedStep
<1>3. SeedInv => SeedLeavesTheEstate
  BY DEF SeedInv, AssetsSoFar, FindingsSoFar, IncidentsSoFar, SnapshotsSoFar,
         SeedLeavesTheEstate, ResolvedFindings, SeedIds
<1>. QED
  BY <1>1, <1>2, <1>3, PTL DEF Spec
-----------------------------------------------------------------------------
(* The figures of the overview.  The rows counted under each value of a    *)
(* column are all the rows: the pairs of a value and a number up to its    *)
(* count correspond to the rows, one to one.                               *)
LEMMA TallyAddsUp ==
  ASSUME NEW rows, IsFiniteSet(rows), NEW column, NEW V,
         \A r \in rows : r[column] \in V
  PROVE  SumOf([v \in V |-> Count(Where(rows, column, v))]) = Count(rows)
<1>. DEFINE group(v) == Where(rows, column, v)
            n(v) == Cardinality(group(v))
            P == UNION {{v} \X (1 .. n(v)) : v \in V}
            b == [v \in V |-> CHOOSE f : f \in Bijection(1 .. n(v), group(v))]
            rowOf == [p \in P |-> b[p[1]][p[2]]]
<1>1. \A v \in V : \A r : r \in group(v) <=> r \in rows /\ r[column] = v
  BY DEF Where
<1>2. ASSUME NEW v \in V
      PROVE  n(v) \in Nat /\ b[v] \in Bijection(1 .. n(v), group(v))
  <2>1. IsFiniteSet(group(v))
    BY <1>1, FS_Subset DEF Where
  <2>2. n(v) \in Nat /\ ExistsBijection(1 .. n(v), group(v))
    BY <2>1, FS_CardinalityType
  <2>. QED
    BY <2>2 DEF ExistsBijection
<1>3. \A p : p \in P <=> \E v \in V : \E k \in 1 .. n(v) : p = <<v, k>>
  OBVIOUS
<1>4. \A p \in P : p[1] \in V /\ p[2] \in 1 .. n(p[1]) /\ p = <<p[1], p[2]>>
  BY <1>3
<1>5. \A v \in V : \A k \in 1 .. n(v) : <<v, k>> \in P
  BY <1>3
<1>. HIDE DEF group, n, P, b
<1>6. ASSUME NEW v \in V
      PROVE  /\ \A k \in 1 .. n(v) : b[v][k] \in group(v)
             /\ \A k, l \in 1 .. n(v) : b[v][k] = b[v][l] => k = l
             /\ \A r \in group(v) : \E k \in 1 .. n(v) : b[v][k] = r
  BY <1>2, Fun_BijectionProperties
<1>7. \A p \in P : rowOf[p] \in rows /\ rowOf[p][column] = p[1]
  BY <1>1, <1>4, <1>6
<1>8. ASSUME NEW p \in P, NEW q \in P, rowOf[p] = rowOf[q] PROVE p = q
  <2>1. p[1] = q[1]
    BY <1>7, <1>8
  <2>2. b[p[1]][p[2]] = b[p[1]][q[2]]
    BY <1>8, <2>1
  <2>3. p[2] = q[2]
    BY <1>4, <1>6, <2>1, <2>2
  <2>. QED
    BY <1>4, <2>1, <2>3
<1>9. ASSUME NEW r \in rows PROVE \E p \in P : rowOf[p] = r
  <2>1. r[column] \in V /\ r \in group(r[column])
    BY <1>1
  <2>2. PICK k \in 1 .. n(r[column]) : b[r[column]][k] = r
    BY <1>6, <2>1
  <2>3. <<r[column], k>> \in P
    BY <1>5, <2>1
  <2>4. rowOf[<<r[column], k>>] = r
    BY <2>2, <2>3
  <2>. QED
    BY <2>3, <2>4
<1>10. rowOf \in [P -> rows]
  BY <1>7
<1>. HIDE DEF rowOf
<1>11. rowOf \in Bijection(P, rows)
  BY <1>8, <1>9, <1>10, Fun_IsBij
<1>12. Inverse(rowOf, P, rows) \in Bijection(rows, P)
  BY <1>11, Fun_BijInverse
<1>13. Cardinality(P) = Cardinality(rows)
  BY <1>12, FS_Bijection DEF ExistsBijection
<1>14. SumOf([v \in V |-> n(v)]) = Cardinality(P)
  BY DEF SumOf, P
<1>. QED
  BY <1>13, <1>14 DEF Count, n, group

LEMMA TotalsAddUp ==
  ASSUME NEW rows, IsFiniteSet(rows), \A r \in rows : r.health \in Healths,
         NEW a, a = AssetTotals(rows)
  PROVE  a.total = Count(rows) /\ a.healthy + a.atRisk + a.critical = a.total
<1>. DEFINE W(h) == Where(rows, "health", h)
<1>1. \A h : W(h) \in SUBSET rows /\ \A r : r \in W(h) <=> r \in rows /\ r.health = h
  BY DEF Where
<1>2. /\ a.total = Cardinality(rows) /\ a.healthy = Cardinality(W("healthy"))
      /\ a.atRisk = Cardinality(W("at-risk")) /\ a.critical = Cardinality(W("critical"))
  BY DEF AssetTotals, Count
<1>. HIDE DEF W
<1>3. \A h : IsFiniteSet(W(h)) /\ Cardinality(W(h)) \in Nat
  BY <1>1, FS_Subset, FS_CardinalityType
<1>. DEFINE two == W("healthy") \cup W("at-risk")
<1>4. W("healthy") \cap W("at-risk") = {} /\ two \cap W("critical") = {}
  BY <1>1
<1>5. rows = two \cup W("critical")
  BY <1>1 DEF Healths
<1>6. /\ IsFiniteSet(two)
      /\ Cardinality(two) = Cardinality(W("healthy")) + Cardinality(W("at-risk"))
  <2>1. /\ IsFiniteSet(two)
        /\ Cardinality(two) = Cardinality(W("healthy")) + Cardinality(W("at-risk"))
                              - Cardinality(W("healthy") \cap W("at-risk"))
    BY <1>3, FS_Union
  <2>2. Cardinality(W("healthy") \cap W("at-risk")) = 0
    BY <1>4, FS_EmptySet
  <2>. QED
    BY <1>3, <2>1, <2>2
<1>. HIDE DEF two
<1>7. Cardinality(rows) = Cardinality(two) + Cardinality(W("critical"))
  <2>1. Cardinality(rows) = Cardinality(two) + Cardinality(W("critical"))
                            - Cardinality(two \cap W("critical"))
    BY <1>3, <1>5, <1>6, FS_Union
  <2>2. Cardinality(two) \in Nat
    BY <1>6, FS_CardinalityType
  <2>3. Cardinality(two \cap W("critical")) = 0
    BY <1>4, FS_EmptySet
  <2>. QED
    BY <1>3, <2>1, <2>2, <2>3
<1>. QED
  BY <1>2, <1>3, <1>6, <1>7 DEF Count

LEMMA ColumnsAddUp ==
  ASSUME NEW rows, IsFiniteSet(rows)
  PROVE  SumOf(ByEnvironment(rows)) = Count(rows) /\ SumOf(ByProvider(rows)) = Count(rows)
<1>1. ASSUME NEW column PROVE SumOf(Tally(rows, column)) = Count(rows)
  <2>. DEFINE V == {r[column] : r \in rows}
  <2>1. \A r \in rows : r[column] \in V
    OBVIOUS
  <2>2. Tally(rows, column) = [v \in V |-> Count(Where(rows, column, v))]
    BY DEF Tally
  <2>. HIDE DEF V
  <2>. QED
    BY <2>1, <2>2, TallyAddsUp
<1>. QED
  BY <1>1 DEF ByEnvironment, ByProvider

LEMMA SummaryAddsUp ==
  ASSUME NEW rows, IsFiniteSet(rows), \A r \in rows : r.severity \in Severities,
         NEW f, f = FindingSummary(rows)
  PROVE  SumOf(f.bySeverity) = f.open
<1>. DEFINE open == Where(rows, "status", "open")
            t == [s \in Severities |-> Count(Where(open, "severity", s))]
<1>1. open \in SUBSET rows
  BY DEF Where
<1>2. IsFiniteSet(open)
  BY <1>1, FS_Subset
<1>3. \A r \in open : r["severity"] \in Severities
  BY <1>1
<1>4. f.open = Count(open) /\ f.bySeverity = t
  BY DEF FindingSummary
<1>. HIDE DEF open
<1>5. SumOf(t) = Count(open)
  BY <1>2, <1>3, TallyAddsUp
<1>. QED
  BY <1>4, <1>5

(* The rows of the tables are of the seed and so finite, whenever they are *)
(* read.                                                                   *)
LEMMA RowsAreFinite ==
  ASSUME RowsAreTheSeeds
  PROVE  /\ IsFiniteSet(assets) /\ \A a \in assets : a.health \in Healths
         /\ IsFiniteSet(findings) /\ \A f \in findings : f.severity \in Severities
<1>1. IsFiniteSet(assets) /\ IsFiniteSet(findings)
  BY AssetsAreFinite, FindingsAreFinite, FS_Subset DEF RowsAreTheSeeds
<1>2. \A a \in PossibleAssets : a.health \in Healths
  BY AssetIs DEF PossibleAssets, RawAssets, BuiltAssets
<1>3. \A f \in PossibleFindings : f.severity \in Severities
  <2>1. \A f \in BuiltFindings : /\ f.severity \in Severities
                                 /\ Resolved(f).severity = f.severity
    BY BuiltFindingIs
  <2>. QED
    BY <2>1 DEF PossibleFindings, ResolvedFindings
<1>. QED
  BY <1>1, <1>2, <1>3 DEF RowsAreTheSeeds

LEMMA RowsStep == SeedInv /\ RowsAreTheSeeds /\ [EstateNext]_estate => RowsAreTheSeeds'
<1>. SUFFICES ASSUME SeedInv, RowsAreTheSeeds, [EstateNext]_estate PROVE RowsAreTheSeeds'
  OBVIOUS
<1>1. CASE assets' = assets /\ findings' = findings
  BY <1>1 DEF RowsAreTheSeeds
<1>2. CASE Truncate
  BY <1>2 DEF Truncate, RowsAreTheSeeds
<1>3. CASE InsertAssets
  <2>1. inserted \in Nat /\ inserted <= Len(AssetRows) /\ Len(AssetRows) = TotalAssets
        /\ TotalAssets \in Nat /\ BatchSize \in Nat \ {0}
    BY <1>3, RowsAre, EstateAssumption DEF InsertAssets, SeedInv, SeedIsAt, AssetsSoFar
  <2>2. Advance(AssetRows, BatchSize, "scores")
    BY <1>3 DEF InsertAssets
  <2>3. \A r \in Batch(AssetRows, BatchSize) : \E i \in 1 .. Len(AssetRows) : r = AssetRows[i]
    <3>1. CASE /\ inserted' \in Nat /\ inserted' < Len(AssetRows)
               /\ Batch(AssetRows, BatchSize) = {AssetRows[i] : i \in inserted + 1 .. inserted'}
      BY <2>1, <3>1
    <3>2. CASE Batch(AssetRows, BatchSize) = {AssetRows[i] : i \in inserted + 1 .. Len(AssetRows)}
      BY <2>1, <3>2
    <3>. QED
      BY <2>1, <2>2, <3>1, <3>2, Advances
  <2>4. Batch(AssetRows, BatchSize) \subseteq RawAssets
    BY <2>1, <2>3, RowsAre DEF RawAssets
  <2>. QED
    BY <1>3, <2>4 DEF InsertAssets, RowsAreTheSeeds, PossibleAssets
<1>4. CASE ScoreAsset
  <2>1. \A a \in PossibleAssets : Scored(a) \in PossibleAssets
    BY AssetIs DEF PossibleAssets, RawAssets, BuiltAssets
  <2>. QED
    BY <1>4, <2>1 DEF ScoreAsset, RowsAreTheSeeds
<1>5. CASE InsertFindings
  <2>1. inserted \in Nat /\ inserted <= Len(FindingRows) /\ Len(FindingRows) \in Nat
        /\ BatchSize \in Nat \ {0}
    BY <1>5, RowsAre, EstateAssumption DEF InsertFindings, SeedInv, SeedIsAt, FindingsSoFar
  <2>2. Advance(FindingRows, BatchSize, "resolve")
    BY <1>5 DEF InsertFindings
  <2>3. \A r \in Batch(FindingRows, BatchSize) : \E i \in 1 .. Len(FindingRows) : r = FindingRows[i]
    <3>1. CASE /\ inserted' \in Nat /\ inserted' < Len(FindingRows)
               /\ Batch(FindingRows, BatchSize) = {FindingRows[i] : i \in inserted + 1 .. inserted'}
      BY <2>1, <3>1
    <3>2. CASE Batch(FindingRows, BatchSize) = {FindingRows[i] : i \in inserted + 1 .. Len(FindingRows)}
      BY <2>1, <3>2
    <3>. QED
      BY <2>1, <2>2, <3>1, <3>2, Advances
  <2>4. Batch(FindingRows, BatchSize) \subseteq BuiltFindings
    BY <2>1, <2>3, RowsAre
  <2>. QED
    BY <1>5, <2>4 DEF InsertFindings, RowsAreTheSeeds, PossibleFindings
<1>6. CASE ResolveFindings
  <2>1. \A f \in PossibleFindings : Resolved(f) \in PossibleFindings
    <3>1. \A f \in BuiltFindings : Resolved(Resolved(f)) = Resolved(f)
      BY BuiltFindingIs
    <3>. QED
      BY <3>1 DEF PossibleFindings, ResolvedFindings
  <2>. QED
    BY <1>6, <2>1 DEF ResolveFindings, RowsAreTheSeeds
<1>. QED
  BY <1>1, <1>2, <1>3, <1>4, <1>5, <1>6
     DEF EstateNext, estate, tables, BeginSeed, InsertIncident, InsertSnapshot, NoTable,
         SeedDies, EndSeed, OpenIncident

(* What the statements answered for an overview adds up, and is of the     *)
(* rows of the moment until assets are written.                            *)
AnswersAddUp ==
  /\ asking \in BOOLEAN /\ disturbed \in BOOLEAN
  /\ ~asking => DOMAIN answers = {}
  /\ "totals" \in DOMAIN answers =>
       LET a == answers["totals"] IN a.healthy + a.atRisk + a.critical = a.total
  /\ "others" \in DOMAIN answers =>
       LET f == answers["others"].findings IN SumOf(f.bySeverity) = f.open
AnswersAreCurrent ==
  ~disturbed =>
    /\ "totals" \in DOMAIN answers => answers["totals"].total = Count(assets)
    /\ "byEnvironment" \in DOMAIN answers => answers["byEnvironment"] = ByEnvironment(assets)
    /\ "byProvider" \in DOMAIN answers => answers["byProvider"] = ByProvider(assets)
OverviewInv == OverviewAddsUp /\ AnswersAddUp /\ AnswersAreCurrent

LEMMA AnswerKeeps ==
  ASSUME OverviewInv, RowsAreTheSeeds, NEW s \in Statements, Answer(s),
         UNCHANGED <<assets, findings>>
  PROVE  OverviewInv'
<1>1. /\ answers' = [q \in DOMAIN answers \cup {s} |-> IF q = s THEN Ask(s) ELSE answers[q]]
      /\ asking' = asking /\ asking = TRUE /\ disturbed' = disturbed /\ overview' = overview
  BY DEF Answer, OverviewInv, AnswersAddUp
<1>2. DOMAIN answers' = DOMAIN answers \cup {s} /\ answers'[s] = Ask(s)
      /\ \A q \in DOMAIN answers \ {s} : answers'[q] = answers[q]
  BY <1>1
<1>3. CASE s = "totals"
  <2>1. Ask(s) = AssetTotals(assets)
    BY <1>3 DEF Ask
  <2>2. LET a == Ask(s) IN a.total = Count(assets) /\ a.healthy + a.atRisk + a.critical = a.total
    BY <2>1, TotalsAddUp, RowsAreFinite
  <2>. QED
    BY <1>1, <1>2, <1>3, <2>2 DEF OverviewInv, OverviewAddsUp, AnswersAddUp, AnswersAreCurrent
<1>4. CASE s = "byEnvironment" \/ s = "byProvider"
  <2>1. /\ s = "byEnvironment" => Ask(s) = ByEnvironment(assets)
        /\ s = "byProvider" => Ask(s) = ByProvider(assets)
    BY DEF Ask
  <2>. QED
    BY <1>1, <1>2, <1>4, <2>1 DEF OverviewInv, OverviewAddsUp, AnswersAddUp, AnswersAreCurrent
<1>5. CASE s = "others"
  <2>1. Ask(s).findings = FindingSummary(findings)
    BY <1>5 DEF Ask
  <2>2. SumOf(Ask(s).findings.bySeverity) = Ask(s).findings.open
    BY <2>1, SummaryAddsUp, RowsAreFinite
  <2>. QED
    BY <1>1, <1>2, <1>5, <2>2 DEF OverviewInv, OverviewAddsUp, AnswersAddUp, AnswersAreCurrent
<1>6. CASE s = "trend"
  BY <1>1, <1>2, <1>6 DEF OverviewInv, OverviewAddsUp, AnswersAddUp, AnswersAreCurrent
<1>. QED
  BY <1>3, <1>4, <1>5, <1>6 DEF Statements

LEMMA ShowOverviewKeeps ==
  ASSUME OverviewInv, RowsAreTheSeeds, ShowOverview, UNCHANGED <<assets, findings>>
  PROVE  OverviewInv'
<1>1. asking' = FALSE /\ DOMAIN answers' = {} /\ disturbed' = FALSE
  BY DEF ShowOverview
<1>2. OverviewAddsUp'
  <2>1. CASE overview' = {Get(FALSE)}
    BY <2>1 DEF OverviewAddsUp, Get
  <2>2. CASE /\ DOMAIN answers = Statements
             /\ overview' = {[live |-> TRUE, from |-> "api", data |-> answers,
                              disturbed |-> disturbed]}
    <3>1. ASSUME ~disturbed
          PROVE  /\ SumOf(answers["byEnvironment"]) = answers["totals"].total
                 /\ SumOf(answers["byProvider"]) = answers["totals"].total
      BY <2>2, <3>1, ColumnsAddUp, RowsAreFinite DEF OverviewInv, AnswersAreCurrent, Statements
    <3>2. /\ "totals" \in DOMAIN answers /\ "others" \in DOMAIN answers
          /\ disturbed \in BOOLEAN
      BY <2>2 DEF Statements, OverviewInv, AnswersAddUp
    <3>. QED
      BY <2>2, <3>1, <3>2 DEF OverviewInv, AnswersAddUp, OverviewAddsUp
  <2>. QED
    BY <2>1, <2>2 DEF ShowOverview
<1>. QED
  BY <1>1, <1>2 DEF OverviewInv, AnswersAddUp, AnswersAreCurrent

LEMMA OverviewStep == OverviewInv /\ RowsAreTheSeeds /\ [Next]_vars => OverviewInv'
<1>. SUFFICES ASSUME OverviewInv, RowsAreTheSeeds, [Next]_vars PROVE OverviewInv'
  OBVIOUS
<1>1. CASE UNCHANGED <<assets, overview, answers, asking, disturbed>>
  BY <1>1 DEF OverviewInv, OverviewAddsUp, AnswersAddUp, AnswersAreCurrent
<1>2. CASE EstateNext /\ UNCHANGED <<migration, pages>>
           /\ disturbed' = (disturbed \/ (asking /\ assets' # assets))
  <2>1. overview' = overview /\ answers' = answers /\ asking' = asking
    BY <1>2 DEF pages
  <2>2. OverviewAddsUp' /\ AnswersAddUp'
    BY <1>2, <2>1 DEF OverviewInv, OverviewAddsUp, AnswersAddUp
  <2>3. AnswersAreCurrent'
    BY <1>2, <2>1 DEF OverviewInv, AnswersAddUp, AnswersAreCurrent
  <2>. QED
    BY <2>2, <2>3 DEF OverviewInv
<1>3. CASE AskOverview
  <2>1. DOMAIN answers' = {} /\ asking' = TRUE /\ disturbed' = FALSE /\ overview' = overview
    BY <1>3 DEF AskOverview
  <2>. QED
    BY <2>1 DEF OverviewInv, OverviewAddsUp, AnswersAddUp, AnswersAreCurrent
<1>4. CASE PagesNext /\ UNCHANGED <<migration, estate>>
  <2>1. UNCHANGED <<assets, findings>>
    BY <1>4 DEF estate, tables
  <2>. QED
    BY <1>1, <1>3, <1>4, <2>1, AnswerKeeps, ShowOverviewKeeps
       DEF PagesNext, FetchList, ListForIncident, ShowIncident
<1>. QED
  BY <1>1, <1>2, <1>4 DEF Next, vars, pages, estate, tables

(* The figures the command center shows add up, whatever the seed wrote    *)
(* between two statements of the overview; those of two statements on the  *)
(* assets do so unless it wrote assets between them.  For any estate.      *)
THEOREM TheOverviewAddsUp == Spec => []OverviewAddsUp
<1>1. Init => SeedInv /\ RowsAreTheSeeds /\ OverviewInv
  <2>. SUFFICES ASSUME Init PROVE SeedInv /\ RowsAreTheSeeds /\ OverviewInv
    OBVIOUS
  <2>1. OverviewInv
    <3>1. DOMAIN answers = {} /\ asking = FALSE /\ disturbed = FALSE /\ overview = {}
      BY DEF Init
    <3>. QED
      BY <3>1 DEF OverviewInv, OverviewAddsUp, AnswersAddUp, AnswersAreCurrent
  <2>. QED
    BY <2>1, SeedStart DEF Init
<1>2. SeedInv /\ RowsAreTheSeeds /\ OverviewInv /\ [Next]_vars
        => (SeedInv /\ RowsAreTheSeeds /\ OverviewInv)'
  BY EstateStep, SeedStep, RowsStep, OverviewStep
<1>3. OverviewInv => OverviewAddsUp
  BY DEF OverviewInv
<1>. QED
  BY <1>1, <1>2, <1>3, PTL DEF Spec
=============================================================================
