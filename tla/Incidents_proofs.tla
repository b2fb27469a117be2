-------------------------- MODULE Incidents_proofs --------------------------
(***************************************************************************)
(* Proofs about Incidents for any keys, replicas, clusters and bounds:     *)
(* types, what a row shows, one open incident per key, what is announced,  *)
(* and which clusters page.                                                *)
(***************************************************************************)
EXTENDS Incidents, TLAPS, SequenceTheorems

Stages == {"found", "stored"}
RowSet ==
  [key : Keys, title : Snapshots, environment : {Payload[s].environment : s \in Snapshots},
   openedAt : {Payload[s].from : s \in Snapshots}, snapshot : Snapshots,
   risk : {Risk(s) : s \in Snapshots}, priority : Priorities,
   status : Statuses, closedAt : BOOLEAN]
HandlerSet ==
  [key : Keys, offset : Nat \ {0}, snapshot : Snapshots, existing : Nat,
   status : Statuses, id : Nat, stage : Stages]
EventSet == [type : {"created", "updated"}, incident : Nat]

Typing ==
  /\ log \in [Keys -> Seq(Snapshots)]
  /\ owner \in [Keys -> Workers]
  /\ cursor \in [Keys -> Nat] /\ start \in [Keys -> Nat]
  /\ committed \in [Keys -> Nat \cup {NoOffset}]
  /\ work \in [Workers -> SUBSET HandlerSet]
  /\ \A w \in Workers : \A g, h \in work[w] : g = h
  /\ rows \in Seq(RowSet)
  /\ events \in Seq(EventSet)
  /\ failures \in Nat /\ edits \in Nat /\ overlaps \in Nat

(* A handler works on the cluster at its offset, on an incident of its own *)
(* key, and what was announced is in the table.                            *)
HandlerGood(h) ==
  /\ h.offset \in 1 .. Len(log[h.key])
  /\ h.snapshot = log[h.key][h.offset]
  /\ h.existing # NoIncident => h.existing \in Ids /\ rows[h.existing].key = h.key
  /\ h.stage = "found" => h.id = h.existing
  /\ h.stage = "stored" => h.id \in Ids
HandlerInv == \A w \in Workers : \A h \in work[w] : HandlerGood(h)
EventInv == \A n \in 1 .. Len(events) : events[n].incident \in Ids

BaseInv == Typing /\ HandlerInv /\ EventInv
-----------------------------------------------------------------------------
LEMMA Append1 ==
  ASSUME NEW S, NEW s \in Seq(S), NEW e \in S
  PROVE  /\ Append(s, e) \in Seq(S)
         /\ Len(s) \in Nat /\ Len(Append(s, e)) = Len(s) + 1
         /\ \A i \in 1 .. Len(s) : Append(s, e)[i] = s[i]
         /\ Append(s, e)[Len(s) + 1] = e
BY AppendProperties, LenProperties

LEMMA Replace1 ==
  ASSUME NEW S, NEW s \in Seq(S), NEW i \in 1 .. Len(s), NEW e \in S
  PROVE  /\ [s EXCEPT ![i] = e] \in Seq(S)
         /\ Len([s EXCEPT ![i] = e]) = Len(s)
         /\ [s EXCEPT ![i] = e][i] = e
         /\ \A j \in 1 .. Len(s) : j # i => [s EXCEPT ![i] = e][j] = s[j]
BY ExceptSeq

LEMMA PriorityType == \A s \in Snapshots : PriorityOf(s) \in Priorities
BY DEF PriorityOf, Prioritize, Priorities

(* What a handler writes.                                                  *)
LEMMA NewRowFacts ==
  ASSUME NEW h \in HandlerSet
  PROVE  /\ NewRow(h) \in RowSet
         /\ NewRow(h).key = h.key /\ NewRow(h).status = h.status
         /\ NewRow(h).snapshot = h.snapshot
         /\ NewRow(h).risk = Risk(h.snapshot)
         /\ NewRow(h).priority = PriorityOf(h.snapshot)
         /\ NewRow(h).title = h.snapshot
         /\ NewRow(h).environment = Payload[h.snapshot].environment
         /\ NewRow(h).openedAt = Payload[h.snapshot].from
BY PriorityType DEF NewRow, RowSet, HandlerSet

LEMMA UpdatedRowFacts ==
  ASSUME NEW h \in HandlerSet, NEW r \in RowSet
  PROVE  /\ UpdatedRow(r, h) \in RowSet
         /\ UpdatedRow(r, h).key = r.key /\ UpdatedRow(r, h).status = h.status
         /\ UpdatedRow(r, h).snapshot = h.snapshot
         /\ UpdatedRow(r, h).risk = Risk(h.snapshot)
         /\ UpdatedRow(r, h).priority = PriorityOf(h.snapshot)
         /\ UpdatedRow(r, h).title = r.title
         /\ UpdatedRow(r, h).environment = r.environment
         /\ UpdatedRow(r, h).openedAt = r.openedAt
BY PriorityType DEF UpdatedRow, RowSet, HandlerSet

(* An upsert writes one row: a new one at the end, or the one it found.    *)
Written(h) == IncidentId(h)
LEMMA UpsertWrites ==
  ASSUME BaseInv, NEW w \in Workers, NEW h \in work[w], h.stage = "found",
         IF h.existing = NoIncident
         THEN rows' = Append(rows, NewRow(h))
         ELSE rows' = [rows EXCEPT ![h.existing] = UpdatedRow(@, h)]
  PROVE  /\ rows' \in Seq(RowSet)
         /\ Len(rows') = Len(rows) + (IF h.existing = NoIncident THEN 1 ELSE 0)
         /\ Written(h) \in 1 .. Len(rows')
         /\ h.existing = NoIncident => Written(h) = Len(rows) + 1
         /\ h.existing # NoIncident => Written(h) = h.existing
         /\ rows'[Written(h)].key = h.key
         /\ rows'[Written(h)].status = h.status
         /\ rows'[Written(h)].snapshot = h.snapshot
         /\ rows'[Written(h)].risk = Risk(h.snapshot)
         /\ rows'[Written(h)].priority = PriorityOf(h.snapshot)
         /\ h.existing = NoIncident =>
              /\ rows'[Written(h)].title = h.snapshot
              /\ rows'[Written(h)].environment = Payload[h.snapshot].environment
              /\ rows'[Written(h)].openedAt = Payload[h.snapshot].from
         /\ h.existing # NoIncident =>
              /\ h.existing \in Ids
              /\ rows'[Written(h)].title = rows[h.existing].title
              /\ rows'[Written(h)].environment = rows[h.existing].environment
              /\ rows'[Written(h)].openedAt = rows[h.existing].openedAt
         /\ \A i \in 1 .. Len(rows) : i # Written(h) => rows'[i] = rows[i]
         /\ \A i \in 1 .. Len(rows) : rows'[i].key = rows[i].key
<1>1. h \in HandlerSet /\ rows \in Seq(RowSet) /\ Len(rows) \in Nat
  BY LenProperties DEF BaseInv, Typing
<1>2. CASE h.existing = NoIncident
  BY <1>1, <1>2, NewRowFacts, Append1 DEF Written, IncidentId
<1>3. CASE h.existing # NoIncident
  <2>1. h.existing \in 1 .. Len(rows) /\ rows[h.existing].key = h.key
    BY <1>3 DEF BaseInv, HandlerInv, HandlerGood, Ids
  <2>2. rows[h.existing] \in RowSet
    BY <1>1, <2>1, ElementOfSeq
  <2>3. rows' = [rows EXCEPT ![h.existing] = UpdatedRow(rows[h.existing], h)]
    BY <1>3
  <2>. QED
    BY <1>1, <1>3, <2>1, <2>2, <2>3, UpdatedRowFacts, Replace1 DEF Written, IncidentId, Ids
<1>. QED
  BY <1>2, <1>3

(* A cluster that a handler works on stays where it is.                    *)
LEMMA DetectKeeps ==
  ASSUME Typing, NEW k \in Keys, NEW s \in Snapshots, Detect(k, s)
  PROVE  /\ log' \in [Keys -> Seq(Snapshots)]
         /\ \A m \in Keys : /\ Len(log[m]) \in Nat /\ Len(log[m]) <= Len(log'[m])
                            /\ Len(log'[m]) \in Nat
                            /\ \A o \in 1 .. Len(log[m]) : log'[m][o] = log[m][o]
<1>1. \A m \in Keys : log[m] \in Seq(Snapshots) /\ Len(log[m]) \in Nat
  BY LenProperties DEF Typing
<1>2. /\ Append(log[k], s) \in Seq(Snapshots) /\ Len(Append(log[k], s)) = Len(log[k]) + 1
      /\ \A o \in 1 .. Len(log[k]) : Append(log[k], s)[o] = log[k][o]
  BY <1>1, Append1
<1>3. log' = [log EXCEPT ![k] = Append(log[k], s)]
  BY DEF Detect
<1>. QED
  BY <1>1, <1>2, <1>3 DEF Typing

(* The handler that Find starts.                                           *)
Started(w, k, existing) ==
  [key |-> k, offset |-> cursor[k] + 1, snapshot |-> log[k][cursor[k] + 1],
   existing |-> existing,
   status |-> IF existing = NoIncident THEN "open" ELSE rows[existing].status,
   id |-> existing, stage |-> "found"]

LEMMA FindStarts ==
  ASSUME BaseInv, NEW w \in Workers, NEW k \in Keys, Find(w, k)
  PROVE  \E existing \in Found(k) :
           /\ work' = [work EXCEPT ![w] = {Started(w, k, existing)}]
           /\ Started(w, k, existing) \in HandlerSet
           /\ HandlerGood(Started(w, k, existing))
           /\ existing # NoIncident => existing \in OpenRows(k)
<1>1. PICK existing \in Found(k) : work' = [work EXCEPT ![w] = {Started(w, k, existing)}]
  BY DEF Find, Started
<1>2. existing = NoIncident \/ existing \in OpenRows(k)
  BY <1>1 DEF Found
<1>3. existing # NoIncident =>
        existing \in Ids /\ rows[existing].key = k /\ rows[existing] \in RowSet
  BY <1>2, ElementOfSeq DEF OpenRows, AllRows, Ids, BaseInv, Typing
<1>4. log[k] \in Seq(Snapshots) /\ Len(log[k]) \in Nat /\ cursor[k] \in Nat
  BY LenProperties DEF BaseInv, Typing
<1>5. cursor[k] + 1 \in 1 .. Len(log[k]) /\ log[k][cursor[k] + 1] \in Snapshots
  BY <1>4, ElementOfSeq DEF Find
<1>6. existing \in Nat
  BY <1>3, LenProperties DEF NoIncident, Ids, BaseInv, Typing
<1>7. (IF existing = NoIncident THEN "open" ELSE rows[existing].status) \in Statuses
  BY <1>3 DEF Statuses, RowSet
<1>8. Started(w, k, existing) \in HandlerSet
  BY <1>4, <1>5, <1>6, <1>7 DEF Started, HandlerSet, Stages
<1>9. HandlerGood(Started(w, k, existing))
  BY <1>3, <1>5 DEF Started, HandlerGood
<1>. QED
  BY <1>1, <1>2, <1>8, <1>9

(* Where partitions are read from again.                                   *)
LEMMA RestartType ==
  ASSUME Typing, NEW S, Restart(S)
  PROVE  cursor' \in [Keys -> Nat] /\ start' \in [Keys -> Nat]
<1>1. \A k \in Keys : /\ Len(log[k]) \in Nat /\ cursor[k] \in Nat /\ start[k] \in Nat
                      /\ committed[k] \in Nat \cup {NoOffset}
  BY LenProperties DEF Typing
<1>. QED
  BY <1>1 DEF Restart

(* What Upsert writes, and the handler g it leaves.                        *)
LEMMA UpsertStores ==
  ASSUME BaseInv, NEW w \in Workers, Upsert(w)
  PROVE  \E h \in work[w], g \in HandlerSet :
           /\ h.stage = "found" /\ work[w] = {h} /\ h \in HandlerSet
           /\ IF h.existing = NoIncident
              THEN rows' = Append(rows, NewRow(h))
              ELSE rows' = [rows EXCEPT ![h.existing] = UpdatedRow(@, h)]
           /\ work' = [work EXCEPT ![w] = {g}]
           /\ written' = written \cup {<<h.key, h.offset, g.id>>}
           /\ UNCHANGED <<queue, events, bounds, dropped, overlaps>>
           /\ g.id = Written(h) /\ g.stage = "stored" /\ g.key = h.key
           /\ g.offset = h.offset /\ g.snapshot = h.snapshot
           /\ g.existing = h.existing /\ g.status = h.status
<1>1. PICK h \in work[w] :
        /\ h.stage = "found"
        /\ IF h.existing = NoIncident
           THEN rows' = Append(rows, NewRow(h))
           ELSE rows' = [rows EXCEPT ![h.existing] = UpdatedRow(@, h)]
        /\ work' = [work EXCEPT ![w] = {[h EXCEPT !.id = IncidentId(h), !.stage = "stored"]}]
        /\ written' = written \cup {<<h.key, h.offset, IncidentId(h)>>}
        /\ UNCHANGED <<queue, events, bounds, dropped, overlaps>>
  BY DEF Upsert
<1>. DEFINE g == [h EXCEPT !.id = IncidentId(h), !.stage = "stored"]
<1>2. h \in HandlerSet /\ work[w] = {h}
  BY <1>1 DEF BaseInv, Typing
<1>3. IncidentId(h) \in Nat
  BY <1>2, LenProperties DEF IncidentId, HandlerSet, BaseInv, Typing
<1>4. /\ g \in HandlerSet
      /\ g.id = Written(h) /\ g.stage = "stored" /\ g.key = h.key
      /\ g.offset = h.offset /\ g.snapshot = h.snapshot
      /\ g.existing = h.existing /\ g.status = h.status
  BY <1>2, <1>3 DEF HandlerSet, Stages, Written
<1>5. work' = [work EXCEPT ![w] = {g}]
  BY <1>1
<1>6. written' = written \cup {<<h.key, h.offset, g.id>>}
  BY <1>1, <1>4 DEF Written
<1>. HIDE DEF g
<1>. QED
  BY <1>1, <1>2, <1>4, <1>5, <1>6

(* An edit changes a status, and nothing else that anybody relies on.      *)
LEMMA EditWrites ==
  ASSUME Typing, NEW i \in 1 .. Len(rows), NEW status \in EditStatuses, Edit(i, status)
  PROVE  /\ rows' \in Seq(RowSet) /\ Len(rows') = Len(rows)
         /\ \A j \in 1 .. Len(rows) :
              /\ rows'[j].key = rows[j].key /\ rows'[j].snapshot = rows[j].snapshot
              /\ rows'[j].risk = rows[j].risk /\ rows'[j].priority = rows[j].priority
              /\ rows'[j].title = rows[j].title /\ rows'[j].openedAt = rows[j].openedAt
              /\ rows'[j].environment = rows[j].environment
              /\ rows[j].status = "closed" => rows'[j].status = "closed"
<1>. DEFINE row == [rows[i] EXCEPT !.status = status, !.closedAt = (status = "closed")]
<1>1. rows[i] \in RowSet
  BY ElementOfSeq DEF Typing
<1>2. /\ row \in RowSet
      /\ row.key = rows[i].key /\ row.snapshot = rows[i].snapshot
      /\ row.risk = rows[i].risk /\ row.priority = rows[i].priority
      /\ row.title = rows[i].title /\ row.openedAt = rows[i].openedAt
      /\ row.environment = rows[i].environment
  BY <1>1, IncidentAssumption DEF RowSet
<1>3. rows' = [rows EXCEPT ![i] = row]
  <2>1. rows \in [1 .. Len(rows) -> RowSet]
    BY LenProperties DEF Typing
  <2>. QED
    BY <2>1, <1>1 DEF Edit, RowSet
<1>. HIDE DEF row
<1>4. rows[i].status # "closed"
  BY DEF Edit
<1>. QED
  BY <1>2, <1>3, <1>4, Replace1 DEF Typing
-----------------------------------------------------------------------------
LEMMA BaseStart == Init => BaseInv
<1>. SUFFICES ASSUME Init PROVE BaseInv
  OBVIOUS
<1>1. <<>> \in Seq(Snapshots) /\ <<>> \in Seq(RowSet) /\ <<>> \in Seq(EventSet) /\ Len(<<>>) = 0
  BY EmptySeq
<1>. QED
  BY <1>1, IncidentAssumption DEF Init, BaseInv, Typing, HandlerInv, EventInv, NoOffset

(* Handlers that nobody touches stay good as long as logs and table only   *)
(* grow and no row changes its key.                                        *)
LEMMA GoodStays ==
  ASSUME BaseInv, NEW w \in Workers, NEW h \in work[w],
         log[h.key] \in Seq(Snapshots), Len(log'[h.key]) \in Nat,
         Len(log[h.key]) <= Len(log'[h.key]),
         \A o \in 1 .. Len(log[h.key]) : log'[h.key][o] = log[h.key][o],
         Len(rows') \in Nat, Len(rows) <= Len(rows'),
         \A i \in 1 .. Len(rows) : rows'[i].key = rows[i].key
  PROVE  HandlerGood(h)'
<1>1. HandlerGood(h)
  BY DEF BaseInv, HandlerInv
<1>2. Len(log[h.key]) \in Nat /\ Len(rows) \in Nat
  BY LenProperties DEF BaseInv, Typing
<1>3. \A o \in 1 .. Len(log[h.key]) : o \in 1 .. Len(log'[h.key])
  BY <1>2
<1>4. Ids \subseteq Ids'
  BY <1>2 DEF Ids
<1>5. h.offset \in 1 .. Len(log'[h.key]) /\ h.snapshot = log'[h.key][h.offset]
  BY <1>1, <1>3 DEF HandlerGood
<1>6. h.existing # NoIncident => h.existing \in Ids' /\ rows'[h.existing].key = h.key
  BY <1>1, <1>4 DEF HandlerGood, Ids
<1>7. (h.stage = "found" => h.id = h.existing) /\ (h.stage = "stored" => h.id \in Ids')
  BY <1>1, <1>4 DEF HandlerGood
<1>. QED
  BY <1>5, <1>6, <1>7 DEF HandlerGood

LEMMA BaseStep == BaseInv /\ [Next]_vars => BaseInv'
<1>. SUFFICES ASSUME BaseInv, [Next]_vars PROVE BaseInv'
  OBVIOUS
<1>. USE DEF queue, bounds, history
<1>0. /\ \A k \in Keys : log[k] \in Seq(Snapshots) /\ Len(log[k]) \in Nat
      /\ Len(rows) \in Nat /\ \A w \in Workers : \A h \in work[w] : h \in HandlerSet /\ h.key \in Keys
  BY LenProperties DEF BaseInv, Typing, HandlerSet
<1>1. ASSUME NEW k \in Keys, NEW s \in Snapshots, Detect(k, s) PROVE BaseInv'
  <2>1. UNCHANGED <<owner, cursor, committed, start, work, rows, events, failures, edits,
                    overlaps>>
    BY <1>1 DEF Detect
  <2>2. Typing'
    BY <1>1, <2>1, DetectKeeps DEF BaseInv, Typing
  <2>3. ASSUME NEW w \in Workers, NEW h \in work[w] PROVE HandlerGood(h)'
    <3>1. /\ h.key \in Keys /\ log[h.key] \in Seq(Snapshots) /\ Len(log'[h.key]) \in Nat
          /\ Len(log[h.key]) <= Len(log'[h.key])
          /\ \A o \in 1 .. Len(log[h.key]) : log'[h.key][o] = log[h.key][o]
      BY <1>0, <1>1, DetectKeeps DEF BaseInv
    <3>2. /\ Len(rows') \in Nat /\ Len(rows) <= Len(rows')
          /\ \A i \in 1 .. Len(rows) : rows'[i].key = rows[i].key
      BY <1>0, <2>1
    <3>. QED
      BY <3>1, <3>2, GoodStays
  <2>. QED
    BY <2>1, <2>2, <2>3 DEF BaseInv, HandlerInv, EventInv, Ids
<1>2. ASSUME NEW w \in Workers, NEW k \in Keys, Find(w, k) PROVE BaseInv'
  <2>1. PICK existing \in Found(k) :
          /\ work' = [work EXCEPT ![w] = {Started(w, k, existing)}]
          /\ Started(w, k, existing) \in HandlerSet
          /\ HandlerGood(Started(w, k, existing))
    BY <1>2, FindStarts
  <2>2. UNCHANGED <<log, owner, cursor, committed, start, rows, events, failures, edits,
                    overlaps>>
    BY <1>2 DEF Find
  <2>. HIDE DEF Started
  <2>3. Typing'
    BY <2>1, <2>2 DEF BaseInv, Typing
  <2>4. \A h \in HandlerSet : HandlerGood(h) => HandlerGood(h)'
    BY <2>2 DEF HandlerGood, Ids
  <2>5. HandlerInv'
    BY <1>0, <2>1, <2>4 DEF BaseInv, Typing, HandlerInv
  <2>. QED
    BY <2>2, <2>3, <2>5 DEF BaseInv, EventInv, Ids
<1>3. ASSUME NEW w \in Workers, Upsert(w) PROVE BaseInv'
  <2>1. PICK h \in work[w], g \in HandlerSet :
          /\ h.stage = "found" /\ work[w] = {h} /\ h \in HandlerSet
          /\ IF h.existing = NoIncident
             THEN rows' = Append(rows, NewRow(h))
             ELSE rows' = [rows EXCEPT ![h.existing] = UpdatedRow(@, h)]
          /\ work' = [work EXCEPT ![w] = {g}]
          /\ UNCHANGED <<queue, events, bounds, dropped, overlaps>>
          /\ g.id = Written(h) /\ g.stage = "stored" /\ g.key = h.key
          /\ g.offset = h.offset /\ g.snapshot = h.snapshot /\ g.existing = h.existing
    BY <1>3, UpsertStores
  <2>2. /\ rows' \in Seq(RowSet) /\ Len(rows') \in Nat /\ Len(rows) <= Len(rows')
        /\ g.id \in 1 .. Len(rows')
        /\ \A i \in 1 .. Len(rows) : rows'[i].key = rows[i].key
    <3>1. /\ rows' \in Seq(RowSet)
          /\ Len(rows') = Len(rows) + (IF h.existing = NoIncident THEN 1 ELSE 0)
          /\ Written(h) \in 1 .. Len(rows')
          /\ \A i \in 1 .. Len(rows) : rows'[i].key = rows[i].key
      BY <2>1, UpsertWrites
    <3>. QED
      BY <1>0, <2>1, <3>1
  <2>3. Typing'
    BY <2>1, <2>2 DEF BaseInv, Typing
  <2>4. ASSUME NEW v \in Workers, NEW f \in work[v] PROVE HandlerGood(f)'
    BY <1>0, <2>1, <2>2, GoodStays
  <2>5. HandlerGood(g)'
    <3>1. HandlerGood(h)
      BY <2>1 DEF BaseInv, HandlerInv
    <3>. QED
      BY <1>0, <2>1, <2>2, <3>1 DEF HandlerGood, Ids
  <2>6. HandlerInv'
    BY <2>1, <2>4, <2>5 DEF BaseInv, Typing, HandlerInv
  <2>7. EventInv'
    BY <1>0, <2>1, <2>2 DEF BaseInv, EventInv, Ids
  <2>. QED
    BY <2>3, <2>6, <2>7 DEF BaseInv
<1>4. ASSUME NEW w \in Workers, Announce(w) PROVE BaseInv'
  <2>1. PICK h \in work[w] :
          /\ h.stage = "stored"
          /\ events' = Append(events, [type |-> EventType(h), incident |-> h.id])
          /\ work' = [work EXCEPT ![w] = {}]
          /\ Resolve(w, h)
          /\ UNCHANGED <<log, owner, committed, start, rows, bounds, dropped, written,
                         overlaps>>
    BY <1>4 DEF Announce
  <2>2. [type |-> EventType(h), incident |-> h.id] \in EventSet
    BY <1>0 DEF EventType, EventSet, HandlerSet
  <2>3. cursor' \in [Keys -> Nat]
    BY <1>0, <2>1 DEF Resolve, BaseInv, Typing, HandlerSet
  <2>4. /\ events' \in Seq(EventSet) /\ Len(events') = Len(events) + 1 /\ Len(events) \in Nat
        /\ \A n \in 1 .. Len(events) : events'[n] = events[n]
        /\ events'[Len(events) + 1] = [type |-> EventType(h), incident |-> h.id]
    BY <2>1, <2>2, Append1 DEF BaseInv, Typing
  <2>5. Typing'
    BY <2>1, <2>3, <2>4 DEF BaseInv, Typing
  <2>6. HandlerInv'
    BY <2>1 DEF BaseInv, Typing, HandlerInv, HandlerGood, Ids
  <2>7. h.id \in Ids
    BY <2>1 DEF BaseInv, HandlerInv, HandlerGood
  <2>8. EventInv'
    BY <2>1, <2>4, <2>7 DEF BaseInv, EventInv, Ids
  <2>. QED
    BY <2>5, <2>6, <2>8 DEF BaseInv
<1>5. ASSUME NEW w \in Workers, Fail(w) PROVE BaseInv'
  <2>1. PICK h \in work[w] :
          /\ failures' = failures + 1 /\ work' = [work EXCEPT ![w] = {}] /\ Resolve(w, h)
          /\ UNCHANGED <<log, owner, committed, start, rows, events, rebalances, edits,
                         written, overlaps>>
    BY <1>5 DEF Fail
  <2>2. cursor' \in [Keys -> Nat]
    BY <1>0, <2>1 DEF Resolve, BaseInv, Typing, HandlerSet
  <2>3. Typing'
    BY <2>1, <2>2 DEF BaseInv, Typing
  <2>. QED
    BY <2>1, <2>3 DEF BaseInv, Typing, HandlerInv, HandlerGood, EventInv, Ids
<1>6. ASSUME NEW w \in Workers, Crash(w) PROVE BaseInv'
  <2>1. Typing'
    <3>1. cursor' \in [Keys -> Nat] /\ start' \in [Keys -> Nat]
      BY <1>6, RestartType DEF Crash, BaseInv
    <3>. QED
      BY <1>6, <3>1 DEF Crash, BaseInv, Typing
  <2>. QED
    BY <1>6, <2>1 DEF Crash, BaseInv, Typing, HandlerInv, HandlerGood, EventInv, Ids
<1>7. ASSUME NEW k \in Keys, Commit(k) PROVE BaseInv'
  <2>1. Typing'
    BY <1>7 DEF Commit, BaseInv, Typing
  <2>. QED
    BY <1>7, <2>1 DEF Commit, BaseInv, HandlerInv, HandlerGood, EventInv, Ids
<1>8. ASSUME NEW k \in Keys, NEW w \in Workers, Rebalance(k, w) PROVE BaseInv'
  <2>1. Typing'
    <3>1. cursor' \in [Keys -> Nat] /\ start' \in [Keys -> Nat]
      BY <1>8, RestartType DEF Rebalance, BaseInv
    <3>2. overlaps' \in Nat /\ owner' \in [Keys -> Workers]
      BY <1>8 DEF Rebalance, BaseInv, Typing
    <3>3. UNCHANGED <<log, committed, work, rows, events, failures, edits>>
      BY <1>8 DEF Rebalance
    <3>. QED
      BY <3>1, <3>2, <3>3 DEF BaseInv, Typing
  <2>. QED
    BY <1>8, <2>1 DEF Rebalance, BaseInv, HandlerInv, HandlerGood, EventInv, Ids
<1>9. ASSUME NEW i \in 1 .. Len(rows), NEW status \in EditStatuses, Edit(i, status)
      PROVE  BaseInv'
  <2>1. /\ rows' \in Seq(RowSet) /\ Len(rows') = Len(rows)
        /\ \A j \in 1 .. Len(rows) : rows'[j].key = rows[j].key
    BY <1>9, EditWrites DEF BaseInv
  <2>2. /\ UNCHANGED <<log, owner, cursor, committed, start, work, events, failures,
                       overlaps>>
        /\ edits' = edits + 1
    BY <1>9 DEF Edit
  <2>3. Typing'
    BY <2>1, <2>2 DEF BaseInv, Typing
  <2>4. ASSUME NEW v \in Workers, NEW g \in work[v] PROVE HandlerGood(g)'
    BY <1>0, <2>1, <2>2, GoodStays
  <2>. QED
    BY <2>1, <2>2, <2>3, <2>4 DEF BaseInv, HandlerInv, EventInv, Ids
<1>10. CASE UNCHANGED vars
  BY <1>10 DEF vars, BaseInv, Typing, HandlerInv, HandlerGood, EventInv, Ids
<1>. QED
  BY <1>1, <1>2, <1>3, <1>4, <1>5, <1>6, <1>7, <1>8, <1>9, <1>10 DEF Next

LEMMA BaseInvariant == Spec => []BaseInv
<1>1. Init => BaseInv
  BY BaseStart
<1>2. BaseInv /\ [Next]_vars => BaseInv'
  BY BaseStep
<1>. QED
  BY <1>1, <1>2, PTL DEF Spec

(* TypeOK: every handler works on a cluster that was published under its   *)
(* key, and no event names an incident that is not in the table.           *)
THEOREM TypeCorrect == Spec => []TypeOK
<1>1. BaseInv => TypeOK
  <2>. SUFFICES ASSUME BaseInv PROVE TypeOK
    OBVIOUS
  <2>1. \A k \in Keys : \A o \in 1 .. Len(log[k]) : log[k][o] \in Snapshots
    BY ElementOfSeq DEF BaseInv, Typing
  <2>2. ASSUME NEW h \in Handlers PROVE HandlerOK(h)
    <3>1. h \in HandlerSet /\ HandlerGood(h)
      BY DEF BaseInv, Typing, HandlerInv, Handlers
    <3>2. /\ h.key \in Keys /\ h.snapshot \in Snapshots /\ h.existing \in Nat /\ h.id \in Nat
          /\ h.status \in Statuses /\ h.stage \in Stages
      BY <3>1 DEF HandlerSet
    <3>3. h.stage \in {"found", "stored"}
      BY <3>2 DEF Stages
    <3>4. h.existing \in Ids \cup {NoIncident}
      BY <3>1 DEF HandlerGood
    <3>5. h.id \in Ids \cup {NoIncident}
      BY <3>1, <3>3, <3>4 DEF HandlerGood
    <3>. QED
      BY <3>1, <3>2, <3>3, <3>4, <3>5 DEF HandlerGood, HandlerOK
  <2>3. \A i \in Ids : rows[i] \in RowSet
    BY ElementOfSeq DEF BaseInv, Typing, Ids
  <2>4. \A i \in Ids : RowOK(rows[i])
    BY <2>3 DEF RowSet, RowOK
  <2>5. \A n \in 1 .. Len(events) : events[n] \in EventSet
    BY ElementOfSeq DEF BaseInv, Typing
  <2>6. \A n \in 1 .. Len(events) : /\ events[n].type \in {"created", "updated"}
                                    /\ events[n].incident \in Ids
    <3>1. \A n \in 1 .. Len(events) : events[n].incident \in Ids
      BY DEF BaseInv, EventInv
    <3>2. \A e \in EventSet : e.type \in {"created", "updated"}
      BY DEF EventSet
    <3>. QED
      BY <2>5, <3>1, <3>2
  <2>. QED
    BY <2>1, <2>2, <2>4, <2>6 DEF BaseInv, Typing, TypeOK
<1>. QED
  BY <1>1, BaseInvariant, PTL
-----------------------------------------------------------------------------
(* RowsShowTheirStory, row by row.                                         *)
Titled(i) == \E o \in 1 .. Len(log[rows[i].key]) : TitledBy(i, o)
Rated(i) == \E o \in 1 .. Len(log[rows[i].key]) : RatedBy(i, o)
Story(i) == Titled(i) /\ Rated(i)

(* A row keeps its opener as long as it keeps title, environment and       *)
(* opening time, and its evidence as long as it keeps that.                *)
LEMMA StoryStays ==
  ASSUME BaseInv, NEW i \in Ids, rows'[i].key = rows[i].key, written \subseteq written',
         \A k \in Keys : /\ Len(log[k]) \in Nat /\ Len(log'[k]) \in Nat
                         /\ Len(log[k]) <= Len(log'[k])
                         /\ \A o \in 1 .. Len(log[k]) : log'[k][o] = log[k][o]
  PROVE  /\ Titled(i) /\ rows'[i].title = rows[i].title
              /\ rows'[i].environment = rows[i].environment
              /\ rows'[i].openedAt = rows[i].openedAt => Titled(i)'
         /\ Rated(i) /\ rows'[i].snapshot = rows[i].snapshot
              /\ rows'[i].risk = rows[i].risk /\ rows'[i].priority = rows[i].priority => Rated(i)'
<1>1. rows[i].key \in Keys
  <2>1. rows[i] \in RowSet
    BY ElementOfSeq DEF BaseInv, Typing, Ids
  <2>. QED
    BY <2>1 DEF RowSet
<1>2. \A o \in 1 .. Len(log[rows[i].key]) :
        o \in 1 .. Len(log'[rows'[i].key]) /\ log'[rows'[i].key][o] = log[rows[i].key][o]
  BY <1>1
<1>3. \A s : Risk(s)' = Risk(s) /\ PriorityOf(s)' = PriorityOf(s)
  BY DEF Risk, PriorityOf
<1>4. ASSUME Titled(i), rows'[i].title = rows[i].title,
             rows'[i].environment = rows[i].environment,
             rows'[i].openedAt = rows[i].openedAt
      PROVE  Titled(i)'
  <2>1. PICK o \in 1 .. Len(log[rows[i].key]) : TitledBy(i, o)
    BY <1>4 DEF Titled
  <2>2. TitledBy(i, o)'
    BY <1>2, <1>4, <2>1 DEF TitledBy
  <2>. QED
    BY <1>2, <2>1, <2>2 DEF Titled
<1>5. ASSUME Rated(i), rows'[i].snapshot = rows[i].snapshot,
             rows'[i].risk = rows[i].risk, rows'[i].priority = rows[i].priority
      PROVE  Rated(i)'
  <2>1. PICK o \in 1 .. Len(log[rows[i].key]) : RatedBy(i, o)
    BY <1>5 DEF Rated
  <2>2. RatedBy(i, o)'
    BY <1>2, <1>3, <1>5, <2>1 DEF RatedBy, Risk, PriorityOf
  <2>. QED
    BY <1>2, <2>1, <2>2 DEF Rated
<1>. QED
  BY <1>4, <1>5

LEMMA StoryStep == BaseInv /\ BaseInv' /\ RowsShowTheirStory /\ [Next]_vars
                     => RowsShowTheirStory'
<1>. SUFFICES ASSUME BaseInv, BaseInv', RowsShowTheirStory, [Next]_vars
              PROVE  RowsShowTheirStory'
  OBVIOUS
<1>. USE DEF queue, bounds, history
<1>0. /\ \A k \in Keys : Len(log[k]) \in Nat /\ Len(log'[k]) \in Nat
      /\ Len(rows) \in Nat
      /\ \A i \in Ids : Story(i)
  BY LenProperties DEF BaseInv, Typing, RowsShowTheirStory, Story, Titled, Rated
<1>1. ASSUME NEW k \in Keys, NEW s \in Snapshots, Detect(k, s) PROVE RowsShowTheirStory'
  <2>1. UNCHANGED <<rows, written>>
    BY <1>1 DEF Detect
  <2>2. \A i \in Ids : Story(i)'
    BY <1>0, <1>1, <2>1, DetectKeeps, StoryStays DEF BaseInv, Story
  <2>. QED
    BY <2>1, <2>2 DEF RowsShowTheirStory, Story, Titled, Rated, Ids
<1>2. ASSUME NEW w \in Workers, Upsert(w) PROVE RowsShowTheirStory'
  <2>1. PICK h \in work[w], g \in HandlerSet :
          /\ h.stage = "found" /\ h \in HandlerSet
          /\ IF h.existing = NoIncident
             THEN rows' = Append(rows, NewRow(h))
             ELSE rows' = [rows EXCEPT ![h.existing] = UpdatedRow(@, h)]
          /\ written' = written \cup {<<h.key, h.offset, g.id>>}
          /\ log' = log /\ g.id = Written(h)
    BY <1>2, UpsertStores
  <2>2. /\ Len(rows') = Len(rows) + (IF h.existing = NoIncident THEN 1 ELSE 0)
        /\ h.existing = NoIncident => g.id = Len(rows) + 1
        /\ rows'[g.id].key = h.key /\ rows'[g.id].snapshot = h.snapshot
        /\ rows'[g.id].risk = Risk(h.snapshot)
        /\ rows'[g.id].priority = PriorityOf(h.snapshot)
        /\ h.existing = NoIncident =>
             /\ rows'[g.id].title = h.snapshot
             /\ rows'[g.id].environment = Payload[h.snapshot].environment
             /\ rows'[g.id].openedAt = Payload[h.snapshot].from
        /\ h.existing # NoIncident =>
             /\ h.existing \in Ids /\ g.id = h.existing
             /\ rows'[g.id].title = rows[h.existing].title
             /\ rows'[g.id].environment = rows[h.existing].environment
             /\ rows'[g.id].openedAt = rows[h.existing].openedAt
        /\ \A i \in 1 .. Len(rows) : i # g.id => rows'[i] = rows[i]
        /\ \A i \in 1 .. Len(rows) : rows'[i].key = rows[i].key
    BY <2>1, UpsertWrites
  <2>3. h.offset \in 1 .. Len(log[h.key]) /\ h.snapshot = log[h.key][h.offset]
    BY <2>1 DEF BaseInv, HandlerInv, HandlerGood
  <2>4. Story(g.id)'
    <3>1. RatedBy(g.id, h.offset)'
      BY <2>1, <2>2, <2>3 DEF RatedBy, Risk, PriorityOf
    <3>2. h.offset \in 1 .. Len(log'[rows'[g.id].key])
      BY <2>1, <2>2, <2>3
    <3>3. CASE h.existing = NoIncident
      <4>1. TitledBy(g.id, h.offset)'
        BY <2>1, <2>2, <2>3, <3>3 DEF TitledBy
      <4>. QED
        BY <3>1, <3>2, <4>1 DEF Story, Titled, Rated
    <3>4. CASE h.existing # NoIncident
      <4>1. Titled(g.id)'
        BY <1>0, <2>1, <2>2, <3>4, StoryStays DEF Story, Ids
      <4>. QED
        BY <3>1, <3>2, <4>1 DEF Story, Rated
    <3>. QED
      BY <3>3, <3>4
  <2>5. ASSUME NEW i \in Ids', i # g.id PROVE Story(i)'
    <3>1. i \in Ids /\ rows'[i] = rows[i]
      BY <1>0, <2>2, <2>5 DEF Ids
    <3>. QED
      BY <1>0, <2>1, <3>1, StoryStays DEF Story
  <2>. QED
    BY <2>4, <2>5 DEF RowsShowTheirStory, Story, Titled, Rated
<1>3. ASSUME NEW i \in 1 .. Len(rows), NEW status \in EditStatuses, Edit(i, status)
      PROVE  RowsShowTheirStory'
  <2>1. /\ Len(rows') = Len(rows)
        /\ \A j \in 1 .. Len(rows) :
             /\ rows'[j].key = rows[j].key /\ rows'[j].snapshot = rows[j].snapshot
             /\ rows'[j].risk = rows[j].risk /\ rows'[j].priority = rows[j].priority
             /\ rows'[j].title = rows[j].title /\ rows'[j].openedAt = rows[j].openedAt
             /\ rows'[j].environment = rows[j].environment
    BY <1>3, EditWrites DEF BaseInv
  <2>2. log' = log /\ written' = written
    BY <1>3 DEF Edit
  <2>3. \A j \in Ids : Story(j)'
    BY <1>0, <2>1, <2>2, StoryStays DEF Story, Ids
  <2>. QED
    BY <2>1, <2>3 DEF RowsShowTheirStory, Story, Titled, Rated, Ids
<1>4. ASSUME log' = log, rows' = rows, written' = written PROVE RowsShowTheirStory'
  BY <1>4 DEF RowsShowTheirStory, TitledBy, RatedBy, Ids
<1>5. ASSUME NEW w \in Workers, \/ \E k \in Keys : Find(w, k)
                                \/ Announce(w) \/ Fail(w) \/ Crash(w)
      PROVE  RowsShowTheirStory'
  BY <1>4, <1>5 DEF Find, Announce, Fail, Crash
<1>6. ASSUME NEW k \in Keys, Commit(k) \/ \E w \in Workers : Rebalance(k, w)
      PROVE  RowsShowTheirStory'
  BY <1>4, <1>6 DEF Commit, Rebalance
<1>7. CASE UNCHANGED vars
  BY <1>4, <1>7 DEF vars
<1>. QED
  BY <1>1, <1>2, <1>3, <1>5, <1>6, <1>7 DEF Next

(* RowsShowTheirStory: whatever replicas, crashes, redeliveries and edits  *)
(* interleave, title, environment and opening time of a row are those of   *)
(* one cluster of its key that was written to it, and evidence, risk and   *)
(* priority those of one such cluster, possibly another.                   *)
THEOREM StoriesAreWhole == Spec => []RowsShowTheirStory
<1>1. Init => RowsShowTheirStory
  BY DEF Init, RowsShowTheirStory, Ids
<1>. QED
  BY <1>1, BaseInvariant, StoryStep, PTL DEF Spec
-----------------------------------------------------------------------------
(* A handler that wrote a new incident and has not announced it yet.       *)
Opened(h) == h.stage = "stored" /\ h.existing = NoIncident
Announced(i) == \E n \in 1 .. Len(events) : events[n] = [type |-> "created", incident |-> i]

CreatedInv ==
  /\ \A w \in Workers : \A h \in work[w] : Opened(h) => ~Announced(h.id)
  /\ \A v, w \in Workers : \A g \in work[v], h \in work[w] :
       Opened(g) /\ Opened(h) /\ g.id = h.id => v = w
  /\ CreatedAtMostOnce

(* A handler announces an incident as created only when it opened it.      *)
LEMMA AnnounceTells ==
  ASSUME BaseInv, NEW w \in Workers, Announce(w)
  PROVE  \E h \in work[w] :
           /\ h.stage = "stored" /\ work[w] = {h} /\ work' = [work EXCEPT ![w] = {}]
           /\ rows' = rows /\ failures' = failures
           /\ Len(events') = Len(events) + 1 /\ Len(events) \in Nat
           /\ \A n \in 1 .. Len(events) : events'[n] = events[n]
           /\ events'[Len(events) + 1] = [type |-> EventType(h), incident |-> h.id]
           /\ EventType(h) = "created" <=> Opened(h)
<1>1. PICK h \in work[w] :
        /\ h.stage = "stored" /\ work' = [work EXCEPT ![w] = {}]
        /\ events' = Append(events, [type |-> EventType(h), incident |-> h.id])
        /\ rows' = rows /\ failures' = failures
  BY DEF Announce, bounds
<1>2. h \in HandlerSet /\ work[w] = {h}
  BY <1>1 DEF BaseInv, Typing
<1>3. [type |-> EventType(h), incident |-> h.id] \in EventSet
  BY <1>2 DEF EventType, EventSet, HandlerSet
<1>4. EventType(h) = "created" <=> Opened(h)
  BY <1>1 DEF EventType, Opened
<1>. QED
  BY <1>1, <1>2, <1>3, <1>4, Append1 DEF BaseInv, Typing

(* Any other step but an upsert starts or ends handlers and opens nothing. *)
LEMMA OthersOpenNothing ==
  ASSUME BaseInv, [Next]_vars, \A w \in Workers : ~Upsert(w) /\ ~Announce(w)
  PROVE  /\ events' = events /\ Len(rows') = Len(rows)
         /\ \A w \in Workers : \A h \in work'[w] : Opened(h) => h \in work[w]
         /\ \/ failures' = failures
               /\ \A w \in Workers : \A h \in work[w] : Opened(h) => h \in work'[w]
            \/ failures' = failures + 1
<1>. USE DEF queue, bounds, history
<1>1. ASSUME NEW w \in Workers, NEW k \in Keys, Find(w, k)
      PROVE  /\ \A v \in Workers : \A h \in work'[v] : Opened(h) => h \in work[v]
             /\ \A v \in Workers : \A h \in work[v] : h \in work'[v]
  <2>1. PICK existing \in Found(k) :
          work' = [work EXCEPT ![w] = {Started(w, k, existing)}]
    BY <1>1, FindStarts
  <2>2. ~Opened(Started(w, k, existing)) /\ work[w] = {}
    BY <1>1 DEF Started, Opened, Find
  <2>. HIDE DEF Started, Opened
  <2>. QED
    BY <2>1, <2>2 DEF BaseInv, Typing
<1>2. ASSUME NEW w \in Workers, Fail(w) \/ Crash(w)
      PROVE  /\ failures' = failures + 1 /\ work' = [work EXCEPT ![w] = {}]
             /\ events' = events /\ rows' = rows
  BY <1>2 DEF Fail, Crash
<1>3. ASSUME NEW i \in 1 .. Len(rows), NEW status \in EditStatuses, Edit(i, status)
      PROVE  Len(rows') = Len(rows) /\ UNCHANGED <<work, events, failures>>
  BY <1>3, EditWrites DEF BaseInv, Edit
<1>4. ASSUME NEW w \in Workers, Fail(w) \/ Crash(w)
      PROVE  \A v \in Workers : \A h \in work'[v] : h \in work[v]
  <2>1. work' = [work EXCEPT ![w] = {}]
    BY <1>2, <1>4
  <2>2. work \in [Workers -> SUBSET HandlerSet]
    BY DEF BaseInv, Typing
  <2>. QED
    BY <2>1, <2>2
<1>5. ASSUME NEW w \in Workers, NEW k \in Keys, Find(w, k)
      PROVE  UNCHANGED <<events, rows, failures>>
  BY <1>5 DEF Find
<1>6. ASSUME NEW k \in Keys, \/ Commit(k)
                             \/ \E s \in Snapshots : Detect(k, s)
                             \/ \E w \in Workers : Rebalance(k, w)
      PROVE  UNCHANGED <<events, rows, failures, work>>
  BY <1>6 DEF Detect, Commit, Rebalance
<1>. QED
  BY <1>1, <1>2, <1>3, <1>4, <1>5, <1>6 DEF Next, vars

LEMMA CreatedStep == BaseInv /\ CreatedInv /\ [Next]_vars => CreatedInv'
<1>. SUFFICES ASSUME BaseInv, CreatedInv, [Next]_vars PROVE CreatedInv'
  OBVIOUS
<1>1. CASE \A w \in Workers : ~Upsert(w) /\ ~Announce(w)
  <2>1. /\ events' = events
        /\ \A w \in Workers : \A h \in work'[w] : Opened(h) => h \in work[w]
    BY <1>1, OthersOpenNothing
  <2>. QED
    BY <2>1 DEF CreatedInv, CreatedAtMostOnce, Opened, Announced
<1>2. ASSUME NEW w \in Workers, Upsert(w) PROVE CreatedInv'
  <2>1. PICK h \in work[w], g \in HandlerSet :
          /\ h.stage = "found" /\ h \in HandlerSet
          /\ IF h.existing = NoIncident
             THEN rows' = Append(rows, NewRow(h))
             ELSE rows' = [rows EXCEPT ![h.existing] = UpdatedRow(@, h)]
          /\ work' = [work EXCEPT ![w] = {g}]
          /\ events' = events /\ g.id = Written(h) /\ g.existing = h.existing
    BY <1>2, UpsertStores
  <2>2. h.existing = NoIncident => g.id = Len(rows) + 1
    BY <2>1, UpsertWrites
  <2>3. /\ Len(rows) \in Nat
        /\ \A n \in 1 .. Len(events) : events[n].incident \in Ids
        /\ \A v \in Workers : \A f \in work[v] : Opened(f) => f.id \in Ids
    BY LenProperties DEF BaseInv, Typing, EventInv, HandlerInv, HandlerGood, Opened
  <2>4. Opened(g) => ~Announced(g.id) /\ \A v \in Workers : \A f \in work[v] :
                                           Opened(f) => f.id # g.id
    BY <2>1, <2>2, <2>3 DEF Opened, Announced, Ids
  <2>. QED
    BY <2>1, <2>4 DEF CreatedInv, CreatedAtMostOnce, Opened, Announced, BaseInv, Typing
<1>3. ASSUME NEW w \in Workers, Announce(w) PROVE CreatedInv'
  <2>1. PICK h \in work[w] :
          /\ h.stage = "stored" /\ work' = [work EXCEPT ![w] = {}]
          /\ Len(events') = Len(events) + 1 /\ Len(events) \in Nat
          /\ \A n \in 1 .. Len(events) : events'[n] = events[n]
          /\ events'[Len(events) + 1] = [type |-> EventType(h), incident |-> h.id]
          /\ EventType(h) = "created" <=> Opened(h)
    BY <1>3, AnnounceTells
  <2>2. \A n \in 1 .. Len(events) : events[n].type = "created" =>
          events[n] = [type |-> "created", incident |-> events[n].incident]
    <3>1. \A n \in 1 .. Len(events) : events[n] \in EventSet
      BY ElementOfSeq DEF BaseInv, Typing
    <3>. QED
      BY <3>1 DEF EventSet
  <2>3. Opened(h) => \A n \in 1 .. Len(events) :
                       ~(events[n].type = "created" /\ events[n].incident = h.id)
    BY <2>2 DEF CreatedInv, Announced
  <2>4. CreatedAtMostOnce'
    BY <2>1, <2>3 DEF CreatedInv, CreatedAtMostOnce
  <2>5. \A v \in Workers : \A f \in work'[v] : f \in work[v] /\ v # w
    BY <2>1 DEF BaseInv, Typing
  <2>6. \A i : Announced(i)' => Announced(i) \/ (Opened(h) /\ i = h.id)
    BY <2>1 DEF Announced
  <2>7. \A v \in Workers : \A f \in work'[v] : Opened(f) => ~Announced(f.id)'
    BY <2>5, <2>6 DEF CreatedInv
  <2>8. \A v, u \in Workers : \A g \in work'[v], f \in work'[u] :
          Opened(g) /\ Opened(f) /\ g.id = f.id => v = u
    BY <2>5 DEF CreatedInv
  <2>. QED
    BY <2>4, <2>7, <2>8 DEF CreatedInv, Opened, Announced
<1>. QED
  BY <1>1, <1>2, <1>3

(* CreatedAtMostOnce: whatever crashes, is redelivered or is taken over.   *)
THEOREM CreatedOnce == Spec => []CreatedAtMostOnce
<1>1. Init => CreatedInv
  BY EmptySeq DEF Init, CreatedInv, CreatedAtMostOnce
<1>2. CreatedInv => CreatedAtMostOnce
  BY DEF CreatedInv
<1>. QED
  BY <1>1, <1>2, BaseInvariant, CreatedStep, PTL DEF Spec
-----------------------------------------------------------------------------
(* NoSilentIncident with the handler that owes the announcement.           *)
SilentInv ==
  \A i \in Ids : \/ Announced(i)
                 \/ \E w \in Workers : \E h \in work[w] : Opened(h) /\ h.id = i
                 \/ failures > 0

LEMMA SilentStep == BaseInv /\ SilentInv /\ [Next]_vars => SilentInv'
<1>. SUFFICES ASSUME BaseInv, SilentInv, [Next]_vars PROVE SilentInv'
  OBVIOUS
<1>0. failures \in Nat /\ Len(rows) \in Nat /\ Len(events) \in Nat
  BY LenProperties DEF BaseInv, Typing
<1>1. CASE \A w \in Workers : ~Upsert(w) /\ ~Announce(w)
  <2>1. /\ events' = events /\ Len(rows') = Len(rows)
        /\ \/ failures' = failures
              /\ \A w \in Workers : \A h \in work[w] : Opened(h) => h \in work'[w]
           \/ failures' = failures + 1
    BY <1>1, OthersOpenNothing
  <2>. QED
    BY <1>0, <2>1 DEF SilentInv, Opened, Announced, Ids
<1>2. ASSUME NEW w \in Workers, Upsert(w) PROVE SilentInv'
  <2>1. PICK h \in work[w], g \in HandlerSet :
          /\ h.stage = "found" /\ h \in HandlerSet /\ work[w] = {h}
          /\ IF h.existing = NoIncident
             THEN rows' = Append(rows, NewRow(h))
             ELSE rows' = [rows EXCEPT ![h.existing] = UpdatedRow(@, h)]
          /\ work' = [work EXCEPT ![w] = {g}]
          /\ UNCHANGED <<events, bounds>>
          /\ g.id = Written(h) /\ g.stage = "stored" /\ g.existing = h.existing
    BY <1>2, UpsertStores
  <2>2. /\ Len(rows') = Len(rows) + (IF h.existing = NoIncident THEN 1 ELSE 0)
        /\ h.existing = NoIncident => g.id = Len(rows) + 1
    BY <2>1, UpsertWrites
  <2>3. work \in [Workers -> SUBSET HandlerSet] /\ ~Opened(h)
    BY <2>1 DEF BaseInv, Typing, Opened
  <2>4. g \in work'[w] /\ \A v \in Workers : \A f \in work[v] : Opened(f) => f \in work'[v]
    BY <2>1, <2>3
  <2>5. ASSUME NEW i \in Ids
        PROVE  \/ Announced(i)'
               \/ \E v \in Workers : \E f \in work'[v] : Opened(f) /\ f.id = i
               \/ failures' > 0
    BY <2>1, <2>4 DEF SilentInv, Opened, Announced, bounds
  <2>6. ASSUME NEW i \in Ids', i \notin Ids
        PROVE  \E f \in work'[w] : Opened(f) /\ f.id = i
    BY <1>0, <2>1, <2>2, <2>4, <2>6 DEF Ids, Opened
  <2>. QED
    BY <2>5, <2>6 DEF SilentInv, Opened
<1>3. ASSUME NEW w \in Workers, Announce(w) PROVE SilentInv'
  <2>1. PICK h \in work[w] :
          /\ work[w] = {h} /\ work' = [work EXCEPT ![w] = {}]
          /\ rows' = rows /\ failures' = failures
          /\ Len(events') = Len(events) + 1
          /\ \A n \in 1 .. Len(events) : events'[n] = events[n]
          /\ events'[Len(events) + 1] = [type |-> EventType(h), incident |-> h.id]
          /\ EventType(h) = "created" <=> Opened(h)
    BY <1>3, AnnounceTells
  <2>2. \A v \in Workers : \A f \in work[v] : f \in work'[v] \/ f = h
    BY <2>1 DEF BaseInv, Typing
  <2>3. \A i : Announced(i) => Announced(i)'
    BY <1>0, <2>1 DEF Announced
  <2>4. Opened(h) => Announced(h.id)'
    BY <1>0, <2>1 DEF Announced
  <2>. QED
    BY <2>1, <2>2, <2>3, <2>4 DEF SilentInv, Ids, Opened
<1>. QED
  BY <1>1, <1>2, <1>3

(* NoSilentIncident: without a crash or a failure, every row is announced  *)
(* as created, or the handler that wrote it still has that to do.          *)
THEOREM NobodyIsSilent == Spec => []NoSilentIncident
<1>1. Init => SilentInv
  BY EmptySeq DEF Init, SilentInv, Ids
<1>2. SilentInv => NoSilentIncident
  BY DEF SilentInv, NoSilentIncident, Announced, Opened, Handlers
<1>. QED
  BY <1>1, <1>2, BaseInvariant, SilentStep, PTL DEF Spec
-----------------------------------------------------------------------------
(* While no partition is taken over from a running handler, a handler has  *)
(* its key to itself, so what it found is still all there is: every open   *)
(* incident of its key is the one it is going to write.                    *)
Alone ==
  /\ \A w \in Workers : \A h \in work[w] : owner[h.key] = w
  /\ \A w \in Workers : \A h \in work[w] :
       h.stage = "found" => \A j \in OpenRows(h.key) : j = h.existing
  /\ \A k \in Keys : \A i, j \in OpenRows(k) : i = j
OpenInv == overlaps = 0 => Alone

LEMMA OpenStep == BaseInv /\ BaseInv' /\ OpenInv /\ [Next]_vars => OpenInv'
<1>. SUFFICES ASSUME BaseInv, BaseInv', OpenInv, [Next]_vars, overlaps' = 0 PROVE Alone'
  BY DEF OpenInv
<1>. USE DEF queue, bounds, history
<1>0. /\ Len(rows) \in Nat /\ overlaps \in Nat
      /\ work \in [Workers -> SUBSET HandlerSet] /\ owner \in [Keys -> Workers]
      /\ \A w \in Workers : \A h \in work[w] : h.key \in Keys /\ work[w] = {h}
  <2>1. Len(rows) \in Nat /\ overlaps \in Nat
    BY LenProperties DEF BaseInv, Typing
  <2>2. work \in [Workers -> SUBSET HandlerSet] /\ owner \in [Keys -> Workers]
    BY DEF BaseInv, Typing
  <2>3. ASSUME NEW w \in Workers, NEW h \in work[w] PROVE h.key \in Keys /\ work[w] = {h}
    BY <2>2 DEF BaseInv, Typing, HandlerSet
  <2>. QED
    BY <2>1, <2>2, <2>3
<1>1. ASSUME NEW w \in Workers, NEW k \in Keys, Find(w, k) PROVE Alone'
  <2>1. PICK existing \in Found(k) :
          /\ work' = [work EXCEPT ![w] = {Started(w, k, existing)}]
          /\ existing # NoIncident => existing \in OpenRows(k)
    BY <1>1, FindStarts
  <2>2. UNCHANGED <<owner, rows, overlaps>> /\ owner[k] = w /\ Alone
    BY <1>1 DEF Find, OpenInv
  <2>3. \A j \in OpenRows(k) : j = existing
    <3>1. OpenRows(k) # {} => existing # NoIncident
      BY <2>1 DEF Found, NoIncident, OpenRows, AllRows
    <3>. QED
      BY <2>1, <2>2, <3>1 DEF Alone
  <2>4. Started(w, k, existing).key = k /\ Started(w, k, existing).existing = existing
    BY DEF Started
  <2>. DEFINE g == Started(w, k, existing)
  <2>5. work' = [work EXCEPT ![w] = {g}] /\ g.key = k /\ g.existing = existing
    BY <2>1, <2>4
  <2>. HIDE DEF g
  <2>6. \A v \in Workers : \A h \in work'[v] : (h = g /\ v = w) \/ h \in work[v]
    BY <1>0, <2>5
  <2>7. \A m \in Keys : OpenRows(m)' = OpenRows(m)
    BY <2>2 DEF OpenRows, AllRows
  <2>8. \A v \in Workers : \A h \in work'[v] : owner'[h.key] = v
    BY <2>2, <2>5, <2>6 DEF Alone
  <2>9. \A v \in Workers : \A h \in work'[v] :
          h.stage = "found" => \A j \in OpenRows(h.key) : j = h.existing
    BY <2>2, <2>3, <2>5, <2>6 DEF Alone
  <2>. QED
    BY <2>2, <2>8, <2>9 DEF Alone, OpenRows, AllRows
<1>2. ASSUME NEW w \in Workers, Upsert(w) PROVE Alone'
  <2>1. PICK h \in work[w], g \in HandlerSet :
          /\ h.stage = "found" /\ h \in HandlerSet
          /\ IF h.existing = NoIncident
             THEN rows' = Append(rows, NewRow(h))
             ELSE rows' = [rows EXCEPT ![h.existing] = UpdatedRow(@, h)]
          /\ work' = [work EXCEPT ![w] = {g}]
          /\ owner' = owner /\ overlaps' = overlaps
          /\ g.stage = "stored" /\ g.key = h.key
    BY <1>2, UpsertStores
  <2>2. /\ Len(rows') = Len(rows) + (IF h.existing = NoIncident THEN 1 ELSE 0)
        /\ h.existing = NoIncident => Written(h) = Len(rows) + 1
        /\ h.existing # NoIncident => Written(h) = h.existing
        /\ rows'[Written(h)].key = h.key
        /\ \A i \in 1 .. Len(rows) : i # Written(h) => rows'[i] = rows[i]
    BY <2>1, UpsertWrites
  <2>3. Alone /\ owner[h.key] = w
    BY <2>1 DEF OpenInv, Alone
  <2>. HIDE DEF Written
  <2>4. ASSUME NEW k \in Keys, NEW i \in OpenRows(k)', i # Written(h) PROVE i \in OpenRows(k)
    BY <1>0, <2>2, <2>4 DEF OpenRows, AllRows
  <2>5. ASSUME NEW i \in OpenRows(h.key)' PROVE i = Written(h)
    <3>1. i # Written(h) => i \in OpenRows(h.key) /\ i = h.existing
      BY <1>0, <2>1, <2>3, <2>4 DEF Alone
    <3>2. i \in OpenRows(h.key) => i # NoIncident
      BY DEF OpenRows, AllRows, NoIncident
    <3>. QED
      BY <2>2, <3>1, <3>2
  <2>6. ASSUME NEW k \in Keys, k # h.key, NEW i \in OpenRows(k)' PROVE i \in OpenRows(k)
    <3>1. rows'[i].key = k
      BY DEF OpenRows, AllRows
    <3>. QED
      BY <2>2, <2>4, <2>6, <3>1
  <2>7. ASSUME NEW v \in Workers, NEW f \in work'[v]
        PROVE  (f = g /\ v = w) \/ (f \in work[v] /\ v # w /\ f.key # h.key)
    BY <1>0, <2>1, <2>3 DEF Alone
  <2>8. \A v \in Workers : \A f \in work'[v] : owner'[f.key] = v
    BY <2>1, <2>3, <2>7 DEF Alone
  <2>9. \A v \in Workers : \A f \in work'[v] :
          f.stage = "found" => \A j \in OpenRows(f.key)' : j = f.existing
    <3>. SUFFICES ASSUME NEW v \in Workers, NEW f \in work'[v], f.stage = "found",
                         NEW j \in OpenRows(f.key)'
                  PROVE  j = f.existing
      OBVIOUS
    <3>1. f \in work[v] /\ f.key # h.key /\ f.key \in Keys
      BY <1>0, <2>1, <2>7
    <3>2. j \in OpenRows(f.key)
      BY <2>6, <3>1
    <3>. QED
      BY <2>3, <3>1, <3>2 DEF Alone
  <2>10. \A k \in Keys : \A i, j \in OpenRows(k)' : i = j
    BY <2>3, <2>5, <2>6 DEF Alone
  <2>. QED
    BY <2>8, <2>9, <2>10 DEF Alone
<1>3. ASSUME NEW i \in 1 .. Len(rows), NEW status \in EditStatuses, Edit(i, status)
      PROVE  Alone'
  <2>1. /\ Len(rows') = Len(rows)
        /\ \A j \in 1 .. Len(rows) :
             rows'[j].key = rows[j].key
             /\ (rows[j].status = "closed" => rows'[j].status = "closed")
    BY <1>3, EditWrites DEF BaseInv
  <2>2. UNCHANGED <<owner, work, overlaps>> /\ Alone
    BY <1>3 DEF Edit, OpenInv
  <2>3. \A k \in Keys : OpenRows(k)' \subseteq OpenRows(k)
    BY <2>1 DEF OpenRows, AllRows
  <2>4. \A k \in Keys : \A j, l \in OpenRows(k)' : j = l
    BY <2>2, <2>3 DEF Alone
  <2>5. \A w \in Workers : \A h \in work'[w] :
          h.stage = "found" => \A j \in OpenRows(h.key)' : j = h.existing
    <3>. SUFFICES ASSUME NEW w \in Workers, NEW h \in work'[w], h.stage = "found",
                         NEW j \in OpenRows(h.key)'
                  PROVE  j = h.existing
      OBVIOUS
    <3>1. h \in work[w] /\ h.key \in Keys
      BY <1>0, <2>2
    <3>2. j \in OpenRows(h.key)
      BY <2>3, <3>1
    <3>. QED
      BY <2>2, <3>1, <3>2 DEF Alone
  <2>6. \A w \in Workers : \A h \in work'[w] : owner'[h.key] = w
    BY <2>2 DEF Alone
  <2>. QED
    BY <2>4, <2>5, <2>6 DEF Alone
<1>4. ASSUME owner' = owner, rows' = rows, overlaps' = overlaps,
             \A w \in Workers : work'[w] \subseteq work[w]
      PROVE  Alone'
  BY <1>4 DEF OpenInv, Alone, OpenRows, AllRows
<1>5. ASSUME NEW w \in Workers, Announce(w) \/ Fail(w) \/ Crash(w) PROVE Alone'
  <2>1. work' = [work EXCEPT ![w] = {}] /\ UNCHANGED <<owner, rows, overlaps>>
    BY <1>5 DEF Announce, Fail, Crash
  <2>. QED
    BY <1>0, <1>4, <2>1
<1>6. ASSUME NEW k \in Keys, NEW w \in Workers, Rebalance(k, w) PROVE Alone'
  <2>1. /\ owner' = [owner EXCEPT ![k] = w] /\ UNCHANGED <<work, rows>>
        /\ overlaps' = IF \E h \in work[owner[k]] : h.key = k THEN overlaps + 1 ELSE overlaps
    BY <1>6 DEF Rebalance
  <2>2. overlaps = 0 /\ \A h \in work[owner[k]] : h.key # k
    BY <1>0, <2>1
  <2>3. Alone
    BY <2>2 DEF OpenInv
  <2>4. \A v \in Workers : \A h \in work[v] : h.key # k
    BY <2>2, <2>3 DEF Alone
  <2>5. \A v \in Workers : \A h \in work'[v] : owner'[h.key] = v
    BY <1>0, <2>1, <2>3, <2>4 DEF Alone
  <2>. QED
    BY <2>1, <2>3, <2>5 DEF Alone, OpenRows, AllRows
<1>7. ASSUME NEW k \in Keys, Commit(k) \/ \E s \in Snapshots : Detect(k, s) PROVE Alone'
  <2>1. UNCHANGED <<owner, rows, overlaps, work>>
    BY <1>7 DEF Commit, Detect
  <2>. QED
    BY <1>4, <2>1
<1>8. CASE UNCHANGED vars
  BY <1>4, <1>8 DEF vars
<1>. QED
  BY <1>1, <1>2, <1>3, <1>5, <1>6, <1>7, <1>8 DEF Next

(* OneOpenIncident: as long as no partition was taken over from a running  *)
(* handler, a key has at most one incident that is not closed.             *)
THEOREM OneStoryOneIncident == Spec => []OneOpenIncident
<1>1. Init => OpenInv
  BY DEF Init, OpenInv, Alone, OpenRows, AllRows
<1>2. OpenInv => OneOpenIncident
  BY DEF OpenInv, Alone, OneOpenIncident
<1>. QED
  BY <1>1, <1>2, BaseInvariant, OpenStep, PTL DEF Spec
-----------------------------------------------------------------------------
(* Before the first edit every status that is stored or held is "open".    *)
EditInv ==
  edits = 0 => /\ \A i \in Ids : rows[i].status = "open"
               /\ \A w \in Workers : \A h \in work[w] : h.status = "open"

LEMMA EditStep == BaseInv /\ EditInv /\ [Next]_vars => EditInv'
<1>. SUFFICES ASSUME BaseInv, EditInv, [Next]_vars, edits' = 0
              PROVE  /\ \A i \in Ids' : rows'[i].status = "open"
                     /\ \A w \in Workers : \A h \in work'[w] : h.status = "open"
  BY DEF EditInv
<1>. USE DEF queue, bounds, history
<1>0. /\ Len(rows) \in Nat /\ edits \in Nat /\ work \in [Workers -> SUBSET HandlerSet]
  BY LenProperties DEF BaseInv, Typing
<1>1. ASSUME NEW w \in Workers, NEW k \in Keys, Find(w, k)
      PROVE  /\ rows' = rows /\ edits' = edits
             /\ edits = 0 => \A v \in Workers : \A h \in work'[v] : h.status = "open"
  <2>1. PICK existing \in Found(k) :
          /\ work' = [work EXCEPT ![w] = {Started(w, k, existing)}]
          /\ existing # NoIncident => existing \in OpenRows(k)
    BY <1>1, FindStarts
  <2>2. edits = 0 => Started(w, k, existing).status = "open"
    BY <2>1 DEF Started, EditInv, OpenRows, AllRows, Ids
  <2>. HIDE DEF Started
  <2>3. rows' = rows /\ edits' = edits
    BY <1>1 DEF Find
  <2>. QED
    BY <1>0, <2>1, <2>2, <2>3 DEF EditInv
<1>2. ASSUME NEW w \in Workers, Upsert(w)
      PROVE  edits = 0 => /\ \A i \in Ids' : rows'[i].status = "open"
                          /\ \A v \in Workers : \A h \in work'[v] : h.status = "open"
  <2>1. PICK h \in work[w], g \in HandlerSet :
          /\ h.stage = "found" /\ h \in HandlerSet
          /\ IF h.existing = NoIncident
             THEN rows' = Append(rows, NewRow(h))
             ELSE rows' = [rows EXCEPT ![h.existing] = UpdatedRow(@, h)]
          /\ work' = [work EXCEPT ![w] = {g}] /\ g.status = h.status
    BY <1>2, UpsertStores
  <2>2. /\ Len(rows') = Len(rows) + (IF h.existing = NoIncident THEN 1 ELSE 0)
        /\ h.existing = NoIncident => Written(h) = Len(rows) + 1
        /\ rows'[Written(h)].status = h.status
        /\ \A i \in 1 .. Len(rows) : i # Written(h) => rows'[i] = rows[i]
    BY <2>1, UpsertWrites
  <2>. HIDE DEF Written
  <2>3. edits = 0 => \A i \in Ids' : rows'[i].status = "open"
    BY <1>0, <2>1, <2>2 DEF EditInv, Ids
  <2>4. edits = 0 => \A v \in Workers : \A f \in work'[v] : f.status = "open"
    BY <1>0, <2>1 DEF EditInv
  <2>. QED
    BY <2>3, <2>4
<1>3. ASSUME NEW i \in 1 .. Len(rows), NEW status \in EditStatuses, Edit(i, status)
      PROVE  edits' = edits + 1
  BY <1>3 DEF Edit
<1>4. ASSUME NEW w \in Workers, Announce(w) \/ Fail(w) \/ Crash(w)
      PROVE  work' = [work EXCEPT ![w] = {}] /\ UNCHANGED <<rows, edits>>
  BY <1>4 DEF Announce, Fail, Crash
<1>5. ASSUME NEW k \in Keys, \/ Commit(k)
                             \/ \E s \in Snapshots : Detect(k, s)
                             \/ \E w \in Workers : Rebalance(k, w)
      PROVE  UNCHANGED <<rows, work, edits>>
  BY <1>5 DEF Commit, Detect, Rebalance
<1>6. ASSUME \/ UNCHANGED <<rows, work, edits>>
             \/ \E w \in Workers : /\ work' = [work EXCEPT ![w] = {}]
                                   /\ UNCHANGED <<rows, edits>>
      PROVE  /\ \A i \in Ids' : rows'[i].status = "open"
             /\ \A w \in Workers : \A h \in work'[w] : h.status = "open"
  BY <1>0, <1>6 DEF EditInv, Ids
<1>7. CASE Next
  <2>1. (\E i \in 1 .. Len(rows), status \in EditStatuses : Edit(i, status)) => FALSE
    BY <1>0, <1>3
  <2>2. ASSUME NEW w \in Workers, \E k \in Keys : Find(w, k)
        PROVE  /\ \A i \in Ids' : rows'[i].status = "open"
               /\ \A v \in Workers : \A h \in work'[v] : h.status = "open"
    BY <1>1, <2>2 DEF EditInv, Ids
  <2>3. ASSUME NEW w \in Workers, Upsert(w)
        PROVE  /\ \A i \in Ids' : rows'[i].status = "open"
               /\ \A v \in Workers : \A h \in work'[v] : h.status = "open"
    <3>1. edits' = edits
      BY <2>3 DEF Upsert
    <3>. QED
      BY <1>2, <2>3, <3>1
  <2>. QED
    BY <1>4, <1>5, <1>6, <1>7, <2>1, <2>2, <2>3 DEF Next
<1>8. CASE UNCHANGED vars
  BY <1>6, <1>8 DEF vars
<1>. QED
  BY <1>7, <1>8

(* StatusLostOnlyByRace: a status is overwritten only by a handler that    *)
(* read the incident before an operator changed it.                        *)
THEOREM StatusIsKept == Spec => StatusLostOnlyByRace
<1>. DEFINE Kept ==
       \A i \in Ids :
         rows'[i].status # rows[i].status /\ edits' = edits
           => \E h \in Handlers : /\ h.stage = "found" /\ h.existing = i
                                  /\ h.status # rows[i].status /\ edits > 0
<1>1. Init => EditInv
  BY EmptySeq DEF Init, EditInv, Ids
<1>2. BaseInv /\ EditInv /\ [Next]_vars => Kept
  <2>. SUFFICES ASSUME BaseInv, EditInv, [Next]_vars, NEW i \in Ids,
                       rows'[i].status # rows[i].status, edits' = edits
                PROVE  \E h \in Handlers : /\ h.stage = "found" /\ h.existing = i
                                           /\ h.status # rows[i].status /\ edits > 0
    OBVIOUS
  <2>1. edits \in Nat
    BY DEF BaseInv, Typing
  <2>2. PICK w \in Workers : Upsert(w)
    <3>1. ASSUME NEW w \in Workers, \/ \E k \in Keys : Find(w, k)
                                    \/ Announce(w) \/ Fail(w) \/ Crash(w)
          PROVE  rows' = rows
      BY <3>1 DEF Find, Announce, Fail, Crash
    <3>2. ASSUME NEW k \in Keys, \/ Commit(k)
                                 \/ \E s \in Snapshots : Detect(k, s)
                                 \/ \E w \in Workers : Rebalance(k, w)
          PROVE  rows' = rows
      BY <3>2 DEF Commit, Detect, Rebalance
    <3>3. ASSUME NEW j \in 1 .. Len(rows), NEW status \in EditStatuses, Edit(j, status)
          PROVE  edits' = edits + 1
      BY <3>3 DEF Edit
    <3>. QED
      BY <2>1, <3>1, <3>2, <3>3 DEF Next, vars
  <2>3. PICK h \in work[w] :
          /\ h.stage = "found" /\ h \in HandlerSet
          /\ IF h.existing = NoIncident
             THEN rows' = Append(rows, NewRow(h))
             ELSE rows' = [rows EXCEPT ![h.existing] = UpdatedRow(@, h)]
    BY <2>2, UpsertStores
  <2>4. /\ h.existing = NoIncident => Written(h) = Len(rows) + 1
        /\ h.existing # NoIncident => Written(h) = h.existing
        /\ rows'[Written(h)].status = h.status
        /\ \A j \in 1 .. Len(rows) : j # Written(h) => rows'[j] = rows[j]
    BY <2>3, UpsertWrites
  <2>5. Written(h) = i /\ h.existing = i
    <3>1. Len(rows) \in Nat
      BY LenProperties DEF BaseInv, Typing
    <3>. QED
      BY <2>4, <3>1 DEF Ids
  <2>6. h.status # rows[i].status
    BY <2>4, <2>5
  <2>7. edits > 0
    BY <2>1, <2>3, <2>6 DEF EditInv
  <2>. QED
    BY <2>3, <2>5, <2>6, <2>7 DEF Handlers
<1>. QED
  BY <1>1, <1>2, BaseInvariant, EditStep, PTL DEF Spec, StatusLostOnlyByRace
(* A product of naturals grows with either factor.                         *)
LEMMA Products ==
  ASSUME NEW a \in Nat, NEW b \in Nat, NEW c \in Nat, NEW d \in Nat, a <= c, b <= d
  PROVE  a * b <= c * d
<1>1. PICK e \in Nat : c = a + e
  <2>1. c - a \in Nat /\ c = a + (c - a)
    OBVIOUS
  <2>. QED  BY <2>1
<1>2. PICK f \in Nat : d = b + f
  <2>1. d - b \in Nat /\ d = b + (d - b)
    OBVIOUS
  <2>. QED  BY <2>1
<1>3. c * d = a * b + a * f + e * b + e * f
  BY <1>1, <1>2
<1>4. a * b \in Nat /\ a * f \in Nat /\ e * b \in Nat /\ e * f \in Nat
  OBVIOUS
<1>. QED  BY <1>3, <1>4

(* A cluster that is worse in every respect is never less urgent: risk,    *)
(* confidence, production, exposure and affected assets only escalate      *)
(* (prioritization.ts:11-15), and no threshold of prioritize() undoes it.  *)
THEOREM WorseIsNeverLessUrgent ==
  ASSUME NEW risk \in Nat, NEW worseRisk \in Nat, risk <= worseRisk,
         NEW confidence \in Nat, NEW surer \in Nat, confidence <= surer,
         NEW here, NEW there, here = "production" => there = "production",
         NEW exposed \in BOOLEAN, NEW moreExposed \in BOOLEAN, exposed => moreExposed,
         NEW assets \in Nat, NEW moreAssets \in Nat, assets <= moreAssets
  PROVE  Urgency(Prioritize(risk, confidence, here, exposed, assets))
           <= Urgency(Prioritize(worseRisk, surer, there, moreExposed, moreAssets))
<1>. DEFINE w == risk * confidence
            v == worseRisk * surer
<1>1. w \in Nat /\ v \in Nat /\ w <= v
  BY Products
<1>. HIDE DEF w, v
<1>2. Prioritize(risk, confidence, here, exposed, assets)
        = IF here = "production" /\ (w >= 7000 \/ (exposed /\ w >= 5500)) THEN "P1"
          ELSE IF w >= 5500 \/ (here = "production" /\ w >= 4000) THEN "P2"
          ELSE IF w >= 3000 \/ assets > 3 THEN "P3" ELSE "P4"
  BY DEF Prioritize, w
<1>3. Prioritize(worseRisk, surer, there, moreExposed, moreAssets)
        = IF there = "production" /\ (v >= 7000 \/ (moreExposed /\ v >= 5500)) THEN "P1"
          ELSE IF v >= 5500 \/ (there = "production" /\ v >= 4000) THEN "P2"
          ELSE IF v >= 3000 \/ moreAssets > 3 THEN "P3" ELSE "P4"
  BY DEF Prioritize, v
<1>. QED  BY <1>1, <1>2, <1>3 DEF Urgency

(* A weakly correlated cluster does not wake on-call, whatever its members *)
(* are (README.md:256-258): below a confidence of 0.55 nothing is a P1,    *)
(* exposed or not, because riskFromMembers() stops at 100.                 *)
THEOREM WeakCorrelationNeverPages ==
  ASSUME NEW members, Worst(members) \in Nat, Cardinality(members) \in Nat \ {0},
         NEW confidence \in 0 .. 54, NEW environment, NEW exposed \in BOOLEAN, NEW assets
  PROVE  Prioritize(RiskFromMembers(members), confidence, environment, exposed, assets) # "P1"
<1>. DEFINE risk == RiskFromMembers(members)
<1>1. risk \in 0 .. 100
  BY DEF RiskFromMembers, AtMost
<1>. HIDE DEF risk
<1>2. risk * confidence < 5500
  <2>1. risk * confidence <= 100 * 54
    BY <1>1, Products
  <2>2. risk * confidence \in Nat
    BY <1>1
  <2>. QED  BY <2>1, <2>2
<1>3. ~ (risk * confidence >= 7000) /\ ~ (risk * confidence >= 5500)
  BY <1>1, <1>2
<1>. QED  BY <1>3 DEF Prioritize, risk
=============================================================================
