----------------------------- MODULE Incidents -----------------------------
(***************************************************************************)
(* The incident-service (apps/incident-service/src/worker.ts and           *)
(* incident.repository.ts): its replicas consume correlation.detected, and *)
(* for every cluster look up the open incident of its key, write the       *)
(* incident to Postgres, and announce it as created or updated.            *)
(*                                                                         *)
(* The three are awaited one after the other, so they are three steps,     *)
(* and between them an operator may change the incident, the replica may   *)
(* crash, or its partition may be assigned to another replica while its    *)
(* handler goes on.  A key is its own partition.  Where the group has      *)
(* committed nothing, a replica starts at the end (bus.ts:102).  An        *)
(* incident id is minted from the clock for every INSERT, so it is always  *)
(* a new one: here it is the position of the row in the table.             *)
(***************************************************************************)
EXTENDS IncidentScoring, Sequences

CONSTANTS
  Keys,            \* correlation keys
  Workers,         \* replicas of the incident-service
  Assignment,      \* Assignment[k]: the replica that has k's partition at first
  Snapshots,       \* names of the clusters the event-processor may publish
  Payload,         \* Payload[s]: members, from, environment, confidence, assets
  MaxDetections,   \* bound: clusters published, for all keys together
  MaxFailures,     \* bound: crashes of a replica and handlers that throw
  MaxRebalances,   \* bound: partitions assigned to another replica
  EditStatuses,    \* the statuses operators set
  MaxEdits         \* bound: status changes by operators

Statuses == {"open", "investigating", "mitigated", "closed"}
NoOffset == -1

ASSUME IncidentAssumption ==
  /\ MaxDetections \in Nat /\ MaxFailures \in Nat
  /\ MaxRebalances \in Nat /\ MaxEdits \in Nat
  /\ Assignment \in [Keys -> Workers]
  /\ EditStatuses \subseteq Statuses

VARIABLES
  log,        \* log[k]: the clusters published under key k
  owner,      \* owner[k]: the replica the partition of k is assigned to
  cursor,     \* cursor[k]: how many clusters of k its owner has finished
  committed,  \* committed[k]: the offset the group has committed
  start,      \* start[k]: the end of the partition when it was last read from
              \* there, with nothing committed
  work,       \* work[w]: {} or the handler that replica w is running
  rows,       \* the table of incidents, in the order of their INSERTs
  events,     \* the incident.created and incident.updated published
  failures, rebalances, edits,
  \* History variables.
  dropped,    \* <<k, offset>> that were dead-lettered
  written,    \* <<k, offset, id>>: which cluster wrote which incident
  overlaps    \* partitions reassigned while a handler was running on them

queue   == <<log, owner, cursor, committed, start>>
bounds  == <<failures, rebalances, edits>>
history == <<dropped, written, overlaps>>
vars == <<queue, work, rows, events, bounds, history>>

Init ==
  /\ log = [k \in Keys |-> <<>>]
  /\ owner = Assignment
  /\ cursor = [k \in Keys |-> 0]
  /\ committed = [k \in Keys |-> NoOffset]
  /\ start = [k \in Keys |-> 0]
  /\ work = [w \in Workers |-> {}]
  /\ rows = <<>>
  /\ events = <<>>
  /\ failures = 0 /\ rebalances = 0 /\ edits = 0
  /\ dropped = {} /\ written = {} /\ overlaps = 0

(* The event-processor publishes a cluster under key k.                    *)
Detections == UNION {{k} \X (1 .. Len(log[k])) : k \in Keys}

Detect(k, s) ==
  /\ Cardinality(Detections) < MaxDetections
  /\ log' = [log EXCEPT ![k] = Append(@, s)]
  /\ UNCHANGED <<owner, cursor, committed, start, work, rows, events, bounds, history>>

(* findByCorrelationKey(): the incidents of k that are not closed, the one *)
(* opened last first.  NoIncident when there is none.                      *)
NoIncident == 0
AllRows(k)  == {i \in 1 .. Len(rows) : rows[i].key = k}
OpenRows(k) == {i \in AllRows(k) : rows[i].status # "closed"}
FoundNothing(k) == {NoIncident}    \* mutated form
Found(k) ==
  IF OpenRows(k) = {} THEN {NoIncident}
  ELSE {i \in OpenRows(k) : \A j \in OpenRows(k) : rows[j].openedAt <= rows[i].openedAt}

Find(w, k) ==
  /\ work[w] = {} /\ owner[k] = w /\ cursor[k] < Len(log[k])
  /\ \E existing \in Found(k) :
       work' = [work EXCEPT ![w] =
         {[key      |-> k,
           offset   |-> cursor[k] + 1,
           snapshot |-> log[k][cursor[k] + 1],
           existing |-> existing,
           status   |-> IF existing = NoIncident THEN "open" ELSE rows[existing].status,
           id       |-> existing,
           stage    |-> "found"]}]
  /\ UNCHANGED <<queue, rows, events, bounds, history>>

(* upsert(): INSERT ... ON CONFLICT (id) DO UPDATE.  A new incident takes  *)
(* every column from the cluster, its title from the hypothesis formed of  *)
(* it; an existing one keeps title, environment and opening time, takes    *)
(* the rest from this cluster, the status from what was read, and is no    *)
(* longer marked as closed.                                                *)
Risk(s) == RiskFromMembers(Payload[s].members)
PriorityOf(s) == Prioritize(Risk(s), Payload[s].confidence, Payload[s].environment,
                            FALSE, Cardinality(Payload[s].assets))

NewRow(h) ==
  [key |-> h.key, title |-> h.snapshot, environment |-> Payload[h.snapshot].environment,
   openedAt |-> Payload[h.snapshot].from, snapshot |-> h.snapshot,
   risk |-> Risk(h.snapshot), priority |-> PriorityOf(h.snapshot),
   status |-> h.status, closedAt |-> FALSE]

(* Mutated forms of UpdatedRow: ON CONFLICT DO NOTHING; an update reopens  *)
(* the incident; the priority is left out of the update.                   *)
UntouchedRow(row, h) == row
ReopenedRow(row, h) ==
  [row EXCEPT !.snapshot = h.snapshot, !.risk = Risk(h.snapshot),
              !.priority = PriorityOf(h.snapshot),
              !.status = "open", !.closedAt = FALSE]
RowOfOldPriority(row, h) ==
  [row EXCEPT !.snapshot = h.snapshot, !.risk = Risk(h.snapshot),
              !.status = h.status, !.closedAt = FALSE]

UpdatedRow(row, h) ==
  [row EXCEPT !.snapshot = h.snapshot, !.risk = Risk(h.snapshot),
              !.priority = PriorityOf(h.snapshot),
              !.status = h.status, !.closedAt = FALSE]

(* The id of the incident: that of the one found, or a new one.            *)
ExistingId(h) == h.existing    \* mutated form
IncidentId(h) == IF h.existing = NoIncident THEN Len(rows) + 1 ELSE h.existing

Upsert(w) ==
  \E h \in work[w] :
    /\ h.stage = "found"
    /\ IF h.existing = NoIncident
       THEN rows' = Append(rows, NewRow(h))
       ELSE rows' = [rows EXCEPT ![h.existing] = UpdatedRow(@, h)]
    /\ work' = [work EXCEPT ![w] = {[h EXCEPT !.id = IncidentId(h), !.stage = "stored"]}]
    /\ written' = written \cup {<<h.key, h.offset, IncidentId(h)>>}
    /\ UNCHANGED <<queue, events, bounds, dropped, overlaps>>

(* The offset is resolved, unless the partition is no longer this          *)
(* replica's: the new owner goes its own way.                              *)
Resolve(w, h) ==
  cursor' = IF owner[h.key] = w /\ cursor[h.key] + 1 = h.offset
            THEN [cursor EXCEPT ![h.key] = h.offset] ELSE cursor

(* publish() of incident.created or incident.updated; the handler returns. *)
EventTypeByStatus(h) == IF h.status = "open" THEN "created" ELSE "updated"    \* mutated
EventTypeById(h) == IF h.id = NoIncident THEN "created" ELSE "updated"        \* mutated
EventType(h) == IF h.existing = NoIncident THEN "created" ELSE "updated"

Announce(w) ==
  \E h \in work[w] :
    /\ h.stage = "stored"
    /\ events' = Append(events, [type |-> EventType(h), incident |-> h.id])
    /\ work' = [work EXCEPT ![w] = {}]
    /\ Resolve(w, h)
    /\ UNCHANGED <<log, owner, committed, start, rows, bounds, dropped, written,
                   overlaps>>

(* The query, the write or the publication throws: the message is          *)
(* dead-lettered and passed over, whatever was written before.             *)
Fail(w) ==
  \E h \in work[w] :
    /\ failures < MaxFailures
    /\ failures' = failures + 1
    /\ work' = [work EXCEPT ![w] = {}]
    /\ Resolve(w, h)
    /\ dropped' = dropped \cup {<<h.key, h.offset>>}
    /\ UNCHANGED <<log, owner, committed, start, rows, events, rebalances, edits,
                   written, overlaps>>

Commit(k) ==
  /\ committed[k] < cursor[k] /\ start[k] < cursor[k]
  /\ committed' = [committed EXCEPT ![k] = cursor[k]]
  /\ UNCHANGED <<log, owner, cursor, start, work, rows, events, bounds, history>>

(* Where the partitions in S are read from when they are assigned: at the  *)
(* committed offset, or at the end if there is none (fromBeginning false). *)
Restart(S) ==
  /\ cursor' = [k \in Keys |-> IF k \notin S THEN cursor[k]
                              ELSE IF committed[k] = NoOffset THEN Len(log[k])
                              ELSE committed[k]]
  /\ start' = [k \in Keys |-> IF k \in S /\ committed[k] = NoOffset
                             THEN Len(log[k]) ELSE start[k]]

(* A replica dies and comes back.  What arrives in between arrives, in     *)
(* this model, at a replica that is about to die.                          *)
Crash(w) ==
  /\ failures < MaxFailures
  /\ failures' = failures + 1
  /\ work' = [work EXCEPT ![w] = {}]
  /\ Restart({k \in Keys : owner[k] = w})
  /\ UNCHANGED <<log, owner, committed, rows, events, rebalances, edits, history>>

(* The group assigns the partition of k to w.  The handler of the old      *)
(* owner is not interrupted.                                               *)
Rebalance(k, w) ==
  /\ rebalances < MaxRebalances /\ owner[k] # w
  /\ rebalances' = rebalances + 1
  /\ owner' = [owner EXCEPT ![k] = w]
  /\ Restart({k})
  /\ overlaps' = IF \E h \in work[owner[k]] : h.key = k THEN overlaps + 1 ELSE overlaps
  /\ UNCHANGED <<log, committed, work, rows, events, failures, edits,
                 dropped, written>>

(* Not under src/: an operator changes the status in the database, or      *)
(* closes the incident for good.                                           *)
Edit(i, status) ==
  /\ edits < MaxEdits
  /\ rows[i].status # "closed" /\ rows[i].status # status
  /\ edits' = edits + 1
  /\ rows' = [rows EXCEPT ![i].status = status, ![i].closedAt = (status = "closed")]
  /\ UNCHANGED <<queue, work, events, failures, rebalances, history>>

Handle(w) == (\E k \in Keys : Find(w, k)) \/ Upsert(w) \/ Announce(w)

Next ==
  \/ \E k \in Keys, s \in Snapshots : Detect(k, s)
  \/ \E w \in Workers : \/ \E k \in Keys : Find(w, k)
                        \/ Upsert(w) \/ Announce(w) \/ Fail(w) \/ Crash(w)
  \/ \E k \in Keys : Commit(k)
  \/ \E k \in Keys, w \in Workers : Rebalance(k, w)
  \/ \E i \in 1 .. Len(rows), status \in EditStatuses : Edit(i, status)

Spec == Init /\ [][Next]_vars

(* Every replica polls its partitions, and its queries and sends return.   *)
FairSpec == Spec /\ \A w \in Workers : WF_vars(Handle(w))
-----------------------------------------------------------------------------
Handlers == UNION {work[w] : w \in Workers}
Ids == 1 .. Len(rows)

HandlerOK(h) ==
  /\ h.key \in Keys /\ h.offset \in 1 .. Len(log[h.key])
  /\ h.snapshot = log[h.key][h.offset]
  /\ h.existing \in Ids \cup {NoIncident} /\ h.id \in Ids \cup {NoIncident}
  /\ h.status \in Statuses /\ h.stage \in {"found", "stored"}

RowOK(r) ==
  /\ r.key \in Keys /\ r.status \in Statuses /\ r.closedAt \in BOOLEAN
  /\ r.title \in Snapshots /\ r.snapshot \in Snapshots /\ r.priority \in Priorities

TypeOK ==
  /\ \A k \in Keys : \A o \in 1 .. Len(log[k]) : log[k][o] \in Snapshots
  /\ owner \in [Keys -> Workers]
  /\ cursor \in [Keys -> Nat] /\ start \in [Keys -> Nat]
  /\ committed \in [Keys -> Nat \cup {NoOffset}]
  /\ \A w \in Workers : \A g, h \in work[w] : g = h
  /\ \A h \in Handlers : HandlerOK(h)
  /\ \A i \in Ids : RowOK(rows[i])
  /\ \A n \in 1 .. Len(events) : /\ events[n].type \in {"created", "updated"}
                                 /\ events[n].incident \in Ids

(* What an incident shows is of clusters published under its own key and   *)
(* written to this very row, whichever replicas wrote it in between: its   *)
(* title, environment and opening time are those of one such cluster, and  *)
(* its evidence, risk and priority those of one.  The two may differ: ON   *)
(* CONFLICT (incident.repository.ts:20-29) leaves title and environment as *)
(* they were, so that an updated incident may show the priority of a       *)
(* production cluster under the title of a staging one.                    *)
TitledBy(i, o) ==
  /\ <<rows[i].key, o, i>> \in written
  /\ rows[i].title = log[rows[i].key][o]
  /\ rows[i].environment = Payload[rows[i].title].environment
  /\ rows[i].openedAt = Payload[rows[i].title].from
RatedBy(i, o) ==
  /\ <<rows[i].key, o, i>> \in written
  /\ rows[i].snapshot = log[rows[i].key][o]
  /\ rows[i].risk = Risk(rows[i].snapshot)
  /\ rows[i].priority = PriorityOf(rows[i].snapshot)
RowsShowTheirStory ==
  \A i \in Ids : /\ \E o \in 1 .. Len(log[rows[i].key]) : TitledBy(i, o)
                /\ \E o \in 1 .. Len(log[rows[i].key]) : RatedBy(i, o)

(* One story, one incident: unless a partition was taken over while its    *)
(* handler was running, a key has at most one incident that is not closed, *)
(* whatever crashed, failed, was redelivered or was edited in between.     *)
OneOpenIncident ==
  overlaps = 0 => \A k \in Keys : \A i, j \in OpenRows(k) : i = j

(* An incident is announced as created at most once, even when the cluster *)
(* that opened it is delivered again after a crash.                        *)
CreatedAtMostOnce ==
  \A m, n \in 1 .. Len(events) :
    events[m].type = "created" /\ events[n].type = "created"
      /\ events[m].incident = events[n].incident => m = n

(* Only a crash or a failure between the write and the publication makes   *)
(* an incident that nobody was told about.                                 *)
NoSilentIncident ==
  \A i \in Ids : \/ \E n \in 1 .. Len(events) : events[n] = [type |-> "created", incident |-> i]
                 \/ \E h \in Handlers : h.id = i /\ h.stage = "stored"
                 \/ failures > 0

(* An operator's status is overwritten only by a handler that had read the *)
(* incident before the operator changed it.                                *)
StatusLostOnlyByRace ==
  [][\A i \in Ids :
       rows'[i].status # rows[i].status /\ edits' = edits
         => \E h \in Handlers : /\ h.stage = "found" /\ h.existing = i
                                /\ h.status # rows[i].status /\ edits > 0]_vars

(* Once the event-processor is quiet, the last incident of a key settles   *)
(* on the last cluster published under it, unless that was dead-lettered,  *)
(* a replica took the partition over from a running handler, or the group, *)
(* with nothing committed, last began to read behind that cluster.         *)
Newest(k) == CHOOSE i \in AllRows(k) : \A j \in AllRows(k) : j <= i
SettlesOnLatest ==
  \A k \in Keys :
    <>[](overlaps = 0 /\ Len(log[k]) > start[k] /\ <<k, Len(log[k])>> \notin dropped
           => AllRows(k) # {} /\ rows[Newest(k)].snapshot = log[k][Len(log[k])])

(* ADR-0004: incidents "must survive a topic replay without being          *)
(* recreated with new ids"; "incident writes are idempotent upserts keyed  *)
(* by correlation key, so a replay converges rather than duplicating".     *)
(* However often a cluster is delivered, it writes one incident.           *)
ReplayConverges ==
  \A x, y \in written : x[1] = y[1] /\ x[2] = y[2] => x[3] = y[3]
=============================================================================
