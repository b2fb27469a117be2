--------------------------- MODULE SecurityEngine ---------------------------
(***************************************************************************)
(* The security-engine (apps/security-engine) behind the signal-engine:    *)
(* its replicas evaluate the catalog against every signal and publish the  *)
(* findings one by one, each send being awaited.  signal.received is keyed *)
(* by resource, finding.detected by asset, which is the same id: the       *)
(* signals of a resource are one partition, and its findings another.      *)
(* Where the group has committed nothing, a replica starts at the end      *)
(* (bus.ts:102).  It subscribes to one topic, so every partition of it is  *)
(* assigned to one of the replicas.                                        *)
(***************************************************************************)
EXTENDS SignalEngine, SecurityRules

CONSTANTS
  Workers,
  Assignment,     \* Assignment[r]: the replica that has r's partition at first
  OtherSignals,   \* what publishers other than these collectors may put on the bus
  MaxOthers, MaxRebalances, MaxDay   \* bounds

NoOffset == -1

(* What SEC-SECRET-EXPIRED counts with is numbers where it is present: a   *)
(* date that cannot be parsed never expires, as if there were none.        *)
ASSUME SecurityAssumption ==
  /\ Assignment \in [Resources -> Workers]
  /\ \A s \in OtherSignals :
       /\ s.resource \in Resources
       /\ \A key \in {"secretRotatedAt", "secretMaxAgeDays"} \cap DOMAIN s.configuration :
            s.configuration[key] \in Int
  /\ MaxOthers \in Nat /\ MaxRebalances \in Nat /\ MaxDay \in Nat

VARIABLES
  today,          \* Date.now() in days, which a rule reads
  others,
  owner, cursor, committed, start,   \* as in RiskRollup, per resource
  work,           \* work[w]: {} or the handler that replica w is running
  findings,       \* findings[r]: finding.detected about r
  rebalances,
  \* History variables.
  dropped,        \* <<r, offset>> that were dead-lettered
  takenOver       \* resources whose partition moved while a handler was running

queue == <<owner, cursor, committed, start>>
vars  == <<signalVars, faults, today, others, queue, work, findings, rebalances,
           dropped, takenOver>>

Init ==
  /\ SignalInit /\ faults = 0
  /\ today = 0 /\ others = 0
  /\ owner = Assignment
  /\ cursor = [r \in Resources |-> 0] /\ start = [r \in Resources |-> 0]
  /\ committed = [r \in Resources |-> NoOffset]
  /\ work = [w \in Workers |-> {}]
  /\ findings = [r \in Resources |-> <<>>]
  /\ rebalances = 0 /\ dropped = {} /\ takenOver = {}

Context(r, s) ==
  [kind |-> InferKind(r), environment |-> s.environment, today |-> today,
   configuration |-> s.configuration, malformed |-> s.malformed]

Arrive(s) ==
  /\ others < MaxOthers
  /\ others' = others + 1
  /\ minted' = minted + 1
  /\ log' = [log EXCEPT ![s.resource] = Append(@, Logged(minted + 1, s, "other"))]
  /\ UNCHANGED <<requests, posts, accepted, faults, today, queue, work, findings,
                 rebalances, dropped, takenOver>>

Tick ==
  /\ today < MaxDay
  /\ today' = today + 1
  /\ UNCHANGED <<signalVars, faults, others, queue, work, findings, rebalances,
                 dropped, takenOver>>

MayHandle(w, r) == work[w] = {} /\ owner[r] = w /\ cursor[r] < Len(log[r])

(* evaluate(): the asset is looked up, the catalog is run.                 *)
Start(w, r) ==
  /\ MayHandle(w, r) /\ log[r][cursor[r] + 1].environment \in Environments
  /\ work' = [work EXCEPT ![w] =
       {[resource |-> r, offset |-> cursor[r] + 1,
         left |-> Evaluate(Context(r, log[r][cursor[r] + 1]))]}]
  /\ UNCHANGED <<signalVars, faults, today, others, queue, findings, rebalances,
                 dropped, takenOver>>

StayOnRejected(w, r) ==         \* mutated form: the offset is not resolved
  /\ MayHandle(w, r) /\ log[r][cursor[r] + 1].environment \notin Environments
  /\ dropped' = dropped \cup {<<r, cursor[r] + 1>>}
  /\ UNCHANGED <<signalVars, faults, today, others, queue, work, findings,
                 rebalances, takenOver>>
(* The envelope's environment is none of the four: decode() throws.        *)
Reject(w, r) ==
  /\ MayHandle(w, r) /\ log[r][cursor[r] + 1].environment \notin Environments
  /\ dropped' = dropped \cup {<<r, cursor[r] + 1>>}
  /\ cursor' = [cursor EXCEPT ![r] = @ + 1]
  /\ UNCHANGED <<signalVars, faults, today, others, owner, committed, start, work,
                 findings, rebalances, takenOver>>

FindingDetected(h, e) == [offset |-> h.offset, rule |-> e.rule, severity |-> e.severity]

PublishFinding(w) ==
  \E h \in work[w] : \E e \in h.left :
    /\ \A f \in h.left : e.at <= f.at
    /\ findings' = [findings EXCEPT ![h.resource] = Append(@, FindingDetected(h, e))]
    /\ work' = [work EXCEPT ![w] = {[h EXCEPT !.left = @ \ {e}]}]
    /\ UNCHANGED <<signalVars, faults, today, others, queue, rebalances, dropped, takenOver>>

Resolve(w, h) ==
  cursor' = IF owner[h.resource] = w /\ cursor[h.resource] + 1 = h.offset
            THEN [cursor EXCEPT ![h.resource] = h.offset] ELSE cursor

Return(w) ==
  \E h \in work[w] :
    /\ h.left = {}
    /\ work' = [work EXCEPT ![w] = {}]
    /\ Resolve(w, h)
    /\ UNCHANGED <<signalVars, faults, today, others, owner, committed, start, findings,
                   rebalances, dropped, takenOver>>

(* A send throws: the signal is dead-lettered, with what was published.    *)
Fail(w) ==
  \E h \in work[w] :
    /\ h.left # {} /\ faults < MaxFaults
    /\ faults' = faults + 1
    /\ work' = [work EXCEPT ![w] = {}]
    /\ Resolve(w, h)
    /\ dropped' = dropped \cup {<<h.resource, h.offset>>}
    /\ UNCHANGED <<signalVars, today, others, owner, committed, start, findings,
                   rebalances, takenOver>>

CommitFetched(r) ==             \* mutated form: what was fetched is committed
  /\ committed[r] < Len(log[r])
  /\ committed' = [committed EXCEPT ![r] = Len(log[r])]
  /\ UNCHANGED <<signalVars, faults, today, others, owner, cursor, start, work, findings,
                 rebalances, dropped, takenOver>>
Commit(r) ==
  /\ committed[r] < cursor[r] /\ start[r] < cursor[r]
  /\ committed' = [committed EXCEPT ![r] = cursor[r]]
  /\ UNCHANGED <<signalVars, faults, today, others, owner, cursor, start, work, findings,
                 rebalances, dropped, takenOver>>

(* Where the partitions in S are read from when they are assigned: at the  *)
(* committed offset, or at the end if there is none (fromBeginning false). *)
Restart(S) ==
  /\ cursor' = [r \in Resources |-> IF r \notin S THEN cursor[r]
                                   ELSE IF committed[r] = NoOffset THEN Len(log[r])
                                   ELSE committed[r]]
  /\ start' = [r \in Resources |-> IF r \in S /\ committed[r] = NoOffset
                                  THEN Len(log[r]) ELSE start[r]]

(* A replica dies and comes back.  What arrives in between arrives, in     *)
(* this model, at a replica that is about to die.                          *)
Crash(w) ==
  /\ faults < MaxFaults
  /\ faults' = faults + 1
  /\ work' = [work EXCEPT ![w] = {}]
  /\ Restart({r \in Resources : owner[r] = w})
  /\ UNCHANGED <<signalVars, today, others, owner, committed, findings, rebalances,
                 dropped, takenOver>>

Rebalance(r, w) ==
  /\ rebalances < MaxRebalances /\ owner[r] # w
  /\ rebalances' = rebalances + 1
  /\ owner' = [owner EXCEPT ![r] = w]
  /\ Restart({r})
  /\ takenOver' = IF \E h \in work[owner[r]] : h.resource = r
                  THEN takenOver \cup {r} ELSE takenOver
  /\ UNCHANGED <<signalVars, faults, today, others, committed, work, findings, dropped>>

engineVars == <<today, others, queue, work, findings, rebalances, dropped, takenOver>>

Ingest ==
  /\ \E p \in Collectors : \/ \E post \in Posts : Post(p, post)
                           \/ NormalizeNext(p) \/ PublishSignal(p)
                           \/ SignalFails(p) \/ Reply(p)
  /\ UNCHANGED engineVars

Next ==
  \/ Ingest
  \/ \E s \in OtherSignals : Arrive(s)
  \/ Tick
  \/ \E w \in Workers : \/ \E r \in Resources : Start(w, r) \/ Reject(w, r)
                        \/ PublishFinding(w) \/ Return(w) \/ Fail(w) \/ Crash(w)
  \/ \E r \in Resources : Commit(r)
  \/ \E r \in Resources, w \in Workers : Rebalance(r, w)

Handle(w) == (\E r \in Resources : Start(w, r) \/ Reject(w, r)) \/ PublishFinding(w) \/ Return(w)

Spec == Init /\ [][Next]_vars
(* A replica keeps polling, and a send is acknowledged or throws.          *)
FairSpec == Spec /\ \A w \in Workers : WF_vars(Handle(w))
-----------------------------------------------------------------------------
TypeOK ==
  /\ \A r \in Resources : /\ committed[r] \in {NoOffset} \cup start[r] + 1 .. cursor[r]
                          /\ start[r] \in 0 .. cursor[r] /\ cursor[r] <= Len(log[r])
  /\ \A r \in Resources : \A i \in DOMAIN findings[r] :
       findings[r][i].offset \in 1 .. Len(log[r]) /\ findings[r][i].rule \in RuleIds
  /\ \A w \in Workers : \A h \in work[w] :
       h.resource \in Resources /\ h.offset \in 1 .. Len(log[h.resource])
  /\ accepted \subseteq 1 .. minted
  /\ owner \in [Resources -> Workers]

(* What a rule that does not look at the clock shows of a signal.          *)
Shown(r, o) ==
  \A rule \in Rules :
    rule.id # "SEC-SECRET-EXPIRED" /\ RuleFires(rule, Context(r, log[r][o])) =>
      \E i \in DOMAIN findings[r] : findings[r][i].offset = o /\ findings[r][i].rule = rule.id

(* A signal that is finished with has every finding its attributes call    *)
(* for on the bus, whatever other rule threw on them, or is dead-lettered. *)
(* It is not finished with but passed over if it was there before the      *)
(* group, with nothing committed, last began at the end.                   *)
FinishedIsShown ==
  \A r \in Resources : \A o \in start[r] + 1 .. cursor[r] :
    <<r, o>> \in dropped \/ Shown(r, o)

(* No partition is held up by a crash, a rebalance or a signal that the    *)
(* contract refuses: the replicas come to its end again.                   *)
PartitionsCatchUp ==
  \A r \in Resources : (cursor[r] < Len(log[r])) ~> (cursor[r] = Len(log[r]))

(* Evaluated again, a signal's finding is never less severe than it was,   *)
(* in the order the bus has them, unless a replica was still publishing    *)
(* for a partition that had moved.                                         *)
SeverityRank == [s \in {"critical", "high", "medium", "low"} |->
                   CASE s = "critical" -> 4 [] s = "high" -> 3 [] s = "medium" -> 2 [] s = "low" -> 1]
SeverityFallsOnlyByTakeover ==
  \A r \in Resources \ takenOver : \A i, j \in DOMAIN findings[r] :
    (i < j /\ findings[r][i].rule = findings[r][j].rule
           /\ findings[r][i].offset = findings[r][j].offset)
      => SeverityRank[findings[r][i].severity] <= SeverityRank[findings[r][j].severity]

(* What the four collectors can bring to light: what a pod's containers    *)
(* and network show, and what is missing from an image or a pipeline.  No  *)
(* other rule of the catalog is ever fired by them.                        *)
CollectorsShow ==
  \A r \in Resources : \A i \in DOMAIN findings[r] :
    log[r][findings[r][i].offset].via = "collector" =>
      \/ /\ InferKind(r) = "kubernetes-workload"
         /\ findings[r][i].rule \in {"K8S-PRIVILEGED-CONTAINER", "K8S-ROOT-CONTAINER",
                                     "K8S-MISSING-RESOURCE-LIMITS", "K8S-HOST-NETWORK"}
      \/ InferKind(r) = "container-image" /\ findings[r][i].rule = "IMG-UNSIGNED"
      \/ InferKind(r) = "ci-pipeline" /\ findings[r][i].rule = "CICD-NO-SECURITY-SCAN"
=============================================================================
