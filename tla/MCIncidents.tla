---------------------------- MODULE MCIncidents ----------------------------
(* Small instances of Incidents: two replicas, and clusters of one story    *)
(* that grow from two members to three, the third of which is observed in   *)
(* production.                                                              *)
EXTENDS Incidents, TLC
CONSTANTS k1, k2, w1, w2, small, large

Member(id, severity) == [eventId |-> id, severity |-> severity]
MCPayload ==
  (small :> [members |-> {Member("d", "info"), Member("p", "high")}, from |-> 0,
             environment |-> "staging", confidence |-> 65, assets |-> {"r1", "r2"}])
  @@
  (large :> [members |-> {Member("d", "info"), Member("p", "high"), Member("f", "critical")},
             from |-> 1, environment |-> "production", confidence |-> 100,
             assets |-> {"r1", "r2"}])
MCSnapshots == {small, large}
TwoKeys == {k1, k2}
OneKey == {k1}
MCWorkers == {w1, w2}
AllToOne == [k \in Keys |-> w1]
MCEdits == {"investigating", "closed"}
OnlyClose == {"closed"}
=============================================================================
