-------------------------- MODULE MCEventProcessor --------------------------
(* Small instances of EventProcessor.  One unit of time is 2.5 minutes: the *)
(* window of 15 minutes is 6 and the five minutes of proximityScore are 2.  *)
EXTENDS EventProcessor

Signal(id, type, resource, service, env, corr, sev, at) ==
  [eventId |-> id, type |-> type, resourceId |-> resource, service |-> service,
   environment |-> env, correlationId |-> corr, severity |-> sev, observedAt |-> at]
Finding(id, asset, name, env, corr, sev, at, fid) ==
  [eventId |-> id, assetId |-> asset, assetName |-> name, environment |-> env,
   correlationId |-> corr, severity |-> sev, firstSeenAt |-> at, findingId |-> fid]

(* A deployment without a commit sha and a finding on the same service, 12.5 *)
(* minutes apart, and a latency alert of the same service in another        *)
(* environment.                                                             *)
MCSignals ==
  {Signal("d", "deployment-event", "r1", "checkout", "prod", "r1", "info", 0),
   Signal("q", "performance-alert", "r2", "checkout", "staging", "r2", "high", 3)}
MCFindings ==
  {Finding("f", "r1", "checkout", "prod", "", "high", 5, "rule1:r1")}
MCInstants == {0, 5, 8}
=============================================================================
