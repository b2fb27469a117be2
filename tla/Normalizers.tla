---------------------------- MODULE Normalizers ----------------------------
(***************************************************************************)
(* The four normalizers of the signal-engine                               *)
(* (apps/signal-engine/src/normalizers).                                   *)
(*                                                                         *)
(* A resource is a record: the prefix of its id, a name, and the marks in  *)
(* it that inferKind() looks for.  Of a signal's attributes a              *)
(* configuration keeps what rules read; correlationId is what ingest()     *)
(* gives the event, attributes.correlationId or else the resource id.      *)
(***************************************************************************)
EXTENDS Integers, Sequences

SUPPORTED_SOURCES == {"cloudtrail", "kubernetes", "github-actions", "prometheus"}
Environments == {"production", "staging", "development", "sandbox"}
Nothing == <<>>                 \* no attribute that a rule reads

Has(item, field, default) == IF field \in DOMAIN item THEN item[field] ELSE default

ResourceId(r) == r.prefix \o r.name

(* The four normalizers, of one element of a payload.  Whatever a field    *)
(* holds is passed on: the environment of a label, the containers of a     *)
(* pod, which may be malformed.                                            *)
Plain(prefix, name) == [prefix |-> prefix, name |-> name, marks |-> {}]
Under(prefix, r)    == [prefix |-> prefix, name |-> r.name, marks |-> r.marks]

CloudTrail(item) ==
  LET resource == Has(item, "resource", Plain("", "aws:unknown"))
  IN  [type |-> "audit-event", resource |-> resource,
       service |-> Has(item, "eventSource", "aws"),
       correlationId |-> ResourceId(resource),
       environment |-> Has(item, "environment", "production"),
       severity |-> CASE item.eventName \in {"DeleteTrail", "StopLogging"} -> "critical"
                      [] item.eventName \in {"PutBucketAcl", "AuthorizeSecurityGroupIngress"} -> "high"
                      [] item.eventName \in {"CreateAccessKey", "AttachRolePolicy"} -> "medium"
                      [] OTHER -> "info",
       configuration |-> Nothing, malformed |-> {}]

Kubernetes(item) ==
  LET resource == Under("k8s:", item.object)
  IN  [type |-> "infrastructure-event", resource |-> resource,
       service |-> Has(item, "service", resource.name),
       correlationId |-> ResourceId(resource),
       environment |-> Has(item, "environment", "production"),
       severity |-> IF item.warning THEN "medium" ELSE "info",
       configuration |-> [containers |-> Has(item, "containers", {}),
                          hostNetwork |-> Has(item, "hostNetwork", FALSE)],
       malformed |-> Has(item, "malformed", {})]

GithubActions(run) ==
  LET resource == Under("service:", run.repository)
  IN  [type |-> "deployment-event", resource |-> resource,
       service |-> run.repository.name,
       correlationId |-> Has(run, "head_sha", ResourceId(resource)),
       environment |-> Has(run, "environment", "production"),
       severity |-> IF Has(run, "conclusion", "success") # "success" THEN "high" ELSE "info",
       configuration |-> Nothing, malformed |-> {}]

Prometheus(alert) ==
  LET labelled == Has(alert, "service", Plain("", "unknown"))
      resource == Has(alert, "resource", Under("service:", labelled))
  IN  [type |-> "performance-alert", resource |-> resource,
       service |-> labelled.name,
       correlationId |-> ResourceId(resource),
       environment |-> Has(alert, "environment", "production"),
       severity |-> CASE alert.severity \in {"critical", "page"} -> "critical"
                      [] alert.severity = "info" -> "info" [] OTHER -> "medium",
       configuration |-> Nothing, malformed |-> {}]

SignalOf(source, item) ==
  CASE source = "cloudtrail"     -> CloudTrail(item)
    [] source = "kubernetes"     -> Kubernetes(item)
    [] source = "github-actions" -> GithubActions(item)
    [] source = "prometheus"     -> Prometheus(item)

(* normalize(): the signals of a payload, each with the place of its       *)
(* element.  Resolved alerts are dropped.  Elements that are null are      *)
(* dropped too: a body has none.                                           *)
Dropped(source, item) == source = "prometheus" /\ item.status = "resolved"
Normalize(source, body) ==
  {[at |-> i, signal |-> SignalOf(source, body.items[i])] :
     i \in {j \in DOMAIN body.items : ~Dropped(source, body.items[j])}}
=============================================================================
