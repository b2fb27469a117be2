--------------------------- MODULE SecurityRules ---------------------------
(***************************************************************************)
(* The rule engine and its catalog (packages/security-rules).              *)
(*                                                                         *)
(* A context is what a rule is evaluated against: the asset's kind and     *)
(* environment, the day it is evaluated on, and the configuration, a       *)
(* function from the keys that the signal's attributes have.  A list is a  *)
(* set of what the rules look at in its elements.  malformed holds the     *)
(* keys whose value is no list of the right elements: the contract accepts *)
(* any attribute, and a rule that goes through such a value throws.        *)
(***************************************************************************)
EXTENDS Integers, Sequences

AnyKind == {"kubernetes-workload", "kubernetes-cluster", "cloud-storage", "database",
            "security-group", "iam-role", "container-image", "ci-pipeline", "api-service",
            "virtual-machine"}

(* inferKind(): the first mark that is found decides, wherever in the id   *)
(* it is.  AssetCatalog.get() has nothing else to go by: put() is called   *)
(* nowhere, so that the key it reads is never there.                       *)
InferKind(r) ==
  IF r.prefix = "k8s:" THEN "kubernetes-workload"
  ELSE IF r.marks \cap {":s3:", "bucket"} # {} THEN "cloud-storage"
  ELSE IF r.marks \cap {":rds:", "db-"} # {} THEN "database"
  ELSE IF r.marks \cap {":security-group", "sg-"} # {} THEN "security-group"
  ELSE IF ":role/" \in r.marks THEN "iam-role"
  ELSE IF r.prefix = "image:" THEN "container-image"
  ELSE IF r.prefix = "pipeline:" THEN "ci-pipeline"
  ELSE IF r.prefix = "service:" THEN "api-service"
  ELSE "virtual-machine"

(* A rule: its id, category and severity, the kinds of asset that          *)
(* appliesTo() lets pass, and the list it goes through, if it does.        *)
Rule(id, category, severity, kinds, list) ==
  [id |-> id, category |-> category, severity |-> severity, kinds |-> kinds, list |-> list]

Cfg(c, key, default) == IF key \in DOMAIN c.configuration THEN c.configuration[key] ELSE default

cloudRules ==
  <<Rule("CLOUD-STORAGE-PUBLIC", "cloud", "critical", {"cloud-storage"}, "none"),
    Rule("CLOUD-DB-PUBLIC", "cloud", "critical", {"database"}, "none"),
    Rule("CLOUD-SG-OPEN-ADMIN", "cloud", "high", {"security-group"}, "ingress"),
    Rule("CLOUD-IAM-WILDCARD", "cloud", "high", {"iam-role"}, "statements"),
    Rule("CLOUD-RESOURCE-UNENCRYPTED", "cloud", "medium",
         {"cloud-storage", "database", "virtual-machine"}, "none")>>
CloudMatched(id, c) ==
  CASE id = "CLOUD-STORAGE-PUBLIC" ->
         Cfg(c, "acl", "none") \in {"public-read", "public-read-write"}
           \/ Cfg(c, "policyAllowsAnonymous", FALSE)
    [] id = "CLOUD-DB-PUBLIC" -> Cfg(c, "publiclyAccessible", FALSE)
    [] id = "CLOUD-SG-OPEN-ADMIN" ->
         \E r \in Cfg(c, "ingress", {}) : r.port \in {22, 3389} /\ r.anywhere
    [] id = "CLOUD-IAM-WILDCARD" ->
         \E s \in Cfg(c, "statements", {}) : s.effect = "Allow" /\ "*" \in s.action \cap s.resource
    [] id = "CLOUD-RESOURCE-UNENCRYPTED" -> ~Cfg(c, "encryptionEnabled", TRUE)

kubernetesRules ==
  <<Rule("K8S-PRIVILEGED-CONTAINER", "kubernetes", "critical",
         {"kubernetes-workload"}, "containers"),
    Rule("K8S-ROOT-CONTAINER", "kubernetes", "high", {"kubernetes-workload"}, "containers"),
    Rule("K8S-MISSING-RESOURCE-LIMITS", "kubernetes", "medium",
         {"kubernetes-workload"}, "containers"),
    Rule("K8S-INSECURE-RBAC", "kubernetes", "critical",
         {"kubernetes-cluster", "kubernetes-workload"}, "roleBindings"),
    Rule("K8S-HOST-NETWORK", "kubernetes", "high", {"kubernetes-workload"}, "none")>>
KubernetesMatched(id, c) ==
  CASE id = "K8S-PRIVILEGED-CONTAINER" -> \E k \in Cfg(c, "containers", {}) : k.privileged
    [] id = "K8S-ROOT-CONTAINER" -> \E k \in Cfg(c, "containers", {}) : k.runAsUser = 0
    [] id = "K8S-MISSING-RESOURCE-LIMITS" -> \E k \in Cfg(c, "containers", {}) : ~k.limited
    [] id = "K8S-INSECURE-RBAC" -> "cluster-admin" \in Cfg(c, "roleBindings", {})
    [] id = "K8S-HOST-NETWORK" -> Cfg(c, "hostNetwork", FALSE)

containerRules ==
  <<Rule("IMG-KNOWN-VULNERABILITIES", "container", "critical",
         {"container-image"}, "vulnerabilities"),
    Rule("IMG-LATEST-TAG", "container", "medium",
         {"container-image", "kubernetes-workload"}, "images"),
    Rule("IMG-UNSIGNED", "container", "high", {"container-image"}, "none"),
    Rule("IMG-PRIVILEGED-RUNTIME", "container", "high",
         {"container-image", "virtual-machine"}, "capabilities")>>
ContainerMatched(id, c) ==
  CASE id = "IMG-KNOWN-VULNERABILITIES" ->
         \E v \in Cfg(c, "vulnerabilities", {}) : v.severity = "critical" /\ v.fixable
    [] id = "IMG-LATEST-TAG" -> Cfg(c, "images", {}) \cap {"latest", "untagged"} # {}
    [] id = "IMG-UNSIGNED" -> ~Cfg(c, "signed", FALSE)
    [] id = "IMG-PRIVILEGED-RUNTIME" ->
         Cfg(c, "capabilities", {}) \cap {"SYS_ADMIN", "NET_ADMIN", "ALL"} # {}

secretsRules ==
  <<Rule("SEC-CREDENTIAL-EXPOSED", "secrets", "critical", AnyKind, "secretMatches"),
    Rule("SEC-ENV-VAR-SECRET", "secrets", "high", AnyKind, "none"),
    Rule("SEC-SECRET-EXPIRED", "secrets", "medium", AnyKind, "none")>>
SecretAge(c) == c.today - c.configuration["secretRotatedAt"]
SecretMaxAge(c) == Cfg(c, "secretMaxAgeDays", 90)
SecretsMatched(id, c) ==
  CASE id = "SEC-CREDENTIAL-EXPOSED" -> Cfg(c, "secretMatches", {}) # {}
    [] id = "SEC-ENV-VAR-SECRET" ->
         \E v \in Cfg(c, "environmentVariables", {}) : v.secret /\ ~v.vaulted
    [] id = "SEC-SECRET-EXPIRED" ->
         "secretRotatedAt" \in DOMAIN c.configuration /\ SecretAge(c) > SecretMaxAge(c)

cicdRules ==
  <<Rule("CICD-NO-SECURITY-SCAN", "cicd", "high", {"ci-pipeline"}, "stages"),
    Rule("CICD-EXCESSIVE-PERMISSIONS", "cicd", "high", {"ci-pipeline"}, "none"),
    Rule("CICD-EXPOSED-SECRETS", "cicd", "critical", {"ci-pipeline"}, "none"),
    Rule("CICD-UNPROTECTED-DEPLOY", "cicd", "medium", {"ci-pipeline"}, "none")>>
CicdMatched(id, c) ==
  CASE id = "CICD-NO-SECURITY-SCAN" -> "scan" \notin Cfg(c, "stages", {})
    [] id = "CICD-EXCESSIVE-PERMISSIONS" ->
         Cfg(c, "permissions", "none") \in {"contents-only-write", "all-write"}
    [] id = "CICD-EXPOSED-SECRETS" -> Cfg(c, "logLeaks", {}) # {}
    [] id = "CICD-UNPROTECTED-DEPLOY" -> Cfg(c, "deployEnvironment", "none") = "open-production"

catalog == cloudRules \o kubernetesRules \o containerRules \o secretsRules \o cicdRules
Rules == {catalog[i] : i \in DOMAIN catalog}
RuleIds == {rule.id : rule \in Rules}

Throws(rule, c) == rule.list \in c.malformed
Matched(rule, c) ==
  CASE rule.category = "cloud" -> CloudMatched(rule.id, c)
    [] rule.category = "kubernetes" -> KubernetesMatched(rule.id, c)
    [] rule.category = "container" -> ContainerMatched(rule.id, c)
    [] rule.category = "secrets" -> SecretsMatched(rule.id, c)
    [] rule.category = "cicd" -> CicdMatched(rule.id, c)
RuleFires(rule, c) == c.kind \in rule.kinds /\ ~Throws(rule, c) /\ Matched(rule, c)

(* severityOverride ?? rule.severity.                                      *)
SeverityOnceExpired(rule, c) ==     \* mutated form: an old secret is no longer news
  IF rule.id = "SEC-SECRET-EXPIRED" /\ SecretAge(c) > 2 * SecretMaxAge(c) THEN "low"
  ELSE rule.severity
Severity(rule, c) ==
  CASE rule.id = "CLOUD-SG-OPEN-ADMIN" /\ c.environment = "production" -> "critical"
    [] rule.id = "SEC-CREDENTIAL-EXPOSED" /\ TRUE \notin Cfg(c, "secretMatches", {}) -> "high"
    [] rule.id = "SEC-SECRET-EXPIRED" /\ SecretAge(c) > 2 * SecretMaxAge(c) -> "high"
    [] OTHER -> rule.severity
Evaluation(i, c) ==
  [at |-> i, rule |-> catalog[i].id, severity |-> Severity(catalog[i], c)]

(* RuleEngine.evaluate(): the rules that fire, each with its place in the  *)
(* catalog, whose order the results are in.                                *)
EvaluateEveryKind(c) ==             \* mutated form: appliesTo is not asked
  {Evaluation(i, c) : i \in {j \in DOMAIN catalog :
                               ~Throws(catalog[j], c) /\ Matched(catalog[j], c)}}
EvaluateUntilThrow(c) ==            \* mutated form: a rule that throws ends the batch
  LET throwing == {i \in DOMAIN catalog : c.kind \in catalog[i].kinds /\ Throws(catalog[i], c)}
  IN  {Evaluation(i, c) : i \in {j \in DOMAIN catalog :
                                   RuleFires(catalog[j], c) /\ \A k \in throwing : j < k}}
Evaluate(c) ==
  {Evaluation(i, c) : i \in {j \in DOMAIN catalog : RuleFires(catalog[j], c)}}
=============================================================================
