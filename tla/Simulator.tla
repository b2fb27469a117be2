----------------------------- MODULE Simulator -----------------------------
(***************************************************************************)
(* The scenarios of the event simulator (tools/event-simulator/src/        *)
(* scenarios): what next() may return at each tick.  No scenario returns   *)
(* more than one message, and steady-state picks one at random: a tick is  *)
(* a set of messages of which one is sent, {} when it sends none.          *)
(***************************************************************************)
EXTENDS Normalizers

SCENARIOS == {"steady-state", "deployment-incident", "exposed-bucket", "credential-leak"}
SERVICES  == {"checkout", "payments", "identity", "catalog", "gateway"}

Message(source, item) == [source |-> source, body |-> [broken |-> FALSE, items |-> <<item>>]]
Resource(prefix, name, marks) == [prefix |-> prefix, name |-> name, marks |-> marks]

(* The commit that credential-leak deploys is not the id of its resource:  *)
(* its correlation id is an explicit one.                                  *)
ASSUME ShaAssumption == "aa11bb22cc33" # ResourceId(Plain("service:", "payments"))

(* A deployment, a latency alert and a privileged workload of one service. *)
DeploymentIncident(tick) ==
  CASE tick = 1 ->
         {Message("github-actions",
            [repository |-> Plain("", "checkout"), head_sha |-> "9f2c41ab7e5d"])}
    [] tick = 3 ->
         {Message("prometheus",
            [status |-> "firing", service |-> Plain("", "checkout"), severity |-> "critical",
             resource |-> Plain("service:", "checkout")])}
    [] tick = 5 ->
         {Message("kubernetes",
            [object |-> Plain("", "checkout"), service |-> "checkout", warning |-> TRUE,
             hostNetwork |-> TRUE,
             containers |-> {[privileged |-> TRUE, runAsUser |-> 0, limited |-> FALSE]}])}
    [] OTHER -> {}

(* A pipeline prints a secret, and a key of its role is created.           *)
CredentialLeak(tick) ==
  CASE tick = 1 ->
         {Message("github-actions",
            [repository |-> Plain("", "payments"), head_sha |-> "aa11bb22cc33"])}
    [] tick = 2 ->
         {Message("cloudtrail",
            [eventName |-> "CreateAccessKey", eventSource |-> "iam.amazonaws.com",
             resource |-> Resource("arn:aws:iam:role/", "payments-ci", {":role/", "/"})])}
    [] OTHER -> {}

(* A bucket is opened to the world, and read again and again.              *)
CustomerExports == Resource("arn:aws:s3:::", "stratus-customer-exports", {":s3:"})
BucketEvent(name) ==
  Message("cloudtrail",
    [eventName |-> name, eventSource |-> "s3.amazonaws.com", resource |-> CustomerExports])
ExposedBucket(tick) ==
  IF tick = 1 THEN {BucketEvent("PutBucketAcl")}
  ELSE IF tick % 4 = 0 THEN {BucketEvent("GetObject")} ELSE {}

(* Routine audit and cluster events about any service.                     *)
SteadyState(services) ==
  {Message("cloudtrail",
     [eventName |-> name, eventSource |-> "ec2.amazonaws.com",
      resource |-> Resource("arn:aws:ec2:instance/", service, {"/"})]) :
     name \in {"DescribeInstances", "GetObject", "AssumeRole", "CreateAccessKey"},
     service \in services}
  \cup
  {Message("kubernetes",
     [object |-> Plain("", service \o "-7d9f"), service |-> service, warning |-> warning]) :
     warning \in BOOLEAN, service \in services}

(* The tick of the n-th call of next(): two of the scenarios start over    *)
(* once theirs has passed the last that matters.                           *)
TickOf(scenario, n) ==
  CASE scenario = "deployment-incident" -> ((n - 1) % 9) + 1
    [] scenario = "credential-leak" -> ((n - 1) % 7) + 1
    [] OTHER -> n

(* What the n-th call returns, steady-state picking among the services.    *)
Returned(scenario, n, services) ==
  LET tick == TickOf(scenario, n) IN
  CASE scenario = "deployment-incident" -> DeploymentIncident(tick)
    [] scenario = "credential-leak" -> CredentialLeak(tick)
    [] scenario = "exposed-bucket" -> ExposedBucket(tick)
    [] scenario = "steady-state" -> SteadyState(services)
=============================================================================
