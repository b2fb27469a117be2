---------------------------- MODULE MCLiveStream ----------------------------
(* Two workers that provision two of the topics the live stream reads, a   *)
(* browser, and two replicas of the API that have the same process id, as  *)
(* in containers of one image, or different ones.  Workers are alike, and  *)
(* so are replicas: it is enough that one of each fails.                   *)
EXTENDS LiveStream

CONSTANTS r1, r2

MCTopics == <<"findingDetected", "riskScoreUpdated">>
OneTopic == <<"findingDetected">>
OneFault == [w \in Workers |-> IF w = "risk-engine" THEN 1 ELSE 0]
OneCrash == [r \in Replicas |-> IF r = r1 THEN 1 ELSE 0]
DistinctPids == {[r \in Replicas |-> IF r = r1 THEN 7 ELSE 8]}
SamePid == {[r \in Replicas |-> 7]}
=============================================================================
