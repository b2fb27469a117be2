------------------------------ MODULE MCConsole ------------------------------
(* Two assets of one environment and two providers, a critical and a       *)
(* healthy one, two migrations run by two processes of which one may fail, *)
(* and two runs of the seed.                                               *)
EXTENDS Console

CONSTANTS m1, m2

OneFailure == [m \in Migrators |-> IF m = m1 THEN 1 ELSE 0]
MCFiles == <<"0001_init", "the next one">>
MCEnvironment(i) == "production"
MCProvider(i) == IF i = 1 THEN "aws" ELSE "gcp"
MCFindingsOf(health) == CASE health = "critical" -> 2 [] health = "at-risk" -> 1 [] OTHER -> 0
MCStatus(i) == CASE i = 1 -> "open" [] i = 2 -> "resolved" [] OTHER -> "acknowledged"
MCRuleSeverity(i) == IF i = 3 THEN "low" ELSE "high"
MCShape == <<"P1">>
MCSamples == {<<"inc", 1>>}
MCLive == {<<"live", 1>>}
=============================================================================
