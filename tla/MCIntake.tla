------------------------------ MODULE MCIntake ------------------------------
\* Two sites and two routes that are enabled; b1 is routed to both sites, and to
\* dc1 on two channels, if it arrives at the path of the first webhook, and to dc1
\* alone from the other; b2 is of another repository; b3 is an event of another type
\* and b4 names no repository.
EXTENDS Intake, TLC

CONSTANTS b1, b2, b3, b4, q1, q2, q3

mcWebhook == {"default", "harbor2"}
mcRepository == {"mysql", "base"}
mcSite == {"dc1", "dc2"}
mcRoutes == {[enabled |-> TRUE, webhookNames |-> {"default"}, patterns |-> {{"mysql"}},
              channel |-> "db", targetSites |-> {"dc1", "dc2"}],
             [enabled |-> TRUE, webhookNames |-> {}, patterns |-> {{"mysql", "base"}},
              channel |-> "all", targetSites |-> {"dc1"}],
             [enabled |-> FALSE, webhookNames |-> {}, patterns |-> {},
              channel |-> "off", targetSites |-> {"dc1", "dc2"}]}
mcTargets == [s \in mcSite |-> [enabled |-> TRUE, patterns |-> {{"base"}}]]
mcBody == {b1, b2, b3, b4}
mcPayloadOf == [b \in mcBody |->
    [repository |-> IF b = b1 THEN "mysql" ELSE "base",
     digests |-> {"sha256:1"}]]
mcKind == [b \in mcBody |-> CASE b = b3 -> "other" [] b = b4 -> "invalid" [] OTHER -> "push"]
mcRequest == {q1, q2, q3}
mcSymmetry == Permutations(mcRequest)
=============================================================================
