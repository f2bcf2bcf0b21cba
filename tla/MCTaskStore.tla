---------------------------- MODULE MCTaskStore -----------------------------
\* Two tasks of one site on two channels, with the same creation time or not;
\* a1 subscribes to one channel, a2 to all of them.
EXTENDS TaskStore

CONSTANTS t1, t2, a1, a2

mcTask == {t1, t2}
mcAgent == {a1, a2}
mcSite == {"dc1"}
mcChannel == {"db", "ai"}
mcTaskSite == [t \in mcTask |-> "dc1"]
mcTaskChannel == [t \in mcTask |-> IF t = t1 THEN "db" ELSE "ai"]
mcCreatedAt == [t \in mcTask |-> IF t = t1 THEN 2 ELSE 1]
mcAgentSite == [a \in mcAgent |-> "dc1"]
mcAgentChannels == [a \in mcAgent |-> IF a = a1 THEN {"db"} ELSE {"*"}]
=============================================================================
