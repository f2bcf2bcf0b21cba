-------------------------- MODULE MCRelaySessions ---------------------------
\* Two agents of one site that compete for the same tasks, or one of them.
EXTENDS RelaySessions, TLC

CONSTANTS t1, t2, a1, a2

oneTask == {t1}
twoTasks == {t1, t2}
oneAgent == {a1}
twoAgents == {a1, a2}
noTask == {}
mcSite == {"dc1"}
mcChannel == {"db"}
mcTaskSite == [t \in Task |-> "dc1"]
mcTaskChannel == [t \in Task |-> "db"]
mcCreatedAt == [t \in Task |-> 1]
mcAgentSite == [a \in Agent |-> "dc1"]
mcAgentChannels == [a \in Agent |-> {"*"}]
mcSymmetry == Permutations(Task) \cup Permutations(Agent)
=============================================================================
