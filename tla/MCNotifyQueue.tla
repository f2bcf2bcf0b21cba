--------------------------- MODULE MCNotifyQueue ----------------------------
\* One robot that gets both items and one that gets the second item only.
EXTENDS NotifyQueue

CONSTANTS i1, i2, r1, r2, h1, h2

mcItem == {i1, i2}
mcRobot == {r1, r2}
mcWants == [i \in mcItem |-> IF i = i1 THEN {r1} ELSE {r1, r2}]
oneHandler == {h1}
ownKeys == [r \in mcRobot |-> r]
oneKey == [r \in mcRobot |-> r1]
twoHandlers == {h1, h2}
=============================================================================
