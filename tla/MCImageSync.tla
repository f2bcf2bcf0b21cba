---------------------------- MODULE MCImageSync -----------------------------
\* An agent that cleans up and runs two workers, and one that keeps its images.
\* All tasks push to one registry, and the last two also pull from there.  The second
\* task has a tag in common with each of the others; the first is of a channel that
\* only the first agent takes.
EXTENDS ImageSync, TLC

CONSTANTS a1, a2, w1, w2, w3, t1, t2, t3, d1, d2, r1, r2, x, y, src, dst

mcAgent == {a1, a2}
mcWorker == {w1, w2, w3}
mcHostOf == [w \in mcWorker |-> IF w = w3 THEN a2 ELSE a1]
mcTask == {t1, t2, t3}
mcDigest == {d1, d2}
mcRegistry == {r1, r2}
mcRef == {x, y}
mcUser == {src, dst}
mcAge == [t \in Task |-> CASE t = t1 -> 1 [] t = t2 -> 2 [] OTHER -> 3]
mcTakes == [a \in Agent |-> IF a = a1 THEN Task ELSE {t2, t3}]
mcSourceRegistry == [t \in Task |-> IF t = t1 THEN r2 ELSE r1]
mcTargetRegistry == [t \in Task |-> r1]
mcDigestOf == [t \in Task |-> IF t = t2 THEN d2 ELSE d1]
mcRefs == [t \in Task |-> CASE t = t1 -> <<x>> [] t = t2 -> <<y, x>> [] OTHER -> <<y>>]
mcSourceUser == [a \in Agent |-> src]
mcTargetUser == [a \in Agent |-> dst]
mcSymmetry == Permutations({w1, w2})
mcCleanup == [a \in Agent |-> a = a1]
=============================================================================
