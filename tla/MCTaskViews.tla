---------------------------- MODULE MCTaskViews -----------------------------
(* Two tasks, two writers and one request.                                *)
EXTENDS TaskViews, TLC

CONSTANTS a, b, w1, w2, r1

symmetric == Permutations({a, b}) \cup Permutations({w1, w2})
=============================================================================
