-------------------------- MODULE MCLifecycleRaces --------------------------
(* LifecycleRaces for TLC: two requests at a time and two workers; one of    *)
(* each is enough where nothing has to overlap.                              *)
EXTENDS LifecycleRaces, TLC

CONSTANTS r1, r2, w1, w2

OneRequest == {r1}
OneWorker == {w1}
TwoRequests == {r1, r2}
TwoWorkers == {w1, w2}

Sessions == Permutations(TwoRequests) \cup Permutations(TwoWorkers)
=============================================================================
