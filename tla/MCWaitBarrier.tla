---------------------------- MODULE MCWaitBarrier ----------------------------
(* The barrier for TLC: two values, and a predicate for each of them.      *)
EXTENDS WaitBarrier

CONSTANTS Started, Collection

MCValues == {Started, Collection}

MCPredicates == {{Started}, {Collection}}
=============================================================================
