--------------------------- MODULE MCScheduleRuns ---------------------------
(* Instances of ScheduleRuns for TLC: three requests, one field map, and   *)
(* one document kept by the in-memory store.                               *)
EXTENDS ScheduleRuns, TLC

CONSTANTS r1, r2, r3

RequestSymmetry == Permutations(Requests)
=============================================================================
