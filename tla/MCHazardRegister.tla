-------------------------- MODULE MCHazardRegister --------------------------
(* Instances of HazardRegister for TLC: two keys, a log that lists one key *)
(* twice, and a hull that starts with one seeded hazard.                   *)
EXTENDS HazardRegister, TLC

CONSTANTS a, b, r1, r2, r3

MCKeys == {a, b}
MCLogs == {<<a, a, b>>}
MCSeeds == {<<a>>}
RequestSymmetry == Permutations(Requests)
=============================================================================
