--------------------------- MODULE MCHullDocuments ---------------------------
(* HullDocuments with the directories a load may find, for TLC.            *)
EXTENDS HullDocuments, TLC

CONSTANTS r1, r2, r3, h1, h2

MCDirectories == {{"zone_register", "hazard_log"}}
DocumentSymmetry == Permutations(Requests) \cup Permutations(Hashes)
=============================================================================
