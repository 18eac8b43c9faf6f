---------------------------- MODULE MCAuditLedger ----------------------------
(* Instances of the ledger for TLC: two hulls, two actors, and a store that *)
(* starts empty or with a format-1 chain of two entries on one hull.        *)
EXTENDS LedgerVerify, TLC

CONSTANTS h1, h2

Empty == [table |-> {}, nextSeq |-> 1]
MCStartsEmpty == {Empty}
MCStarts == {Empty, [table |-> build_chain(h1, 2), nextSeq |-> 3]}
LedgerSymmetry == Permutations(Requests)
=============================================================================
