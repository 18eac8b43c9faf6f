--------------------------- MODULE MCCascadeWalk ---------------------------
(* CascadeWalk over every graph of few couplings.                          *)
EXTENDS CascadeWalk, FiniteSetsExt, TLC

CONSTANTS
  trunk, branch,   \* two coupling types
  exhaust, deck,   \* their codes
  MaxEdges         \* the couplings of a hull

TwoTypes == {trunk, branch}
TwoCodes == {exhaust, deck}
TypeCodes == (trunk :> exhaust) @@ (branch :> deck)
TypeReach == (trunk :> 3) @@ (branch :> 2)

(* No space is coupled to itself.                                          *)
SmallGraphs ==
  LET links == {e \in [from : Compartments, to : Compartments, type : TwoTypes] :
                  e.from # e.to}
  IN UNION {kSubset(n, links) : n \in 0 .. MaxEdges}

AnySpace == Permutations(Compartments)
=============================================================================
