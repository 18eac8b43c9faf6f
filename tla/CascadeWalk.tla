----------------------------- MODULE CascadeWalk -----------------------------
(***************************************************************************)
(* The walk of wadl-engine's cascade_from: which compartments a hazard     *)
(* reaches over a hull's couplings within a rule's bound.                  *)
(*                                                                         *)
(* A coupling edge is directed (a symmetric coupling is two edges) and     *)
(* carries its type's code and reach.  The walk is breadth first; what it  *)
(* has visited is keyed by compartment AND coupling type, and the origin   *)
(* is never reached.  The edges out of a compartment are taken in any      *)
(* order, which covers every order they may have been authored in.         *)
(***************************************************************************)
EXTENDS Naturals, Sequences, FiniteSets

CONSTANTS
  Compartments,
  Types,      \* the hull's coupling types
  Codes,      \* their stable codes, which rules name
  CodeOf,     \* each type's code
  ReachOf,    \* each type's hop budget
  AnyCode,    \* the bound of a rule that names no code
  TopDepth,   \* the largest hop depth there is: depths saturate at it
  Hops,       \* the hop bounds rules place on a walk
  Graphs      \* the sets of coupling edges a hull may have

Edges == [from : Compartments, to : Compartments, type : Types]

(* Depths are bytes, and every reach a type is given lies below the top.   *)
ASSUME CascadeAssumption ==
  /\ TopDepth \in Nat \ {0}
  /\ CodeOf \in [Types -> Codes]
  /\ ReachOf \in [Types -> 0 .. TopDepth - 1]
  /\ Hops \subseteq 0 .. TopDepth
  /\ AnyCode \notin Codes
  /\ Graphs \subseteq SUBSET Edges

VARIABLES
  graph,    \* the hull's couplings
  origin,   \* the compartment the hazard is in
  bound,    \* the rule's hop bound and the code it follows
  queue,    \* the places reached and not yet expanded, first reached first
  place,    \* the place being expanded
  rest,     \* the edges out of it still to be looked at
  visited,  \* the (compartment, type) pairs reached
  hits      \* the hits, in the order they were found

walk == <<queue, place, rest, visited, hits>>
walk_vars == <<graph, origin, bound, queue, place, rest, visited, hits>>

increment(depth) == IF depth < TopDepth THEN depth + 1 ELSE TopDepth

(* Whether a coupling carries the hazard as its depth-th hop.              *)
Carries(e, depth) ==
  /\ depth <= bound.max_hops
  /\ depth <= ReachOf[e.type]
  /\ bound.code \in {AnyCode, CodeOf[e.type]}

(* ... to somewhere other than where the hazard is.                        *)
Admits(e, depth) == Carries(e, depth) /\ e.to # origin

WalkInit ==
  /\ graph \in Graphs
  /\ origin \in Compartments
  /\ bound \in [max_hops : Hops, code : Codes \cup {AnyCode}]
  /\ place = [compartment |-> origin, depth |-> 0, path |-> <<>>]
  /\ queue = <<place>>
  /\ rest = {}
  /\ visited = {}
  /\ hits = <<>>

\* Mutant: couplings are walked against their direction too.
ExpandBothWays ==
  /\ rest = {}
  /\ queue # <<>>
  /\ place' = Head(queue)
  /\ queue' = Tail(queue)
  /\ rest' = IF increment(place'.depth) > bound.max_hops THEN {}
             ELSE {e \in graph : place'.compartment \in {e.from, e.to}}
  /\ UNCHANGED <<graph, origin, bound, visited, hits>>

(* The next place in the queue is expanded, unless it lies at the bound.   *)
Expand ==
  /\ rest = {}
  /\ queue # <<>>
  /\ place' = Head(queue)
  /\ queue' = Tail(queue)
  /\ rest' = IF increment(place'.depth) > bound.max_hops THEN {}
             ELSE {e \in graph : e.from = place'.compartment}
  /\ UNCHANGED <<graph, origin, bound, visited, hits>>

(* An edge that does not carry the hazard, or leads to a place the walk    *)
(* has been by a coupling of this type, is passed over.                    *)
PassOver(e) ==
  /\ e \in rest
  /\ \/ ~Admits(e, increment(place.depth))
     \/ <<e.to, e.type>> \in visited
  /\ rest' = rest \ {e}
  /\ UNCHANGED <<graph, origin, bound, queue, place, visited, hits>>

\* Mutant: the place reached last is expanded first.
FollowDeep(e) ==
  /\ e \in rest
  /\ Admits(e, increment(place.depth))
  /\ <<e.to, e.type>> \notin visited
  /\ LET hit == [compartment |-> e.to, depth |-> increment(place.depth),
                 path |-> Append(place.path, e)]
     IN /\ hits' = Append(hits, hit)
        /\ queue' = <<hit>> \o queue
  /\ visited' = visited \cup {<<e.to, e.type>>}
  /\ rest' = rest \ {e}
  /\ UNCHANGED <<graph, origin, bound, place>>

(* Any other edge is a hit, to be expanded in its turn.                    *)
Follow(e) ==
  /\ e \in rest
  /\ Admits(e, increment(place.depth))
  /\ <<e.to, e.type>> \notin visited
  /\ LET hit == [compartment |-> e.to, depth |-> increment(place.depth),
                 path |-> Append(place.path, e)]
     IN /\ hits' = Append(hits, hit)
        /\ queue' = Append(queue, hit)
  /\ visited' = visited \cup {<<e.to, e.type>>}
  /\ rest' = rest \ {e}
  /\ UNCHANGED <<graph, origin, bound, place>>

Done == queue = <<>> /\ rest = {}

WalkNext == Expand \/ \E e \in graph : PassOver(e) \/ Follow(e)

WalkSpec == WalkInit /\ [][WalkNext]_walk_vars

-----------------------------------------------------------------------------
TypeOf(hit) == hit.path[Len(hit.path)].type

Places == [compartment : Compartments, depth : 0 .. TopDepth, path : Seq(Edges)]

WalkTypeOK ==
  /\ graph \subseteq Edges
  /\ origin \in Compartments
  /\ bound \in [max_hops : Hops, code : Codes \cup {AnyCode}]
  /\ queue \in Seq(Places)
  /\ place \in Places
  /\ rest \subseteq graph
  /\ visited \subseteq Compartments \X Types
  /\ hits \in Seq(Places)

(* A hit's path is a walk the rule allows: from the origin to the hit,     *)
(* along couplings in their direction, as many as its depth says, none     *)
(* beyond the rule's bound, its code or the coupling's own reach, and      *)
(* never back to the origin.                                               *)
IsWalkTo(p) ==
  /\ Len(p.path) = p.depth
  /\ \A i \in 1 .. p.depth : p.path[i] \in graph /\ Admits(p.path[i], i)
  /\ \A i \in 1 .. p.depth :
       p.path[i].from = IF i = 1 THEN origin ELSE p.path[i - 1].to
  /\ p.compartment = IF p.depth = 0 THEN origin ELSE p.path[p.depth].to

(* The hop bound is never exceeded and no coupling is walked against its   *)
(* direction: the path a decision's trace shows is one the hull has.       *)
HitsAreWalks == \A i \in DOMAIN hits : hits[i].depth > 0 /\ IsWalkTo(hits[i])

(* A compartment is a hit once for each type of coupling it is reached by, *)
(* so a space exposed twice shows both ways and neither twice.             *)
OneHitPerType ==
  \A i, j \in DOMAIN hits :
    /\ hits[i].compartment = hits[j].compartment
    /\ TypeOf(hits[i]) = TypeOf(hits[j])
    => i = j

(* A hit at the end of e no deeper than depth.                             *)
HitBy(e, depth) ==
  \E i \in DOMAIN hits :
    /\ hits[i].compartment = e.to
    /\ TypeOf(hits[i]) = e.type
    /\ hits[i].depth <= depth

(* When the walk ends nothing exposed is missing: every coupling that      *)
(* would carry the hazard out of the origin, or one hop on from a hit, led *)
(* to a hit no deeper.                                                     *)
NothingMissed ==
  Done =>
    \A e \in graph :
      /\ e.from = origin /\ Admits(e, 1) => HitBy(e, 1)
      /\ \A i \in DOMAIN hits :
           /\ e.from = hits[i].compartment
           /\ Admits(e, hits[i].depth + 1)
           => HitBy(e, hits[i].depth + 1)

(* The walk's hits are what the couplings expose, no more and no less: the *)
(* hazard reaches every hit, and nothing it reaches is missing.            *)
WalkIsExact == HitsAreWalks /\ NothingMissed

(* The (compartment, type) pairs at the end of a walk of n hops the rule   *)
(* allows: the definition the walk is checked against.                     *)
WalkEnds ==
  LET ends[n \in 1 .. TopDepth] ==
        LET sources == IF n = 1 THEN {origin} ELSE {x[1] : x \in ends[n - 1]}
        IN {<<e.to, e.type>> : e \in {f \in graph : f.from \in sources /\ Admits(f, n)}}
  IN ends

(* "Breadth-first, so a compartment is first reached at its minimal        *)
(* depth": each hit lies at the smallest depth any walk reaches it at, and *)
(* when the walk ends the hits are every pair some walk reaches, each once.*)
HitsAreShallowest ==
  LET ends == WalkEnds
      key(i) == <<hits[i].compartment, TypeOf(hits[i])>>
  IN /\ OneHitPerType
     /\ \A i \in DOMAIN hits :
          /\ key(i) \in ends[hits[i].depth]
          /\ \A n \in 1 .. hits[i].depth - 1 : key(i) \notin ends[n]
     /\ Done => {key(i) : i \in DOMAIN hits} = UNION {ends[n] : n \in 1 .. TopDepth}
=============================================================================
