---------------------------- MODULE SearchProofs ----------------------------
(***************************************************************************)
(* The engine's two searches: the walk over couplings that finds what a    *)
(* hazard reaches (CascadeWalk), and the one over time that finds a window *)
(* (ViableWindow).                                                         *)
(*                                                                         *)
(* The walk is sound and complete for every hull and every bound: what it  *)
(* hits is at the end of an allowed walk, once per coupling type, and when *)
(* it ends no coupling that would carry the hazard further was passed by.  *)
(*                                                                         *)
(* Completeness needs the queue's order.  A pair is marked visited when it *)
(* is first met, so an edge may be passed over because its end is already  *)
(* a hit; that hit is deep enough to stand for it only because places are  *)
(* expanded by depth and no hit lies more than one hop beyond the place    *)
(* being expanded.                                                         *)
(*                                                                         *)
(* What ViableWindow promises holds for every table, register, window and  *)
(* horizon.  The argument is wadl-issues' own: a line of the trace, once   *)
(* begun, is there at every instant back to its hazard's raise, so a       *)
(* refusal can only begin at a raise; and it stays there until its hold    *)
(* runs out, unless its hazard is ended first, so no window is permitted   *)
(* before the instant the next one is tried at.                            *)
(***************************************************************************)
EXTENDS CascadeWalk, ViableWindow, FiniteSetTheorems, WellFoundedInduction, TLAPS

-----------------------------------------------------------------------------
(* The walk.                                                               *)
Root == [compartment |-> origin, depth |-> 0, path |-> <<>>]

Reached(p) == p = Root \/ \E i \in DOMAIN hits : hits[i] = p
Queued(p) == \E i \in DOMAIN queue : queue[i] = p

(* What is queued or being expanded is the origin or a hit, and the edges  *)
(* looked at are those that leave it.                                      *)
OnlyReached ==
  /\ Reached(place)
  /\ \A i \in DOMAIN queue : Reached(queue[i])
  /\ \A e \in rest : e.from = place.compartment

(* A pair is marked visited exactly when it is a hit.                      *)
VisitedAreHits ==
  visited = {<<hits[i].compartment, TypeOf(hits[i])>> : i \in DOMAIN hits}

(* Places are queued by depth, none above the place being expanded, and no *)
(* hit lies more than a hop below it.                                      *)
InOrder ==
  /\ \A i, j \in DOMAIN queue : i <= j => queue[i].depth <= queue[j].depth
  /\ \A i \in DOMAIN queue : place.depth <= queue[i].depth
  /\ \A i \in DOMAIN hits : hits[i].depth <= place.depth + 1

(* Every edge out of p that carries the hazard one hop on led to a hit,    *)
(* but for the edges still to be looked at.                                *)
CoveredBut(p, edges) ==
  \A e \in graph \ edges :
    e.from = p.compartment /\ Admits(e, p.depth + 1) => HitBy(e, p.depth + 1)

(* Each place reached is queued, or being expanded, or covered.            *)
Pending ==
  \A p \in Places : Reached(p) =>
    Queued(p) \/ CoveredBut(p, {}) \/ (p = place /\ CoveredBut(p, rest))

WalkInv ==
  /\ WalkTypeOK
  /\ OnlyReached
  /\ HitsAreWalks
  /\ VisitedAreHits
  /\ OneHitPerType
  /\ InOrder
  /\ Pending

-----------------------------------------------------------------------------
LEMMA Increments ==
  ASSUME NEW depth \in 0 .. TopDepth
  PROVE  /\ increment(depth) \in 0 .. TopDepth
         /\ increment(depth) > 0
         /\ increment(depth) = depth + 1 \/ (depth = TopDepth /\ increment(depth) = TopDepth)
BY CascadeAssumption DEF increment

(* No coupling carries anything at the top depth or beyond.                *)
LEMMA CarriedBelowTop ==
  ASSUME NEW e \in Edges, NEW depth \in Nat, Admits(e, depth)
  PROVE  depth < TopDepth
BY CascadeAssumption DEF Edges, Admits, Carries

(* The origin is a place, at the end of the walk of no hops.               *)
LEMMA RootIsAPlace ==
  ASSUME WalkTypeOK
  PROVE  Root \in Places
<1>1. <<>> \in Seq(Edges)
  OBVIOUS
<1> QED
  BY <1>1, CascadeAssumption DEF WalkTypeOK, Places, Root

LEMMA ReachedPlaces ==
  ASSUME WalkTypeOK, NEW p, Reached(p)
  PROVE  p \in Places
BY RootIsAPlace DEF WalkTypeOK, Reached

LEMMA ReachedAreWalks ==
  ASSUME WalkTypeOK, HitsAreWalks, NEW p, Reached(p)
  PROVE  IsWalkTo(p)
<1>1. IsWalkTo(Root)
  BY DEF Root, IsWalkTo
<1> QED
  BY <1>1 DEF Reached, HitsAreWalks

-----------------------------------------------------------------------------
LEMMA InitInv == WalkInit => WalkInv
<1> SUFFICES ASSUME WalkInit PROVE WalkInv
  OBVIOUS
<1>1. place = Root /\ place \in Places /\ <<place>> \in Seq(Places)
  <2>1. <<>> \in Seq(Edges)
    OBVIOUS
  <2>2. place \in Places
    BY <2>1, CascadeAssumption DEF WalkInit, Places
  <2> QED
    BY <2>2 DEF WalkInit, Root
<1>2. WalkTypeOK
  BY <1>1, CascadeAssumption DEF WalkInit, WalkTypeOK
<1>3. Len(queue) = 1 /\ queue[1] = Root /\ DOMAIN queue = {1}
  BY <1>1 DEF WalkInit
<1>4. OnlyReached
  BY <1>1, <1>3 DEF WalkInit, OnlyReached, Reached
<1>5. HitsAreWalks /\ VisitedAreHits /\ OneHitPerType
  BY DEF WalkInit, HitsAreWalks, VisitedAreHits, OneHitPerType
<1>6. InOrder
  BY <1>1, <1>3 DEF WalkInit, InOrder, Root
<1>7. Pending
  BY <1>3 DEF WalkInit, Pending, Reached, Queued
<1> QED
  BY <1>2, <1>4, <1>5, <1>6, <1>7 DEF WalkInv

(* What an expansion takes from a sequence, and what a hit adds to one.    *)
LEMMA TailElements ==
  ASSUME NEW S, NEW s \in Seq(S), s # <<>>
  PROVE  /\ Len(s) \in Nat \ {0}
         /\ Head(s) = s[1] /\ Head(s) \in S
         /\ Tail(s) \in Seq(S)
         /\ DOMAIN Tail(s) = 1 .. Len(s) - 1
         /\ \A i \in DOMAIN Tail(s) : i + 1 \in DOMAIN s /\ Tail(s)[i] = s[i + 1]
         /\ \A i \in DOMAIN s : i = 1 \/ (i - 1 \in DOMAIN Tail(s) /\ Tail(s)[i - 1] = s[i])
<1>1. Len(s) \in Nat \ {0} /\ DOMAIN s = 1 .. Len(s)
  OBVIOUS
<1>2. Head(s) = s[1] /\ Head(s) \in S /\ Tail(s) \in Seq(S)
  BY <1>1
<1>3. Len(Tail(s)) = Len(s) - 1 /\ DOMAIN Tail(s) = 1 .. Len(s) - 1
  BY <1>1, <1>2
<1>4. \A i \in 1 .. Len(s) - 1 : Tail(s)[i] = s[i + 1]
  BY <1>1
<1> QED
  BY <1>1, <1>2, <1>3, <1>4

LEMMA AppendElements ==
  ASSUME NEW S, NEW s \in Seq(S), NEW x \in S
  PROVE  /\ Len(s) \in Nat
         /\ Append(s, x) \in Seq(S)
         /\ DOMAIN s = 1 .. Len(s)
         /\ DOMAIN Append(s, x) = DOMAIN s \cup {Len(s) + 1}
         /\ Append(s, x)[Len(s) + 1] = x
         /\ \A i \in DOMAIN s : Append(s, x)[i] = s[i]
OBVIOUS

-----------------------------------------------------------------------------
(* The next place is the head of the queue: the place behind is covered,   *)
(* and the queue's order makes the new one the shallowest there is.        *)
LEMMA ExpandInv ==
  ASSUME WalkInv, Expand
  PROVE  WalkInv'
<1>1. /\ queue \in Seq(Places) /\ queue # <<>> /\ rest = {}
      /\ place' = Head(queue) /\ queue' = Tail(queue)
      /\ UNCHANGED <<graph, origin, bound, visited, hits>>
  BY DEF WalkInv, WalkTypeOK, Expand
<1>2. /\ place' = queue[1] /\ place' \in Places /\ queue' \in Seq(Places)
      /\ 1 \in DOMAIN queue
      /\ DOMAIN queue' = 1 .. Len(queue) - 1
      /\ Len(queue) \in Nat \ {0}
      /\ \A i \in DOMAIN queue' : i + 1 \in DOMAIN queue /\ queue'[i] = queue[i + 1]
      /\ \A i \in DOMAIN queue : i = 1 \/ (i - 1 \in DOMAIN queue' /\ queue'[i - 1] = queue[i])
  BY <1>1, TailElements
<1>3. rest' = {} \/ rest' = {e \in graph : e.from = place'.compartment}
  BY DEF Expand
<1>4. WalkTypeOK'
  BY <1>1, <1>2, <1>3 DEF WalkInv, WalkTypeOK
<1>5. \A p : Reached(p)' <=> Reached(p)
  BY <1>1 DEF Reached, Root
<1>6. OnlyReached'
  <2>1. Reached(place)' /\ \A i \in DOMAIN queue' : Reached(queue[i])'
    BY <1>1, <1>2 DEF WalkInv, OnlyReached, Reached, Root
  <2> QED
    BY <2>1, <1>3 DEF OnlyReached
<1>7. HitsAreWalks' /\ VisitedAreHits' /\ OneHitPerType'
  BY <1>1 DEF WalkInv, HitsAreWalks, IsWalkTo, Admits, Carries, VisitedAreHits, OneHitPerType, TypeOf
<1>8. InOrder'
  <2>1. \A p \in Places : p.depth \in Nat
    BY CascadeAssumption DEF Places
  <2>2. \A i \in DOMAIN hits : hits[i].depth \in Nat /\ hits[i].depth <= place.depth + 1
    BY <2>1 DEF WalkInv, InOrder, WalkTypeOK
  <2>3. place.depth \in Nat /\ place'.depth \in Nat /\ place.depth <= place'.depth
    BY <1>2, <2>1 DEF WalkInv, InOrder, WalkTypeOK
  <2>4. \A i \in DOMAIN hits' : hits'[i].depth <= place'.depth + 1
    BY <1>1, <2>2, <2>3
  <2>5. \A i \in DOMAIN queue' : place'.depth <= queue'[i].depth
    BY <1>2 DEF WalkInv, InOrder
  <2>6. \A i, j \in DOMAIN queue' : i <= j => queue'[i].depth <= queue'[j].depth
    BY <1>2 DEF WalkInv, InOrder
  <2> QED
    BY <2>4, <2>5, <2>6 DEF InOrder
<1>9. Pending'
  <2>1. \A p, edges : CoveredBut(p, edges)' <=> CoveredBut(p, edges)
    BY <1>1 DEF CoveredBut, Admits, Carries, HitBy, TypeOf
  <2>2. CoveredBut(place, rest)'
    <3>1. CASE increment(place'.depth) > bound.max_hops
      <4> SUFFICES ASSUME NEW e \in graph, Admits(e, place'.depth + 1)
                   PROVE  FALSE
        BY <1>1 DEF CoveredBut, Admits, Carries
      <4>1. place'.depth \in 0 .. TopDepth /\ e \in Edges
        BY <1>2 DEF WalkInv, WalkTypeOK, Places
      <4>2. increment(place'.depth) = place'.depth + 1
        BY <4>1, CarriedBelowTop, CascadeAssumption DEF increment
      <4>3. place'.depth + 1 <= bound.max_hops /\ bound.max_hops \in 0 .. TopDepth
        BY CascadeAssumption DEF Admits, Carries, WalkInv, WalkTypeOK
      <4> QED
        BY <3>1, <4>1, <4>2, <4>3
    <3>2. CASE rest' = {e \in graph : e.from = place'.compartment}
      BY <1>1, <3>2 DEF CoveredBut
    <3> QED
      BY <3>1, <3>2 DEF Expand
  <2>3. SUFFICES ASSUME NEW p \in Places, Reached(p)
                 PROVE  Queued(p)' \/ CoveredBut(p, {})' \/ (p = place' /\ CoveredBut(p, rest)')
    BY <1>5 DEF Pending
  <2>4. CASE Queued(p)
    <3>1. PICK i \in DOMAIN queue : queue[i] = p
      BY <2>4 DEF Queued
    <3>2. CASE i = 1
      BY <1>2, <2>2, <3>1, <3>2
    <3>3. CASE i # 1
      BY <1>2, <3>1, <3>3 DEF Queued
    <3> QED
      BY <3>2, <3>3
  <2>5. CASE CoveredBut(p, {})
    BY <2>1, <2>5
  <2> QED
    BY <1>1, <2>3, <2>4, <2>5 DEF WalkInv, Pending
<1> QED
  BY <1>4, <1>6, <1>7, <1>8, <1>9 DEF WalkInv

-----------------------------------------------------------------------------
(* An edge passed over leads nowhere the hazard goes, or to a hit that is  *)
(* no deeper than the one it would have been.                              *)
LEMMA PassOverInv ==
  ASSUME WalkInv, NEW e \in graph, PassOver(e)
  PROVE  WalkInv'
<1>1. /\ UNCHANGED <<graph, origin, bound, queue, place, visited, hits>>
      /\ rest' = rest \ {e} /\ e \in rest
      /\ e \in Edges
  BY DEF PassOver, WalkInv, WalkTypeOK
<1>2. WalkTypeOK'
  BY <1>1 DEF WalkInv, WalkTypeOK
<1>3. OnlyReached' /\ InOrder'
  BY <1>1 DEF WalkInv, OnlyReached, InOrder, Reached, Root
<1>4. HitsAreWalks' /\ VisitedAreHits' /\ OneHitPerType'
  BY <1>1 DEF WalkInv, HitsAreWalks, IsWalkTo, Admits, Carries, VisitedAreHits, OneHitPerType, TypeOf
<1>5. place.depth \in 0 .. TopDepth
  BY DEF WalkInv, WalkTypeOK, Places
<1>6. Admits(e, place.depth + 1) => HitBy(e, place.depth + 1)
  <2> SUFFICES ASSUME Admits(e, place.depth + 1) PROVE HitBy(e, place.depth + 1)
    OBVIOUS
  <2>1. increment(place.depth) = place.depth + 1
    BY <1>1, <1>5, CarriedBelowTop, CascadeAssumption DEF increment
  <2>2. <<e.to, e.type>> \in visited
    BY <2>1 DEF PassOver
  <2>3. PICK i \in DOMAIN hits : e.to = hits[i].compartment /\ e.type = TypeOf(hits[i])
    BY <2>2 DEF WalkInv, VisitedAreHits
  <2> QED
    BY <2>3 DEF WalkInv, InOrder, HitBy
<1>7. CoveredBut(place, rest) => CoveredBut(place, rest)'
  BY <1>1, <1>6 DEF CoveredBut, Admits, Carries, HitBy, TypeOf
<1>8. Pending'
  <2>1. \A p : CoveredBut(p, {})' <=> CoveredBut(p, {})
    BY <1>1 DEF CoveredBut, Admits, Carries, HitBy, TypeOf
  <2>2. \A p : (Reached(p)' <=> Reached(p)) /\ (Queued(p)' <=> Queued(p))
    BY <1>1 DEF Reached, Root, Queued
  <2> QED
    BY <1>1, <1>7, <2>1, <2>2 DEF WalkInv, Pending
<1> QED
  BY <1>2, <1>3, <1>4, <1>8 DEF WalkInv

(* An edge followed adds a hit one hop below the place being expanded, for *)
(* a pair that was none before, at the end of the queue.                   *)
LEMMA FollowInv ==
  ASSUME WalkInv, NEW e \in graph, Follow(e)
  PROVE  WalkInv'
<1> PICK hit : hit = [compartment |-> e.to, depth |-> increment(place.depth),
                      path |-> Append(place.path, e)]
  OBVIOUS
<1>1. /\ UNCHANGED <<graph, origin, bound, place>>
      /\ rest' = rest \ {e} /\ e \in rest /\ e \in Edges
      /\ e.from = place.compartment
      /\ hits' = Append(hits, hit) /\ queue' = Append(queue, hit)
      /\ visited' = visited \cup {<<e.to, e.type>>}
      /\ <<e.to, e.type>> \notin visited
      /\ Admits(e, increment(place.depth))
  BY DEF Follow, WalkInv, WalkTypeOK, OnlyReached
<1>2. /\ place.depth \in 0 .. TopDepth /\ place.path \in Seq(Edges)
      /\ increment(place.depth) = place.depth + 1
      /\ increment(place.depth) \in 0 .. TopDepth
  <2>1. place.depth \in 0 .. TopDepth /\ place.path \in Seq(Edges)
    BY DEF WalkInv, WalkTypeOK, Places
  <2>2. increment(place.depth) \in 0 .. TopDepth /\ increment(place.depth) \in Nat
    BY <2>1, Increments, CascadeAssumption
  <2>3. increment(place.depth) < TopDepth
    BY <1>1, <2>2, CarriedBelowTop
  <2> QED
    BY <2>1, <2>2, <2>3, Increments
<1>3. /\ Len(hit.path) = Len(place.path) + 1
      /\ hit.path \in Seq(Edges)
      /\ hit.path[Len(place.path) + 1] = e
      /\ \A i \in 1 .. Len(place.path) : hit.path[i] = place.path[i]
      /\ Len(place.path) \in Nat
  BY <1>1, <1>2, AppendElements
<1>4. hit \in Places /\ TypeOf(hit) = e.type /\ hit.depth = place.depth + 1 /\ hit.compartment = e.to
  BY <1>1, <1>2, <1>3 DEF Places, TypeOf, Edges
<1>5. /\ hits' \in Seq(Places) /\ DOMAIN hits' = DOMAIN hits \cup {Len(hits) + 1} /\ DOMAIN hits = 1 .. Len(hits)
      /\ hits'[Len(hits) + 1] = hit /\ \A i \in DOMAIN hits : hits'[i] = hits[i]
      /\ Len(hits) \in Nat
  BY <1>1, <1>4, AppendElements DEF WalkInv, WalkTypeOK
<1>6. /\ queue' \in Seq(Places) /\ DOMAIN queue' = DOMAIN queue \cup {Len(queue) + 1}
      /\ DOMAIN queue = 1 .. Len(queue)
      /\ queue'[Len(queue) + 1] = hit /\ \A i \in DOMAIN queue : queue'[i] = queue[i]
      /\ Len(queue) \in Nat
  BY <1>1, <1>4, AppendElements DEF WalkInv, WalkTypeOK
<1>7. WalkTypeOK'
  BY <1>1, <1>5, <1>6 DEF WalkInv, WalkTypeOK, Edges
<1>8. \A p : Reached(p) => Reached(p)'
  BY <1>1, <1>5 DEF Reached, Root
<1>9. OnlyReached'
  <2>1. \A i \in DOMAIN queue' : Reached(queue[i])'
    <3>1. \A i \in DOMAIN queue' : queue'[i] = hit \/ Reached(queue'[i])
      BY <1>6 DEF WalkInv, OnlyReached
    <3>2. \A i \in DOMAIN queue' : queue'[i] = Root \/ \E j \in DOMAIN hits' : hits'[j] = queue'[i]
      <4>1. \A j \in DOMAIN hits : j \in DOMAIN hits' /\ hits'[j] = hits[j]
        BY <1>5
      <4>2. \E j \in DOMAIN hits' : hits'[j] = hit
        BY <1>5
      <4> QED
        BY <3>1, <4>1, <4>2 DEF Reached
    <3> QED
      BY <1>1, <3>2 DEF Reached, Root
  <2>2. Reached(place)'
    BY <1>1, <1>5 DEF WalkInv, OnlyReached, Reached, Root
  <2> QED
    BY <1>1, <2>1, <2>2 DEF WalkInv, OnlyReached
<1>10. IsWalkTo(hit)
  <2>1. IsWalkTo(place)
    BY ReachedAreWalks DEF WalkInv, OnlyReached
  <2>2. Len(place.path) = place.depth
    BY <2>1 DEF IsWalkTo
  <2>3. Len(hit.path) = hit.depth /\ hit.depth \in Nat /\ hit.depth > 0
    BY <1>2, <1>3, <1>4, <2>2
  <2>4. \A i \in 1 .. hit.depth : hit.path[i] \in graph /\ Admits(hit.path[i], i)
    <3> SUFFICES ASSUME NEW i \in 1 .. hit.depth
                 PROVE  hit.path[i] \in graph /\ Admits(hit.path[i], i)
      OBVIOUS
    <3>1. CASE i \in 1 .. Len(place.path)
      <4>1. hit.path[i] = place.path[i]
        BY <1>3, <3>1
      <4>2. place.path[i] \in graph /\ Admits(place.path[i], i)
        BY <2>1, <2>2, <3>1 DEF IsWalkTo
      <4> QED
        BY <4>1, <4>2
    <3>2. CASE i = place.depth + 1
      BY <1>1, <1>2, <1>3, <2>2, <3>2
    <3> QED
      BY <1>2, <1>4, <2>2, <3>1, <3>2
  <2>5. \A i \in 1 .. hit.depth :
          hit.path[i].from = IF i = 1 THEN origin ELSE hit.path[i - 1].to
    <3> SUFFICES ASSUME NEW i \in 1 .. hit.depth
                 PROVE  hit.path[i].from = IF i = 1 THEN origin ELSE hit.path[i - 1].to
      OBVIOUS
    <3>1. CASE i <= place.depth
      <4>1. i \in 1 .. Len(place.path) /\ (i # 1 => i - 1 \in 1 .. Len(place.path))
        BY <1>2, <2>2, <3>1
      <4>2. hit.path[i] = place.path[i] /\ (i # 1 => hit.path[i - 1] = place.path[i - 1])
        BY <1>3, <4>1
      <4>3. place.path[i].from = IF i = 1 THEN origin ELSE place.path[i - 1].to
        BY <2>1, <2>2, <4>1 DEF IsWalkTo
      <4> QED
        BY <4>2, <4>3
    <3>2. CASE i = place.depth + 1
      <4>1. hit.path[i].from = IF place.depth = 0 THEN origin ELSE place.path[place.depth].to
        BY <1>1, <1>3, <2>1, <2>2, <3>2 DEF IsWalkTo
      <4>2. i # 1 => hit.path[i - 1] = place.path[place.depth]
        <5> SUFFICES ASSUME i # 1 PROVE hit.path[i - 1] = place.path[place.depth]
          OBVIOUS
        <5>1. i - 1 = place.depth /\ place.depth \in 1 .. Len(place.path)
          BY <1>2, <2>2, <3>2
        <5> QED
          BY <1>3, <5>1
      <4>3. i = 1 <=> place.depth = 0
        BY <1>2, <3>2
      <4> QED
        BY <4>1, <4>2, <4>3
    <3>3. i <= place.depth \/ i = place.depth + 1
      BY <1>2, <1>4
    <3> QED
      BY <3>1, <3>2, <3>3
  <2>6. hit.compartment = hit.path[hit.depth].to
    BY <1>3, <1>4, <2>2
  <2>7. hit.compartment = IF hit.depth = 0 THEN origin ELSE hit.path[hit.depth].to
    BY <2>3, <2>6
  <2> QED
    BY <2>3, <2>4, <2>5, <2>7, Zenon DEF IsWalkTo
<1>11. HitsAreWalks'
  <2>1. \A p : IsWalkTo(p)' <=> IsWalkTo(p)
    BY <1>1 DEF IsWalkTo, Admits, Carries
  <2>2. hit.depth > 0
    BY <1>2, <1>4
  <2>3. \A i \in DOMAIN hits : hits[i].depth > 0 /\ IsWalkTo(hits[i])
    BY DEF WalkInv, HitsAreWalks
  <2>4. \A i \in DOMAIN hits' : hits'[i] = hit \/ \E j \in DOMAIN hits : hits'[i] = hits[j]
    BY <1>5
  <2>5. \A i \in DOMAIN hits' : hits'[i].depth > 0 /\ IsWalkTo(hits'[i])
    BY <1>10, <2>2, <2>3, <2>4
  <2>6. ASSUME NEW i \in DOMAIN hits'
        PROVE  IsWalkTo(hits[i])'
    <3>1. PICK p : p = hits'[i]
      OBVIOUS
    <3>2. IsWalkTo(p)'
      BY <2>1, <2>5, <3>1
    <3> QED
      BY <3>1, <3>2 DEF IsWalkTo, Admits, Carries
  <2> QED
    BY <2>5, <2>6 DEF HitsAreWalks
<1>12. \A i \in DOMAIN hits : <<hits[i].compartment, TypeOf(hits[i])>> # <<e.to, e.type>>
  BY <1>1 DEF WalkInv, VisitedAreHits
<1>13. \A i \in DOMAIN hits' : TypeOf(hits[i])' = TypeOf(hits'[i])
  BY DEF TypeOf
<1>14. VisitedAreHits'
  <2>1. visited' = {<<hits'[i].compartment, TypeOf(hits'[i])>> : i \in DOMAIN hits'}
    <3>1. \A i \in DOMAIN hits : TypeOf(hits'[i]) = TypeOf(hits[i])
      BY <1>5
    <3>2. {<<hits'[i].compartment, TypeOf(hits'[i])>> : i \in DOMAIN hits'}
            = {<<hits[i].compartment, TypeOf(hits[i])>> : i \in DOMAIN hits}
                \cup {<<hit.compartment, TypeOf(hit)>>}
      BY <1>5, <3>1
    <3> QED
      BY <1>1, <1>4, <3>2 DEF WalkInv, VisitedAreHits
  <2> QED
    BY <1>13, <2>1 DEF VisitedAreHits
<1>15. OneHitPerType'
  <2>1. \A i, j \in DOMAIN hits' :
          hits'[i].compartment = hits'[j].compartment /\ TypeOf(hits'[i]) = TypeOf(hits'[j])
            => i = j
    BY <1>4, <1>5, <1>12 DEF WalkInv, OneHitPerType
  <2> QED
    BY <1>13, <2>1 DEF OneHitPerType
<1>16. \A i \in DOMAIN queue : queue[i].depth <= place.depth + 1 /\ queue[i].depth \in Nat
  <2> SUFFICES ASSUME NEW i \in DOMAIN queue
               PROVE  queue[i].depth <= place.depth + 1 /\ queue[i].depth \in Nat
    OBVIOUS
  <2>1. queue[i] \in Places
    BY <1>6 DEF WalkInv, WalkTypeOK
  <2>2. queue[i].depth \in Nat
    BY <2>1, CascadeAssumption DEF Places
  <2>3. CASE queue[i] = Root
    BY <1>2, <2>2, <2>3 DEF Root
  <2>4. CASE \E j \in DOMAIN hits : hits[j] = queue[i]
    <3>1. PICK j \in DOMAIN hits : hits[j] = queue[i]
      BY <2>4
    <3>2. hits[j].depth <= place.depth + 1
      BY DEF WalkInv, InOrder
    <3> QED
      BY <2>2, <3>1, <3>2
  <2> QED
    BY <2>2, <2>3, <2>4 DEF WalkInv, OnlyReached, Reached
<1>17. InOrder'
  <2>1. \A i, j \in DOMAIN queue' : i <= j => queue'[i].depth <= queue'[j].depth
    <3> SUFFICES ASSUME NEW i \in DOMAIN queue', NEW j \in DOMAIN queue', i <= j
                 PROVE  queue'[i].depth <= queue'[j].depth
      OBVIOUS
    <3>1. CASE j \in DOMAIN queue
      BY <1>6, <3>1 DEF WalkInv, InOrder
    <3>2. CASE j = Len(queue) + 1
      BY <1>2, <1>4, <1>6, <1>16, <3>2
    <3> QED
      BY <1>6, <3>1, <3>2
  <2>2. \A i \in DOMAIN queue' : place'.depth <= queue'[i].depth
    BY <1>1, <1>2, <1>4, <1>6 DEF WalkInv, InOrder
  <2>3. \A i \in DOMAIN hits' : hits'[i].depth <= place'.depth + 1
    BY <1>1, <1>2, <1>4, <1>5 DEF WalkInv, InOrder
  <2> QED
    BY <2>1, <2>2, <2>3 DEF InOrder
<1>18. \A f, depth : HitBy(f, depth) => HitBy(f, depth)'
  <2>1. \A i \in DOMAIN hits : hits[i] = hits'[i] /\ i \in DOMAIN hits'
    BY <1>5
  <2> QED
    BY <2>1 DEF HitBy, TypeOf
<1>19. HitBy(e, place.depth + 1)'
  <2>1. Len(hits) + 1 \in DOMAIN hits' /\ place' = place
    BY <1>1, <1>5
  <2>2. hit.compartment = e.to /\ hit.path[Len(hit.path)].type = e.type
    BY <1>4 DEF TypeOf
  <2>3. hit.depth <= place.depth + 1
    BY <1>2, <1>4
  <2> QED
    BY <1>5, <2>1, <2>2, <2>3 DEF HitBy, TypeOf
<1>20. Pending'
  <2>1. \A p, f : Admits(f, p.depth + 1)' <=> Admits(f, p.depth + 1)
    BY <1>1 DEF Admits, Carries
  <2>2. \A p : CoveredBut(p, {}) => CoveredBut(p, {})'
    BY <1>1, <1>18, <2>1 DEF CoveredBut
  <2>3. CoveredBut(place, rest) => CoveredBut(place, rest)'
    BY <1>1, <1>18, <1>19, <2>1 DEF CoveredBut
  <2>4. \A p : Queued(p) => Queued(p)'
    BY <1>6 DEF Queued
  <2>5. Queued(hit)'
    BY <1>6 DEF Queued
  <2>6. \A p : Reached(p)' => Reached(p) \/ p = hit
    BY <1>1, <1>5 DEF Reached, Root
  <2>7. SUFFICES ASSUME NEW p \in Places, Reached(p)'
                 PROVE  Queued(p)' \/ CoveredBut(p, {})' \/ (p = place' /\ CoveredBut(p, rest)')
    BY DEF Pending
  <2>8. CASE p = hit
    BY <2>5, <2>8 DEF Queued
  <2>9. CASE Reached(p)
    <3>1. Queued(p) \/ CoveredBut(p, {}) \/ (p = place /\ CoveredBut(p, rest))
      BY <2>9 DEF WalkInv, Pending
    <3> QED
      BY <1>1, <2>2, <2>3, <2>4, <3>1
  <2> QED
    BY <2>6, <2>7, <2>8, <2>9
<1> QED
  BY <1>7, <1>9, <1>11, <1>14, <1>15, <1>17, <1>20 DEF WalkInv

LEMMA NextInv == WalkInv /\ [WalkNext]_walk_vars => WalkInv'
<1> SUFFICES ASSUME WalkInv, [WalkNext]_walk_vars PROVE WalkInv'
  OBVIOUS
<1>1. CASE Expand
  BY <1>1, ExpandInv
<1>2. CASE \E e \in graph : PassOver(e) \/ Follow(e)
  BY <1>2, PassOverInv, FollowInv
<1>3. CASE UNCHANGED walk_vars
  BY <1>3 DEF walk_vars, WalkInv, WalkTypeOK, OnlyReached, Reached, Root, HitsAreWalks, IsWalkTo, Admits,
              Carries, VisitedAreHits, TypeOf, OneHitPerType, InOrder, Pending, Queued,
              CoveredBut, HitBy
<1> QED
  BY <1>1, <1>2, <1>3 DEF WalkNext

(* When nothing is queued or left to look at, all that is reached is       *)
(* covered.                                                                *)
LEMMA NothingPending ==
  ASSUME WalkInv
  PROVE  NothingMissed
<1> SUFFICES ASSUME Done, NEW e \in graph
             PROVE  /\ e.from = origin /\ Admits(e, 1) => HitBy(e, 1)
                    /\ \A i \in DOMAIN hits :
                         e.from = hits[i].compartment /\ Admits(e, hits[i].depth + 1)
                           => HitBy(e, hits[i].depth + 1)
  BY DEF NothingMissed
<1>1. \A p : Reached(p) => CoveredBut(p, {})
  <2> SUFFICES ASSUME NEW p, Reached(p) PROVE CoveredBut(p, {})
    OBVIOUS
  <2>1. p \in Places
    BY ReachedPlaces DEF WalkInv
  <2>2. ~Queued(p) /\ rest = {}
    BY DEF Done, Queued
  <2> QED
    BY <2>1, <2>2 DEF WalkInv, Pending
<1>2. CoveredBut(Root, {}) /\ \A i \in DOMAIN hits : CoveredBut(hits[i], {})
  BY <1>1 DEF Reached
<1>3. \A i \in DOMAIN hits :
        e.from = hits[i].compartment /\ Admits(e, hits[i].depth + 1) => HitBy(e, hits[i].depth + 1)
  BY <1>2 DEF CoveredBut
<1>4. e.from = origin /\ Admits(e, 1) => HitBy(e, 1)
  BY <1>2 DEF CoveredBut, Root
<1> QED
  BY <1>3, <1>4

LEMMA WalkInvariance == WalkSpec => []WalkInv
<1> QED
  BY InitInv, NextInv, PTL DEF WalkSpec

-----------------------------------------------------------------------------
(* The walk keeps to compartments and couplings the hull has.              *)
THEOREM WalkTypes == WalkSpec => []WalkTypeOK
<1>1. WalkInv => WalkTypeOK
  BY DEF WalkInv
<1> QED
  BY <1>1, WalkInvariance, PTL

(* A compartment is hit once for each type of coupling that reaches it.    *)
THEOREM HitsAreDistinct == WalkSpec => []OneHitPerType
<1>1. WalkInv => OneHitPerType
  BY DEF WalkInv
<1> QED
  BY <1>1, WalkInvariance, PTL

(* No rule condemns a space its hazard cannot reach, and none it reaches is *)
(* left out: every hit of cascade_from is at the end of a path of couplings, *)
(* each in its direction, within its reach, the rule's bound and the rule's *)
(* code; and when cascade_from returns, marking a pair visited at its first *)
(* meeting has dropped no exposure.                                         *)
THEOREM ExactWalk == WalkSpec => []WalkIsExact
<1>1. WalkInv => HitsAreWalks
  BY DEF WalkInv
<1> QED
  BY <1>1, WalkInvariance, NothingPending, PTL DEF WalkIsExact

-----------------------------------------------------------------------------
(* The walks a rule allows are counted hop by hop, and so is the argument. *)
LEMMA Least ==
  ASSUME NEW Bad, Bad \subseteq Nat, Bad # {}
  PROVE  \E n \in Bad : \A m \in Bad : n <= m
<1> DEFINE R == {p \in Nat \X Nat : p[1] < p[2]}
<1>1. IsWellFoundedOn(R, Nat)
  <2>1. R = OpToRel(<, Nat)
    BY DEF OpToRel
  <2> QED
    BY <2>1, NatLessThanWellFounded
<1>2. \A y, x \in Nat : <<y, x>> \notin R => x <= y
  OBVIOUS
<1> HIDE DEF R
<1>3. PICK n \in Bad : \A m \in Bad : <<m, n>> \notin R
  BY <1>1, WFMin
<1> QED
  BY <1>2, <1>3, Zenon

(* The pairs one hop on from some compartments, as the n-th hop.           *)
Onward(sources, n) ==
  {<<e.to, e.type>> : e \in {f \in graph : f.from \in sources /\ Admits(f, n)}}

Sources(ends, n) == IF n = 1 THEN {origin} ELSE {x[1] : x \in ends[n - 1]}

IsEnds(ends, top) == ends = [n \in 1 .. top |-> Onward(Sources(ends, n), n)]

LEMMA EndsGrow ==
  ASSUME NEW top \in Nat, NEW ends, IsEnds(ends, top)
  PROVE  \E more : IsEnds(more, top + 1)
<1> PICK more : more = [n \in 1 .. top + 1 |->
                          IF n = top + 1 THEN Onward(Sources(ends, n), n) ELSE ends[n]]
  OBVIOUS
<1> PICK k : k = [n \in 1 .. top |-> Onward(Sources(ends, n), n)]
  OBVIOUS
<1>1. ends = k
  BY DEF IsEnds
<1>2. \A n \in 1 .. top + 1 : Sources(more, n) = Sources(ends, n)
  <2> TAKE n \in 1 .. top + 1
  <2>1. n # 1 => n - 1 \in 1 .. top /\ n - 1 \in 1 .. top + 1 /\ n - 1 # top + 1
    OBVIOUS
  <2>2. n # 1 => more[n - 1] = ends[n - 1]
    BY <2>1
  <2> QED
    BY <2>2 DEF Sources
<1>3. \A n \in 1 .. top + 1 : more[n] = Onward(Sources(more, n), n)
  <2> TAKE n \in 1 .. top + 1
  <2>1. CASE n = top + 1
    BY <1>2, <2>1
  <2>2. CASE n # top + 1
    <3>1. n \in 1 .. top
      BY <2>2
    <3>2. more[n] = ends[n] /\ k[n] = Onward(Sources(ends, n), n)
      BY <2>2, <3>1
    <3> QED
      BY <1>1, <1>2, <3>2
  <2> QED
    BY <2>1, <2>2
<1>4. more = [n \in 1 .. top + 1 |-> Onward(Sources(more, n), n)]
  BY <1>3
<1> QED
  BY <1>4 DEF IsEnds

LEMMA EndsExist ==
  ASSUME NEW top \in Nat
  PROVE  \E ends : IsEnds(ends, top)
<1> DEFINE Bad == {n \in Nat : ~\E ends : IsEnds(ends, n)}
<1>1. SUFFICES ASSUME Bad # {} PROVE FALSE
  OBVIOUS
<1>2. PICK m \in Bad : \A n \in Bad : m <= n
  <2> HIDE DEF Bad
  <2>1. Bad \subseteq Nat
    BY DEF Bad
  <2> QED
    BY <1>1, <2>1, Least
<1>3. m # 0
  <2> PICK ends : ends = [n \in 1 .. 0 |-> {}]
    OBVIOUS
  <2>1. [n \in 1 .. 0 |-> Onward(Sources(ends, n), n)] = [n \in 1 .. 0 |-> {}]
    OBVIOUS
  <2>2. IsEnds(ends, 0)
    BY <2>1 DEF IsEnds
  <2> QED
    BY <2>2
<1>4. m - 1 \in Nat /\ m - 1 \notin Bad
  BY <1>2, <1>3
<1>5. \E ends : IsEnds(ends, (m - 1) + 1)
  BY <1>4, EndsGrow
<1>6. (m - 1) + 1 = m
  BY <1>4
<1> QED
  BY <1>5, <1>6

(* What WalkEnds says of each number of hops.                              *)
LEMMA EndsOf ==
  ASSUME NEW n \in 1 .. TopDepth
  PROVE  WalkEnds[n] = Onward(Sources(WalkEnds, n), n)
<1>1. IsEnds(WalkEnds, TopDepth)
  <2>1. WalkEnds = CHOOSE ends : IsEnds(ends, TopDepth)
    BY DEF WalkEnds, IsEnds, Onward, Sources
  <2>2. \E ends : IsEnds(ends, TopDepth)
    BY EndsExist, CascadeAssumption
  <2> QED
    BY <2>1, <2>2
<1> PICK k : k = [i \in 1 .. TopDepth |-> Onward(Sources(WalkEnds, i), i)]
  OBVIOUS
<1>2. WalkEnds = k
  BY <1>1 DEF IsEnds
<1>3. k[n] = Onward(Sources(WalkEnds, n), n)
  OBVIOUS
<1> QED
  BY <1>2, <1>3

LEMMA EndsHas ==
  ASSUME NEW n \in 1 .. TopDepth, NEW e \in graph, Admits(e, n), e.from \in Sources(WalkEnds, n)
  PROVE  <<e.to, e.type>> \in WalkEnds[n]
<1>1. <<e.to, e.type>> \in Onward(Sources(WalkEnds, n), n)
  BY DEF Onward
<1> QED
  BY <1>1, EndsOf

LEMMA EndsHasOnly ==
  ASSUME NEW n \in 1 .. TopDepth, NEW x \in WalkEnds[n]
  PROVE  \E e \in graph :
           x = <<e.to, e.type>> /\ Admits(e, n) /\ e.from \in Sources(WalkEnds, n)
<1>1. x \in Onward(Sources(WalkEnds, n), n)
  BY EndsOf
<1> QED
  BY <1>1 DEF Onward

(* A coupling that carries the hazard so deep carries it less deep too.    *)
LEMMA CarriedLessDeep ==
  ASSUME WalkTypeOK, NEW e \in Edges, NEW deep \in Nat, NEW depth \in Nat, depth <= deep,
         Admits(e, deep)
  PROVE  Admits(e, depth)
<1>1. bound.max_hops \in Nat
  <2>1. bound.max_hops \in Hops /\ Hops \subseteq 0 .. TopDepth
    BY CascadeAssumption DEF WalkTypeOK
  <2>2. bound.max_hops \in 0 .. TopDepth
    BY <2>1
  <2> QED
    BY <2>2
<1>2. ReachOf[e.type] \in Nat
  <2>1. e.type \in Types /\ ReachOf \in [Types -> 0 .. TopDepth - 1]
    BY CascadeAssumption DEF Edges
  <2>2. ReachOf[e.type] \in 0 .. TopDepth - 1
    BY <2>1
  <2> QED
    BY <2>2
<1> QED
  BY <1>1, <1>2 DEF Admits, Carries

LEMMA HitDepths ==
  ASSUME WalkTypeOK, NEW i \in DOMAIN hits
  PROVE  hits[i] \in Places /\ hits[i].depth \in 0 .. TopDepth /\ hits[i].depth \in Nat
<1>1. hits[i] \in Places
  BY DEF WalkTypeOK
<1>2. hits[i].depth \in 0 .. TopDepth
  BY <1>1 DEF Places
<1> QED
  BY <1>1, <1>2

-----------------------------------------------------------------------------
(* Each hop of a hit's path ends a walk of so many hops, the last at the   *)
(* hit itself.                                                             *)
LEMMA PathsAreWalks ==
  ASSUME WalkTypeOK, NEW p \in Places, IsWalkTo(p), NEW k \in 1 .. p.depth
  PROVE  <<p.path[k].to, p.path[k].type>> \in WalkEnds[k]
<1> DEFINE Bad == {i \in 1 .. p.depth : <<p.path[i].to, p.path[i].type>> \notin WalkEnds[i]}
<1>1. SUFFICES ASSUME Bad # {} PROVE FALSE
  OBVIOUS
<1>2. p.depth \in 0 .. TopDepth /\ TopDepth \in Nat
  BY CascadeAssumption DEF Places
<1>3. PICK i \in Bad : \A j \in Bad : i <= j
  <2>1. Bad \subseteq Nat
    OBVIOUS
  <2> HIDE DEF Bad
  <2> QED
    BY <1>1, <2>1, Least
<1>4. i \in 1 .. p.depth /\ i \in 1 .. TopDepth
  BY <1>2, <1>3
<1>5. /\ p.path[i] \in graph /\ Admits(p.path[i], i)
      /\ p.path[i].from = IF i = 1 THEN origin ELSE p.path[i - 1].to
  BY <1>4 DEF IsWalkTo
<1>6. p.path[i].from \in Sources(WalkEnds, i)
  <2>1. CASE i = 1
    BY <1>5, <2>1 DEF Sources
  <2>2. CASE i # 1
    <3>1. i - 1 \in 1 .. p.depth /\ ~(i <= i - 1)
      BY <1>2, <1>4, <2>2
    <3>2. <<p.path[i - 1].to, p.path[i - 1].type>> \in WalkEnds[i - 1]
      BY <1>3, <3>1
    <3>3. p.path[i - 1].to \in {x[1] : x \in WalkEnds[i - 1]}
      BY <3>2
    <3> QED
      BY <1>5, <2>2, <3>3 DEF Sources
  <2> QED
    BY <2>1, <2>2
<1>7. <<p.path[i].to, p.path[i].type>> \in WalkEnds[i]
  BY <1>4, <1>5, <1>6, EndsHas
<1> QED
  BY <1>3, <1>7

LEMMA HitsEndWalks ==
  ASSUME WalkInv, NEW i \in DOMAIN hits
  PROVE  /\ hits[i].depth \in 1 .. TopDepth
         /\ <<hits[i].compartment, TypeOf(hits[i])>> \in WalkEnds[hits[i].depth]
<1> DEFINE p == hits[i]
<1>1. p \in Places /\ p.depth > 0 /\ IsWalkTo(p)
  BY DEF WalkInv, WalkTypeOK, HitsAreWalks
<1>2. p.depth \in 1 .. TopDepth /\ p.depth \in 1 .. p.depth
  BY <1>1, CascadeAssumption DEF Places
<1>3. p.compartment = p.path[p.depth].to /\ TypeOf(p) = p.path[p.depth].type
  BY <1>1, <1>2 DEF IsWalkTo, TypeOf
<1>4. <<p.path[p.depth].to, p.path[p.depth].type>> \in WalkEnds[p.depth]
  BY <1>1, <1>2, PathsAreWalks DEF WalkInv
<1> QED
  BY <1>2, <1>3, <1>4

(* Every place reached above the one being expanded is covered, and every  *)
(* place is when the walk has ended.                                       *)
LEMMA ShallowIsCovered ==
  ASSUME WalkInv, NEW p, Reached(p), p.depth < place.depth \/ Done
  PROVE  CoveredBut(p, {})
<1>1. p \in Places
  BY ReachedPlaces DEF WalkInv
<1>2. CASE Done
  BY <1>1, <1>2 DEF WalkInv, Pending, Done, Queued
<1>3. CASE p.depth < place.depth
  <2>1. p.depth \in Nat /\ place.depth \in Nat /\ p # place
    BY <1>1, <1>3, CascadeAssumption DEF WalkInv, WalkTypeOK, Places
  <2>2. \A i \in DOMAIN queue : place.depth <= queue[i].depth
    BY DEF WalkInv, InOrder
  <2>3. ~Queued(p)
    BY <1>3, <2>1, <2>2 DEF Queued
  <2> QED
    BY <1>1, <2>1, <2>3 DEF WalkInv, Pending
<1> QED
  BY <1>2, <1>3

Hit(x, depth) ==
  \E i \in DOMAIN hits :
    x = <<hits[i].compartment, TypeOf(hits[i])>> /\ hits[i].depth <= depth

(* ... so every pair at the end of a walk of no more hops is a hit, by a   *)
(* walk no longer.                                                         *)
LEMMA EndsAreHit ==
  ASSUME WalkInv, NEW n \in 1 .. TopDepth, n <= place.depth \/ Done, NEW x \in WalkEnds[n]
  PROVE  Hit(x, n)
<1> DEFINE Bad == {m \in 1 .. n : \E y \in WalkEnds[m] : ~Hit(y, m)}
<1>1. SUFFICES ASSUME Bad # {} PROVE FALSE
  <2>1. n \in 1 .. n
    BY CascadeAssumption
  <2> QED
    BY <2>1
<1>2. PICK m \in Bad : \A k \in Bad : m <= k
  <2>1. Bad \subseteq Nat
    OBVIOUS
  <2> HIDE DEF Bad
  <2> QED
    BY <1>1, <2>1, Least
<1>3. /\ m \in 1 .. n /\ m \in 1 .. TopDepth /\ place.depth \in Nat
      /\ m - 1 < place.depth \/ Done
  BY <1>2, CascadeAssumption DEF WalkInv, WalkTypeOK, Places
<1>4. PICK y \in WalkEnds[m] : ~Hit(y, m)
  BY <1>2
<1>5. PICK e \in graph :
        y = <<e.to, e.type>> /\ Admits(e, m) /\ e.from \in Sources(WalkEnds, m)
  BY <1>3, <1>4, EndsHasOnly
<1>6. \E p : Reached(p) /\ p.compartment = e.from /\ p.depth \in Nat /\ p.depth <= m - 1
  <2>1. CASE m = 1
    <3>1. e.from = origin
      BY <1>5, <2>1 DEF Sources
    <3>2. Reached(Root) /\ Root.compartment = origin /\ Root.depth = 0
      BY DEF Reached, Root
    <3> QED
      BY <2>1, <3>1, <3>2
  <2>2. CASE m # 1
    <3>1. m - 1 \in 1 .. n /\ ~(m <= m - 1)
      BY <1>3, <2>2
    <3>2. PICK z \in WalkEnds[m - 1] : e.from = z[1]
      BY <1>5, <2>2 DEF Sources
    <3>3. Hit(z, m - 1)
      BY <1>2, <3>1
    <3>4. PICK i \in DOMAIN hits :
            z = <<hits[i].compartment, TypeOf(hits[i])>> /\ hits[i].depth <= m - 1
      BY <3>3 DEF Hit
    <3>5. Reached(hits[i]) /\ hits[i].depth \in Nat
      BY HitDepths DEF Reached, WalkInv
    <3>6. hits[i].compartment = e.from
      BY <3>2, <3>4
    <3> QED
      BY <3>4, <3>5, <3>6
  <2> QED
    BY <2>1, <2>2
<1>7. PICK p : Reached(p) /\ p.compartment = e.from /\ p.depth \in Nat /\ p.depth <= m - 1
  BY <1>6
<1>8. CoveredBut(p, {})
  <2>1. p.depth < place.depth \/ Done
    BY <1>3, <1>7
  <2> QED
    BY <1>7, <2>1, ShallowIsCovered
<1>9. Admits(e, p.depth + 1)
  <2>1. e \in Edges /\ m \in Nat /\ p.depth + 1 \in Nat /\ p.depth + 1 <= m
    BY <1>3, <1>7 DEF WalkInv, WalkTypeOK
  <2> QED
    BY <1>5, <2>1, CarriedLessDeep DEF WalkInv
<1>10. HitBy(e, p.depth + 1)
  BY <1>7, <1>8, <1>9 DEF CoveredBut
<1>11. PICK i \in DOMAIN hits :
         /\ hits[i].compartment = e.to /\ TypeOf(hits[i]) = e.type
         /\ hits[i].depth <= p.depth + 1
  BY <1>10 DEF HitBy
<1>12. hits[i].depth <= m
  <2>1. hits[i].depth \in Nat
    BY HitDepths DEF WalkInv
  <2> QED
    BY <1>3, <1>7, <1>11, <2>1
<1> QED
  BY <1>4, <1>5, <1>11, <1>12 DEF Hit

LEMMA NoShorterWalk ==
  ASSUME WalkInv, NEW i \in DOMAIN hits, NEW n \in 1 .. hits[i].depth - 1
  PROVE  <<hits[i].compartment, TypeOf(hits[i])>> \notin WalkEnds[n]
<1> SUFFICES ASSUME <<hits[i].compartment, TypeOf(hits[i])>> \in WalkEnds[n]
             PROVE  FALSE
  OBVIOUS
<1>1. hits[i].depth \in 1 .. TopDepth /\ TopDepth \in Nat
  BY HitsEndWalks, CascadeAssumption
<1>2. place.depth \in Nat /\ hits[i].depth <= place.depth + 1
  BY CascadeAssumption DEF WalkInv, WalkTypeOK, Places, InOrder
<1>3. n \in 1 .. TopDepth /\ n <= place.depth /\ n < hits[i].depth
  BY <1>1, <1>2
<1>4. PICK j \in DOMAIN hits :
        /\ <<hits[i].compartment, TypeOf(hits[i])>> = <<hits[j].compartment, TypeOf(hits[j])>>
        /\ hits[j].depth <= n
  BY <1>3, EndsAreHit DEF Hit
<1>5. i = j
  BY <1>4 DEF WalkInv, OneHitPerType
<1> QED
  BY <1>1, <1>3, <1>4, <1>5

(* "A compartment is first reached at its minimal depth": no walk the rule *)
(* allows reaches a hit in fewer hops, and when cascade_from returns its   *)
(* hits are every pair some walk reaches, each once.                       *)
THEOREM ShallowestHits == WalkSpec => []HitsAreShallowest
<1>1. WalkInv => HitsAreShallowest
  <2> SUFFICES ASSUME WalkInv PROVE HitsAreShallowest
    OBVIOUS
  <2> DEFINE key(i) == <<hits[i].compartment, TypeOf(hits[i])>>
             all == UNION {WalkEnds[n] : n \in 1 .. TopDepth}
  <2>1. ASSUME Done
        PROVE  {key(i) : i \in DOMAIN hits} = all
    <3>1. \A i \in DOMAIN hits : key(i) \in all
      BY HitsEndWalks
    <3>2. ASSUME NEW x \in all
          PROVE  \E i \in DOMAIN hits : x = key(i)
      <4>1. PICK n \in 1 .. TopDepth : x \in WalkEnds[n]
        OBVIOUS
      <4>2. Hit(x, n)
        BY <2>1, <4>1, EndsAreHit
      <4> QED
        BY <4>2 DEF Hit
    <3> QED
      BY <3>1, <3>2
  <2>2. \A i \in DOMAIN hits :
          /\ key(i) \in WalkEnds[hits[i].depth]
          /\ \A n \in 1 .. hits[i].depth - 1 : key(i) \notin WalkEnds[n]
    BY HitsEndWalks, NoShorterWalk
  <2> QED
    BY <2>1, <2>2 DEF HitsAreShallowest, WalkInv
<1> QED
  BY <1>1, WalkInvariance, PTL

-----------------------------------------------------------------------------
(* The fields of a hazard and of a rule.                                   *)
LEMMA HazardFields ==
  ASSUME NEW h \in Hazard
  PROVE  h.since \in Nat /\ (h.ended = Never \/ h.ended \in Nat)
BY DEF Hazard

LEMMA RuleFields ==
  ASSUME NEW rule \in Rule
  PROVE  /\ rule.hold = Never \/ rule.hold \in 0 .. MaxHold
         /\ rule.hold_from \in {"raise", "end"}
         /\ rule.hold_from = "end" => rule.hold # Never
BY DEF Rule

(* A hold's clock is the raise's or the end's, or reads nothing.           *)
LEMMA Clock ==
  ASSUME NEW h \in Hazard, NEW rule \in Rule, NEW t \in Int
  PROVE  /\ rule.hold = Never => hold_clock(h, rule, t) = Never
         /\ rule.hold # Never /\ rule.hold_from = "raise"
              => hold_clock(h, rule, t) = h.since + rule.hold
         /\ rule.hold # Never /\ rule.hold_from = "end" /\ ended_by(h, t)
              => hold_clock(h, rule, t) = h.ended + rule.hold
         /\ rule.hold # Never /\ rule.hold_from = "end" /\ ~ended_by(h, t)
              => hold_clock(h, rule, t) = Never
<1>1. CASE rule.hold = Never
  BY <1>1 DEF hold_clock
<1>2. CASE rule.hold # Never /\ rule.hold_from = "raise"
  BY <1>2 DEF hold_clock
<1>3. CASE rule.hold # Never /\ rule.hold_from = "end"
  BY <1>3 DEF hold_clock
<1> QED
  BY <1>1, <1>2, <1>3, RuleFields

LEMMA ClockType ==
  ASSUME NEW h \in Hazard, NEW rule \in Rule, NEW t \in Int
  PROVE  hold_clock(h, rule, t) = Never \/ hold_clock(h, rule, t) \in Nat
BY Clock, HazardFields, RuleFields, WindowAssumption DEF ended_by

(* A line in the trace at t is in the trace at every instant from its      *)
(* hazard's raise to t.                                                    *)
LEMMA LinesReachBack ==
  ASSUME NEW h \in Hazard, NEW rule \in Rule, NEW t \in Int, NEW s \in Int,
         Fires(h, rule, t), h.since <= s, s <= t
  PROVE  Fires(h, rule, s)
<1>1. ended_by(h, s) => ended_by(h, t)
  BY HazardFields, WindowAssumption DEF ended_by
<1>2. rule.hold_from = "raise" => ~ended_by(h, s)
  BY <1>1 DEF Fires
<1>3. hold_clock(h, rule, s) = Never \/ s < hold_clock(h, rule, s)
  BY <1>1, Clock, ClockType, HazardFields, RuleFields, WindowAssumption DEF Fires, ended_by
<1> QED
  BY <1>2, <1>3 DEF Fires

(* A line whose clock reads c at t stays until c, unless its hazard is     *)
(* ended on the way.                                                       *)
LEMMA LinesLast ==
  ASSUME NEW h \in Hazard, NEW rule \in Rule, NEW t \in Int, NEW s \in Int,
         Fires(h, rule, t), t <= s,
         hold_clock(h, rule, t) = Never \/ s < hold_clock(h, rule, t),
         ~(h.ended # Never /\ t < h.ended /\ h.ended <= s)
  PROVE  Fires(h, rule, s)
<1>1. ended_by(h, s) <=> ended_by(h, t)
  BY HazardFields, WindowAssumption DEF ended_by
<1>2. hold_clock(h, rule, s) = hold_clock(h, rule, t)
  BY <1>1, Clock, RuleFields
<1> QED
  BY <1>1, <1>2, HazardFields DEF Fires

-----------------------------------------------------------------------------
(* A refusal within a window is preceded by one at an instant looked at.   *)
LEMMA RefusalBeginsAtRaise ==
  ASSUME NEW rs, NEW hs, IsTable(rs), IsRegister(hs),
         NEW w, w.start \in Nat, w.end \in Int,
         NEW t \in Int, w.start <= t, t = w.start \/ t < w.end,
         Refuses(rs, hs, t)
  PROVE  \E u \in Looked(hs, w) : u <= t /\ Refuses(rs, hs, u)
<1>1. PICK l \in Trace(rs, hs, t) : severity(rs[l[2]].state) > 1
  BY DEF Refuses
<1>2. /\ l \in (DOMAIN hs) \X (DOMAIN rs)
      /\ hs[l[1]] \in Hazard /\ rs[l[2]] \in Rule
      /\ Fires(hs[l[1]], rs[l[2]], t)
  BY DEF Trace, IsTable, IsRegister
<1> DEFINE since == hs[l[1]].since
<1>3. since \in Nat /\ since <= t
  BY <1>2, HazardFields DEF Fires
<1>4. ASSUME NEW u \in Int, since <= u, u <= t
      PROVE  Refuses(rs, hs, u)
  <2>1. Fires(hs[l[1]], rs[l[2]], u)
    BY <1>2, <1>4, LinesReachBack
  <2> QED
    BY <1>1, <1>2, <2>1 DEF Refuses, Trace
<1>5. CASE since <= w.start
  BY <1>4, <1>5 DEF Looked
<1>6. CASE since > w.start
  <2>1. since \in Looked(hs, w)
    BY <1>2, <1>3, <1>6 DEF Looked
  <2> QED
    BY <1>3, <1>4, <2>1
<1> QED
  BY <1>3, <1>5, <1>6

LEMMA LookedType ==
  ASSUME NEW hs, IsRegister(hs), NEW w, w.start \in Nat, w.end \in Int, NEW t \in Looked(hs, w)
  PROVE  t \in Nat /\ w.start <= t /\ (t = w.start \/ t < w.end)
BY HazardFields DEF Looked, IsRegister

LEMMA FromType ==
  ASSUME TypeOK, NEW s \in Nat
  PROVE  From(s).start = s /\ From(s).end \in Int
BY DEF From, TypeOK, Window

(* Executability by the instants looked at is executability throughout.    *)
LEMMA ExecutableThroughout ==
  ASSUME TypeOK, NEW s \in Nat
  PROVE  Executable(rules, hazards, From(s)) <=> ~RefusedIn(From(s))
<1> DEFINE w == From(s)
<1>1. w.start = s /\ w.end \in Int
  BY FromType
<1>2. IsTable(rules) /\ IsRegister(hazards)
  BY DEF TypeOK
<1> HIDE DEF w
<1>3. ASSUME RefusedIn(w)
      PROVE  ~Executable(rules, hazards, w)
  <2>1. PICK t \in Int : /\ w.start <= t /\ (t = w.start \/ t < w.end)
                         /\ Refuses(rules, hazards, t)
    BY <1>1, <1>3 DEF RefusedIn
  <2> QED
    BY <1>1, <1>2, <2>1, RefusalBeginsAtRaise DEF Executable
<1>4. ASSUME ~Executable(rules, hazards, w)
      PROVE  RefusedIn(w)
  <2>1. PICK t \in Looked(hazards, w) : Refuses(rules, hazards, t)
    BY <1>4 DEF Executable
  <2>2. t \in Nat /\ w.start <= t /\ (t = w.start \/ t < w.end)
    BY <1>1, <1>2, LookedType
  <2> QED
    BY <1>1, <2>1, <2>2 DEF RefusedIn
<1> QED
  BY <1>3, <1>4 DEF w

(* The first refusal found is the first there is.                          *)
LEMMA NoRefusalBefore ==
  ASSUME TypeOK,
         NEW t \in FirstRefusal(rules, hazards, From(cursor)),
         NEW u \in cursor .. t - 1
  PROVE  ~Refuses(rules, hazards, u)
<1> DEFINE w == From(cursor)
<1>1. cursor \in Nat /\ w.start = cursor /\ w.end \in Int
  BY FromType DEF TypeOK
<1>2. IsTable(rules) /\ IsRegister(hazards)
  BY DEF TypeOK
<1>3. t \in Looked(hazards, w)
  BY DEF FirstRefusal
<1> HIDE DEF w
<1>4. t \in Nat /\ cursor <= t /\ (t = cursor \/ t < w.end)
  BY <1>1, <1>2, <1>3, LookedType
<1>5. u \in Int /\ cursor <= u /\ u < t /\ u < w.end
  BY <1>1, <1>4
<1> SUFFICES ASSUME Refuses(rules, hazards, u) PROVE FALSE
  OBVIOUS
<1>6. PICK v \in Looked(hazards, w) : v <= u /\ Refuses(rules, hazards, v)
  BY <1>1, <1>2, <1>5, RefusalBeginsAtRaise
<1>7. v \in Nat /\ v < t
  BY <1>1, <1>2, <1>4, <1>5, <1>6, LookedType
<1> QED
  BY <1>6, <1>7 DEF FirstRefusal, w

(* The line that governs a refusal refuses.                                *)
LEMMA GoverningRefuses ==
  ASSUME NEW rs, NEW hs, IsTable(rs), NEW t, Refuses(rs, hs, t),
         NEW l \in GoverningStep(rs, hs, t)
  PROVE  l \in Trace(rs, hs, t) /\ severity(rs[l[2]].state) > 1
<1>1. \A k \in Trace(rs, hs, t) : severity(rs[k[2]].state) \in Nat
  BY DEF Trace, IsTable, Rule, severity
<1>2. PICK m \in Trace(rs, hs, t) : severity(rs[m[2]].state) > 1
  BY DEF Refuses
<1>3. l \in Trace(rs, hs, t)
  BY DEF GoverningStep
<1>4. \/ severity(rs[m[2]].state) < severity(rs[l[2]].state)
      \/ severity(rs[m[2]].state) = severity(rs[l[2]].state)
  BY <1>2 DEF GoverningStep
<1> QED
  BY <1>1, <1>2, <1>3, <1>4

(* From the window tried on, until the hold that governs its first refusal *)
(* clears, no window is permitted, unless the hold's hazard has ended, and *)
(* then the hold was priced without its end.                               *)
LEMMA HeldUntilClear ==
  ASSUME TypeOK, planned.start <= cursor,
         NEW t \in FirstRefusal(rules, hazards, From(cursor)),
         NEW l \in GoverningStep(rules, hazards, t),
         NEW s \in Nat, cursor <= s,
         LET clear == hold_clock(hazards[l[1]], rules[l[2]], t)
         IN  clear = Never \/ s = cursor \/ s < clear
  PROVE  \/ RefusedIn(From(s))
         \/ LET ended == hazards[l[1]].ended
            IN  /\ ended # Never /\ t < ended /\ ended <= s
                /\ hold_clock(hazards[l[1]], rules[l[2]], t) # Never => HeldAsPriced(s)
<1> DEFINE w == From(cursor)
           h == hazards[l[1]]
           rule == rules[l[2]]
<1>1. cursor \in Nat /\ w.start = cursor /\ w.end \in Int
  BY FromType DEF TypeOK
<1>2. IsTable(rules) /\ IsRegister(hazards)
  BY DEF TypeOK
<1>3. t \in Looked(hazards, w) /\ Refuses(rules, hazards, t)
  BY DEF FirstRefusal
<1>4. From(s).start = s /\ From(s).end \in Int /\ w.end <= From(s).end
  BY <1>1 DEF From, TypeOK, Window
<1> HIDE DEF w
<1>5. t \in Nat /\ cursor <= t /\ (t = cursor \/ t < w.end)
  BY <1>1, <1>2, <1>3, LookedType
<1>6. CASE s <= t
  <2>1. s = t \/ t \in From(s).start .. From(s).end - 1
    BY <1>1, <1>4, <1>5, <1>6
  <2> QED
    BY <1>3, <1>4, <2>1 DEF RefusedIn
<1>7. CASE t < s
  <2>1. /\ l \in (DOMAIN hazards) \X (DOMAIN rules)
        /\ Fires(h, rule, t) /\ severity(rule.state) > 1
    BY <1>2, <1>3, GoverningRefuses DEF Trace
  <2>2. h \in Hazard /\ rule \in Rule
    BY <1>2, <2>1 DEF IsTable, IsRegister
  <2>4. hold_clock(h, rule, t) = Never \/ s < hold_clock(h, rule, t)
    BY <1>1, <1>5, <1>7
  <2>5. CASE ~(h.ended # Never /\ t < h.ended /\ h.ended <= s)
    <3>1. Fires(h, rule, s)
      BY <1>5, <1>7, <2>1, <2>2, <2>4, <2>5, LinesLast
    <3>2. Refuses(rules, hazards, s)
      BY <2>1, <3>1 DEF Refuses, Trace
    <3> QED
      BY <1>4, <3>2 DEF RefusedIn
  <2>6. CASE h.ended # Never /\ t < h.ended /\ h.ended <= s
    <3>1. ASSUME hold_clock(h, rule, t) # Never
          PROVE  HeldAsPriced(s)
      <4>1. ~ended_by(h, t)
        BY <1>5, <2>2, <2>6, HazardFields DEF ended_by
      <4>2. /\ rule.hold_from = "raise" /\ rule.hold # Never
            /\ hold_clock(h, rule, t) = h.since + rule.hold
        BY <1>5, <2>2, <3>1, <4>1, Clock, RuleFields
      <4>3. Fires([h EXCEPT !.ended = Never], rule, s)
        BY <1>5, <1>7, <2>1, <2>2, <2>4, <3>1, <4>2, HazardFields, WindowAssumption
           DEF Fires, hold_clock, ended_by, Hazard
      <4>4. planned.start < h.ended
        BY <1>1, <1>5, <2>2, <2>6, HazardFields DEF TypeOK, Window
      <4> QED
        BY <2>1, <2>6, <4>2, <4>3, <4>4 DEF HeldAsPriced
    <3> QED
      BY <2>6, <3>1
  <2> QED
    BY <2>5, <2>6
<1> QED
  BY <1>5, <1>6, <1>7

-----------------------------------------------------------------------------
(* The longest hold anchored at an end is one of them, and none is longer. *)
LEMMA LongestHold ==
  ASSUME NEW rs, IsTable(rs)
  PROVE  /\ longest_end_anchored_hold(rs) \in EndHolds(rs)
         /\ \A h \in EndHolds(rs) : h <= longest_end_anchored_hold(rs)
<1> DEFINE Left == {MaxHold - h : h \in EndHolds(rs)}
<1>1. EndHolds(rs) \subseteq 0 .. MaxHold /\ EndHolds(rs) # {}
  BY WindowAssumption DEF EndHolds, IsTable, Rule
<1>2. Left \subseteq Nat /\ Left # {}
  BY <1>1, WindowAssumption
<1>3. PICK x \in Left : \A y \in Left : ~(y < x)
  <2> HIDE DEF Left
  <2>1. \E x \in Left : \A y \in Left : ~(<<y, x>> \in OpToRel(<, Nat))
    BY <1>2, NatLessThanWellFounded, WFMin, Zenon
  <2>2. \A x, y \in Left : x \in Nat /\ y \in Nat
    BY <1>2
  <2> QED
    BY <2>1, <2>2, Zenon DEF OpToRel
<1>4. PICK h \in EndHolds(rs) : x = MaxHold - h
  OBVIOUS
<1>5. ASSUME NEW k \in EndHolds(rs)
      PROVE  k <= h
  <2>1. MaxHold - k \in Left /\ MaxHold - k \in Nat /\ x \in Nat
    BY <1>1, <1>2
  <2>2. ~(MaxHold - k < x)
    BY <1>3, <2>1
  <2> QED
    BY <1>1, <1>4, <2>2, WindowAssumption
<1> QED
  BY <1>4, <1>5 DEF longest_end_anchored_hold

(* A hazard that the tail of some rules lets go puts no line under them in *)
(* any trace from the instant asked about on.                              *)
LEMMA TailSuffices ==
  ASSUME NEW rs, IsTable(rs), NEW reg, IsRegister(reg), NEW a \in Nat, NEW t \in Int, a <= t
  PROVE  Trace(rs, bearing_on(reg, a, longest_end_anchored_hold(rs)), t) = Trace(rs, reg, t)
<1> DEFINE tail == longest_end_anchored_hold(rs)
           read == bearing_on(reg, a, tail)
<1>1. /\ DOMAIN read \subseteq DOMAIN reg
      /\ \A i \in DOMAIN read : read[i] = reg[i]
  BY DEF bearing_on, Only
<1>2. \A i \in DOMAIN reg :
        reg[i].ended = Never \/ a < reg[i].ended + tail => i \in DOMAIN read
  BY DEF bearing_on, Only
<1>3. tail \in Nat /\ \A h \in EndHolds(rs) : h <= tail
  <2>1. EndHolds(rs) \subseteq Nat
    BY WindowAssumption DEF EndHolds, IsTable, Rule
  <2> QED
    BY <2>1, LongestHold
<1> HIDE DEF tail, read
<1>4. ASSUME NEW i \in DOMAIN reg, NEW j \in DOMAIN rs, Fires(reg[i], rs[j], t),
             reg[i].ended # Never
      PROVE  a < reg[i].ended + tail
  <2>1. reg[i] \in Hazard /\ rs[j] \in Rule
    BY DEF IsRegister, IsTable
  <2>2. reg[i].ended \in Nat
    BY <1>4, <2>1, HazardFields
  <2>3. CASE t < reg[i].ended
    BY <1>3, <2>2, <2>3
  <2>4. CASE reg[i].ended <= t
    <3>1. ended_by(reg[i], t)
      BY <1>4, <2>4 DEF ended_by
    <3>2. rs[j].hold_from = "end" /\ rs[j].hold # Never
      BY <1>4, <2>1, <3>1, RuleFields DEF Fires
    <3>3. hold_clock(reg[i], rs[j], t) = reg[i].ended + rs[j].hold
      BY <2>1, <3>1, <3>2, Clock
    <3>4. rs[j].hold \in Nat /\ rs[j].hold <= tail
      BY <1>3, <2>1, <3>2, RuleFields, WindowAssumption DEF EndHolds
    <3>5. t < reg[i].ended + rs[j].hold
      BY <1>4, <2>2, <3>3, <3>4, WindowAssumption DEF Fires
    <3> QED
      BY <1>3, <2>2, <3>4, <3>5
  <2> QED
    BY <2>2, <2>3, <2>4
<1>5. ASSUME NEW l \in Trace(rs, reg, t)
      PROVE  l \in Trace(rs, read, t)
  <2>1. l \in (DOMAIN reg) \X (DOMAIN rs) /\ Fires(reg[l[1]], rs[l[2]], t)
    BY DEF Trace
  <2>2. l[1] \in DOMAIN read
    BY <1>2, <1>4, <2>1
  <2> QED
    BY <1>1, <2>1, <2>2 DEF Trace
<1>6. ASSUME NEW l \in Trace(rs, read, t)
      PROVE  l \in Trace(rs, reg, t)
  BY <1>1 DEF Trace
<1> QED
  BY <1>5, <1>6 DEF read, tail

-----------------------------------------------------------------------------
(* Part of a table is a table, and part of a register a register.          *)
LEMMA PartsType ==
  /\ \A f, S : IsTable(f) /\ S \subseteq DOMAIN f => IsTable(Only(f, S))
  /\ \A f, S : IsRegister(f) /\ S \subseteq DOMAIN f => IsRegister(Only(f, S))
BY DEF IsTable, IsRegister, Only

(* Handlers, tables and registers stay well formed, and no more windows    *)
(* are tried than the cap allows (earliest_viable_window).                 *)
THEOREM WindowTypes == Spec => []TypeOK
<1>1. Init => TypeOK
  <2> SUFFICES ASSUME Init PROVE TypeOK
    OBVIOUS
  <2>1. IsTable(table) /\ IsRegister(register)
    BY WindowAssumption DEF Init, IsTable, IsRegister
  <2>2. IsTable(rules) /\ IsRegister(hazards)
    BY <2>1, PartsType DEF Init
  <2>3. at \in Nat /\ planned \in Window /\ horizon \in Nat /\ cursor \in Nat
    BY WindowAssumption DEF Init, Window
  <2>4. jumps \in 0 .. MaxJumps
    BY WindowAssumption DEF Init
  <2> QED
    BY <2>1, <2>2, <2>3, <2>4 DEF Init, TypeOK, Answers
<1>2. TypeOK /\ [Next]_vars => TypeOK'
  <2> SUFFICES ASSUME TypeOK, [Next]_vars PROVE TypeOK'
    OBVIOUS
  <2> USE DEF TypeOK
  <2>1. CASE ReadRules
    BY <2>1, PartsType DEF ReadRules, asked, bound_to
  <2>2. CASE ReadHazards
    BY <2>2, PartsType DEF ReadHazards, asked, bearing_on
  <2>3. ASSUME NEW a \in Answers, a # Open, Reply(a)
        PROVE  TypeOK'
    BY <2>3 DEF Reply, asked
  <2>4. CASE ReplyNoWindow
    <3>1. [kind |-> "no_window"] \in Answers /\ [kind |-> "no_window"] # Open
      BY DEF Answers, Open
    <3> QED
      BY <2>3, <2>4, <3>1 DEF ReplyNoWindow
  <2>5. CASE ReplyViable
    <3>1. [kind |-> "viable", start |-> cursor] \in Answers
      BY DEF Answers
    <3>2. [kind |-> "viable", start |-> cursor].kind # Open.kind
      BY DEF Open
    <3> QED
      BY <2>3, <2>5, <3>1, <3>2 DEF ReplyViable
  <2>6. CASE ReplyGated
    <3>1. PICK t \in FirstRefusal(rules, hazards, From(cursor)) :
            \E l \in GoverningStep(rules, hazards, t) :
              Reply([kind |-> "gated", refused |-> t, hazard |-> l[1]])
      BY <2>6 DEF ReplyGated
    <3>2. PICK l \in GoverningStep(rules, hazards, t) :
            Reply([kind |-> "gated", refused |-> t, hazard |-> l[1]])
      BY <3>1
    <3>3. t \in Nat
      BY FromType, LookedType DEF FirstRefusal
    <3>4. l[1] \in Nat
      BY DEF GoverningStep, Trace, IsRegister
    <3>5. [kind |-> "gated", refused |-> t, hazard |-> l[1]] \in Answers
      BY <3>3, <3>4 DEF Answers
    <3>6. [kind |-> "gated", refused |-> t, hazard |-> l[1]].kind # Open.kind
      BY DEF Open
    <3> QED
      BY <2>3, <3>2, <3>5, <3>6
  <2>7. CASE Jump
    <3>1. PICK t \in FirstRefusal(rules, hazards, From(cursor)) :
            \E l \in GoverningStep(rules, hazards, t) :
              /\ hold_clock(hazards[l[1]], rules[l[2]], t) # Never
              /\ cursor' = Slide(hold_clock(hazards[l[1]], rules[l[2]], t))
      BY <2>7 DEF Jump
    <3>2. PICK l \in GoverningStep(rules, hazards, t) :
              /\ hold_clock(hazards[l[1]], rules[l[2]], t) # Never
              /\ cursor' = Slide(hold_clock(hazards[l[1]], rules[l[2]], t))
      BY <3>1
    <3>3. t \in Nat
      BY FromType, LookedType DEF FirstRefusal
    <3>4. hazards[l[1]] \in Hazard /\ rules[l[2]] \in Rule
      BY DEF GoverningStep, Trace, IsTable, IsRegister
    <3>5. hold_clock(hazards[l[1]], rules[l[2]], t) \in Nat
      BY <3>2, <3>3, <3>4, ClockType
    <3>6. cursor' \in Nat
      BY <3>2, <3>5 DEF Slide
    <3>7. jumps' \in 0 .. MaxJumps
      BY <2>7, WindowAssumption DEF Jump, Trying, Fits
    <3> QED
      BY <2>7, <3>6, <3>7 DEF Jump, Trying, asked
  <2>8. CASE CommitTable
    BY <2>8, WindowAssumption DEF CommitTable, asked, IsTable
  <2>9. CASE ClearHazard
    <3>1. PICK i \in DOMAIN register, t \in Instants :
            register' = [register EXCEPT ![i].ended = t]
      BY <2>9 DEF ClearHazard
    <3>2. register[i] \in Hazard /\ t \in Nat
      BY WindowAssumption DEF IsRegister
    <3>3. [register[i] EXCEPT !.ended = t] \in Hazard
      BY <3>2 DEF Hazard
    <3>4. IsRegister(register')
      BY <3>1, <3>3 DEF IsRegister
    <3> QED
      BY <2>9, <3>4 DEF ClearHazard, asked
  <2>10. CASE UNCHANGED vars
    BY <2>10 DEF vars, asked
  <2> QED
    BY <2>1, <2>2, <2>4, <2>5, <2>6, <2>7, <2>8, <2>9, <2>10 DEF Next
<1> QED
  BY <1>1, <1>2, PTL DEF Spec

-----------------------------------------------------------------------------
(* Why the answers are right: the windows from the planned start up to the *)
(* one tried next have all been found shut.                                *)
Reading ==
  pc \in {"rules", "hazards"} => cursor = planned.start /\ answer = Open

IInv ==
  /\ TypeOK
  /\ Reading
  /\ planned.start <= cursor
  /\ NothingViableSkipped
  /\ ProposalIsViable
  /\ GatedUntilEnded
  /\ NoWindowIsTrue

(* Which windows are shut rests on the rules and hazards read and on how   *)
(* long the planned window is.                                             *)
LEMMA ReadDecides ==
  ASSUME rules' = rules, hazards' = hazards, planned' = planned
  PROVE  /\ \A s : RefusedIn(From(s))' <=> RefusedIn(From(s))
         /\ \A s : HeldAsPriced(s)' <=> HeldAsPriced(s)
         /\ \A s : From(s)' = From(s)
BY DEF RefusedIn, HeldAsPriced, From

(* While rules and hazards are read nothing has been tried or answered.    *)
LEMMA NothingTriedYet ==
  ASSUME TypeOK, cursor = planned.start, answer = Open
  PROVE  NothingViableSkipped /\ ProposalIsViable /\ GatedUntilEnded /\ NoWindowIsTrue
BY DEF TypeOK, Window, Open, NothingViableSkipped, ProposalIsViable, GatedUntilEnded,
       NoWindowIsTrue

(* An answer leaves what was tried as it was.                              *)
LEMMA RepliesKeep ==
  ASSUME IInv, NEW a, Reply(a)
  PROVE  /\ Reading' /\ planned'.start <= cursor' /\ NothingViableSkipped'
         /\ a.kind # "viable" => ProposalIsViable'
         /\ a.kind # "gated" => GatedUntilEnded'
         /\ a.kind # "no_window" => NoWindowIsTrue'
<1>1. /\ rules' = rules /\ hazards' = hazards /\ planned' = planned
      /\ horizon' = horizon /\ cursor' = cursor /\ pc' = "done" /\ answer' = a
  BY DEF Reply, asked
<1>2. NothingViableSkipped'
  BY <1>1, ReadDecides DEF IInv, NothingViableSkipped
<1> QED
  BY <1>1, <1>2 DEF IInv, Reading, ProposalIsViable, GatedUntilEnded, NoWindowIsTrue

LEMMA NoWindowStep ==
  ASSUME IInv, ReplyNoWindow
  PROVE  /\ Reading' /\ planned'.start <= cursor' /\ NothingViableSkipped'
         /\ ProposalIsViable' /\ GatedUntilEnded' /\ NoWindowIsTrue'
<1> DEFINE a == [kind |-> "no_window"]
<1>1. Reply(a) /\ ~Fits
  BY DEF ReplyNoWindow
<1>2. /\ rules' = rules /\ hazards' = hazards /\ planned' = planned
      /\ horizon' = horizon /\ cursor' = cursor /\ jumps' = jumps
  BY <1>1 DEF Reply, asked
<1>3. ASSUME From(cursor).end > horizon,
             NEW s \in planned.start .. horizon - (planned.end - planned.start)
      PROVE  RefusedIn(From(s)) \/ HeldAsPriced(s)
  <2>1. s \in planned.start .. cursor - 1
    BY <1>3 DEF IInv, TypeOK, Window, From
  <2> QED
    BY <2>1 DEF IInv, NothingViableSkipped
<1>4. ASSUME ~(From(cursor).end > horizon)
      PROVE  jumps = MaxJumps
  <2>1. cursor \in Nat /\ horizon \in Nat /\ jumps \in 0 .. MaxJumps /\ MaxJumps \in Nat
    BY WindowAssumption DEF IInv, TypeOK
  <2>2. From(cursor).end \in Int
    BY <2>1, FromType DEF IInv
  <2>3. ~(jumps < MaxJumps)
    BY <1>1, <1>4, <2>1, <2>2 DEF Fits
  <2> QED
    BY <2>1, <2>3
<1>5. NoWindowIsTrue'
  BY <1>2, <1>3, <1>4, ReadDecides DEF NoWindowIsTrue
<1> QED
  BY <1>1, <1>5, RepliesKeep

LEMMA ViableStep ==
  ASSUME IInv, ReplyViable
  PROVE  /\ Reading' /\ planned'.start <= cursor' /\ NothingViableSkipped'
         /\ ProposalIsViable' /\ GatedUntilEnded' /\ NoWindowIsTrue'
<1> DEFINE a == [kind |-> "viable", start |-> cursor]
<1>1. Reply(a) /\ From(cursor).end <= horizon
  BY DEF ReplyViable, Trying, Fits
<1>2. /\ rules' = rules /\ hazards' = hazards /\ planned' = planned
      /\ horizon' = horizon /\ cursor' = cursor /\ answer' = a
  BY <1>1 DEF Reply, asked
<1>3. ~RefusedIn(From(cursor))
  BY ExecutableThroughout DEF ReplyViable, IInv, TypeOK
<1>4. ProposalIsViable'
  BY <1>1, <1>2, <1>3, ReadDecides DEF ProposalIsViable
<1> QED
  BY <1>1, <1>4, RepliesKeep

LEMMA GatedStep ==
  ASSUME IInv, ReplyGated
  PROVE  /\ Reading' /\ planned'.start <= cursor' /\ NothingViableSkipped'
         /\ ProposalIsViable' /\ GatedUntilEnded' /\ NoWindowIsTrue'
<1>1. PICK t \in FirstRefusal(rules, hazards, From(cursor)) :
        \E l \in GoverningStep(rules, hazards, t) :
          /\ hold_clock(hazards[l[1]], rules[l[2]], t) = Never
          /\ Reply([kind |-> "gated", refused |-> t, hazard |-> l[1]])
  BY DEF ReplyGated
<1>2. PICK l \in GoverningStep(rules, hazards, t) :
        /\ hold_clock(hazards[l[1]], rules[l[2]], t) = Never
        /\ Reply([kind |-> "gated", refused |-> t, hazard |-> l[1]])
  BY <1>1
<1> DEFINE a == [kind |-> "gated", refused |-> t, hazard |-> l[1]]
<1>3. /\ rules' = rules /\ hazards' = hazards /\ planned' = planned
      /\ horizon' = horizon /\ cursor' = cursor /\ answer' = a
  BY <1>2 DEF Reply, asked
<1>4. ASSUME NEW s \in cursor .. horizon
      PROVE  \/ RefusedIn(From(s))
             \/ hazards[l[1]].ended # Never /\ hazards[l[1]].ended <= s
  <2>1. s \in Nat /\ cursor <= s
    BY DEF IInv, TypeOK
  <2> QED
    BY <1>2, <2>1, HeldUntilClear DEF IInv
<1>5. GatedUntilEnded'
  BY <1>3, <1>4, ReadDecides DEF GatedUntilEnded
<1> QED
  BY <1>2, <1>5, RepliesKeep

(* The window slides to where the governing hold clears, and every window  *)
(* before that is shut.                                                    *)
LEMMA JumpStep ==
  ASSUME IInv, Jump
  PROVE  /\ Reading' /\ planned'.start <= cursor' /\ NothingViableSkipped'
         /\ ProposalIsViable' /\ GatedUntilEnded' /\ NoWindowIsTrue'
<1> USE DEF IInv
<1>1. PICK t \in FirstRefusal(rules, hazards, From(cursor)) :
        \E l \in GoverningStep(rules, hazards, t) :
          /\ hold_clock(hazards[l[1]], rules[l[2]], t) # Never
          /\ cursor' = Slide(hold_clock(hazards[l[1]], rules[l[2]], t))
  BY DEF Jump
<1>2. PICK l \in GoverningStep(rules, hazards, t) :
        /\ hold_clock(hazards[l[1]], rules[l[2]], t) # Never
        /\ cursor' = Slide(hold_clock(hazards[l[1]], rules[l[2]], t))
  BY <1>1
<1> DEFINE clear == hold_clock(hazards[l[1]], rules[l[2]], t)
<1>3. /\ rules' = rules /\ hazards' = hazards /\ planned' = planned
      /\ horizon' = horizon /\ pc' = "try" /\ answer' = answer
  BY DEF Jump, Trying, asked
<1>4. /\ t \in Nat /\ cursor <= t
      /\ l[1] \in DOMAIN hazards /\ hazards[l[1]] \in Hazard /\ rules[l[2]] \in Rule
      /\ planned.start \in Nat /\ cursor \in Nat /\ planned.start <= cursor
  BY FromType, LookedType
     DEF FirstRefusal, GoverningStep, Trace, TypeOK, IsTable, IsRegister, Window
<1>5. clear \in Nat
  BY <1>2, <1>4, ClockType
<1> HIDE DEF clear
<1>6. cursor' = (IF clear > cursor + 1 THEN clear ELSE cursor + 1)
  BY <1>2 DEF Slide, clear
<1>7. ASSUME NEW s \in planned.start .. cursor' - 1
      PROVE  RefusedIn(From(s)) \/ HeldAsPriced(s)
  <2>1. CASE s < cursor
    BY <1>4, <2>1 DEF NothingViableSkipped
  <2>2. CASE cursor <= s
    <3>1. s \in Nat /\ (s = cursor \/ s < clear)
      BY <1>4, <1>5, <1>6, <2>2
    <3> QED
      BY <1>2, <2>2, <3>1, HeldUntilClear DEF clear
  <2> QED
    BY <1>4, <1>5, <1>6, <2>1, <2>2
<1>8. NothingViableSkipped'
  BY <1>3, <1>7, ReadDecides DEF NothingViableSkipped
<1>9. answer.kind = "open"
  BY DEF Jump, Trying, TypeOK, Open
<1>10. Reading' /\ planned'.start <= cursor'
  BY <1>3, <1>4, <1>5, <1>6 DEF Reading
<1> QED
  BY <1>3, <1>8, <1>9, <1>10 DEF ProposalIsViable, GatedUntilEnded, NoWindowIsTrue

(* The steps that read, and the requests of others while they do.          *)
LEMMA ReadingStep ==
  ASSUME IInv, ReadRules \/ ReadHazards \/ CommitTable \/ ClearHazard, TypeOK'
  PROVE  IInv'
<1>1. /\ planned' = planned /\ cursor' = cursor /\ answer' = answer
      /\ cursor = planned.start /\ answer = Open
  BY DEF ReadRules, ReadHazards, CommitTable, ClearHazard, asked, IInv, Reading
<1>2. cursor' = planned'.start /\ answer' = Open
  BY <1>1
<1>3. (NothingViableSkipped /\ ProposalIsViable /\ GatedUntilEnded /\ NoWindowIsTrue)'
  <2>1. planned' \in Window /\ cursor' \in Nat
    BY DEF TypeOK
  <2>2. \A s : s \notin planned'.start .. cursor' - 1
    BY <1>2, <2>1 DEF Window
  <2> QED
    BY <1>2, <2>2 DEF Open, NothingViableSkipped, ProposalIsViable, GatedUntilEnded, NoWindowIsTrue
<1>4. planned'.start <= cursor'
  BY <1>2 DEF TypeOK
<1> QED
  BY <1>2, <1>3, <1>4 DEF IInv, Reading

LEMMA Invariance == Spec => []IInv
<1>1. Init /\ TypeOK => IInv
  <2> SUFFICES ASSUME Init, TypeOK PROVE IInv
    OBVIOUS
  <2>1. cursor = planned.start /\ answer = Open
    BY DEF Init
  <2> QED
    BY <2>1, NothingTriedYet DEF IInv, Reading, TypeOK, Window
<1>2. IInv /\ [Next]_vars /\ TypeOK' => IInv'
  <2> SUFFICES ASSUME IInv, [Next]_vars, TypeOK' PROVE IInv'
    OBVIOUS
  <2>1. CASE ReadRules \/ ReadHazards \/ CommitTable \/ ClearHazard
    BY <2>1, ReadingStep
  <2>2. CASE ReplyNoWindow
    BY <2>2, NoWindowStep DEF IInv
  <2>3. CASE ReplyViable
    BY <2>3, ViableStep DEF IInv
  <2>4. CASE ReplyGated
    BY <2>4, GatedStep DEF IInv
  <2>5. CASE Jump
    BY <2>5, JumpStep DEF IInv
  <2>6. CASE UNCHANGED vars
    <3>1. /\ rules' = rules /\ hazards' = hazards /\ planned' = planned /\ pc' = pc
          /\ horizon' = horizon /\ cursor' = cursor /\ jumps' = jumps /\ answer' = answer
      BY <2>6 DEF vars, asked
    <3> QED
      BY <3>1, ReadDecides
         DEF IInv, Reading, NothingViableSkipped, ProposalIsViable, GatedUntilEnded, NoWindowIsTrue
  <2> QED
    BY <2>1, <2>2, <2>3, <2>4, <2>5, <2>6 DEF Next
<1> QED
  BY <1>1, <1>2, WindowTypes, PTL DEF Spec

-----------------------------------------------------------------------------
(* The verdict by a few instants is that of the whole window, and the      *)
(* first refusal found the first there is (executability).                 *)
THEOREM ExactVerdict == Spec => []VerdictIsExact
<1>1. TypeOK => VerdictIsExact
  <2> SUFFICES ASSUME TypeOK PROVE VerdictIsExact
    OBVIOUS
  <2> QED
    BY ExecutableThroughout, NoRefusalBefore DEF VerdictIsExact, TypeOK
<1> QED
  BY <1>1, WindowTypes, PTL

(* What the search answers, for every table, register, window and horizon: *)
(* the window proposed is open and every start before it was shut or held  *)
(* as priced, an end on file notwithstanding; gated work waits for a       *)
(* clearance; and where no window is found none was passed over, or the    *)
(* tries ran out (earliest_viable_window).                                 *)
THEOREM TrueAnswers == Spec => []AnswersAreTrue
BY Invariance, PTL DEF IInv, AnswersAreTrue

(* Whatever is committed or cleared between the two reads, the hazards     *)
(* read are all that matter from the instant asked about on                *)
(* (engine_inputs).                                                        *)
THEOREM ReadsEnough == Spec => TailIsEnough
<1>1. TypeOK /\ [Next]_vars =>
        [pc = "hazards" /\ pc' = "try" =>
           \A t \in at .. at + horizon :
             Trace(rules', hazards', t) = Trace(rules', register', t)]_vars
  <2> SUFFICES ASSUME TypeOK, Next, pc = "hazards", pc' = "try",
                      NEW t \in at .. at + horizon
               PROVE  Trace(rules', hazards', t) = Trace(rules', register', t)
    OBVIOUS
  <2>1. ReadHazards
    BY DEF Next, ReadRules, ReadHazards, ReplyNoWindow, ReplyViable, ReplyGated, Reply,
           Jump, Trying, CommitTable, ClearHazard
  <2>2. /\ rules' = rules /\ register' = register
        /\ hazards' = bearing_on(register, at, longest_end_anchored_hold(rules))
    BY <2>1 DEF ReadHazards
  <2>3. t \in Int /\ at <= t
    BY DEF TypeOK
  <2> QED
    BY <2>2, <2>3, TailSuffices DEF TypeOK
<1> QED
  BY <1>1, WindowTypes, PTL DEF Spec, TailIsEnough

-----------------------------------------------------------------------------
(* Why each try is paid for: the hold that governed it had not run out by  *)
(* the window it governed and has by the next, so no hold governs two.     *)
Paid ==
  /\ \A f \in {table, register, rules, hazards} : IsFiniteSet(DOMAIN f)
  /\ pc \in {"rules", "hazards"} => jumps = 0
  /\ jumps <= Cardinality(HoldsRunOut(rules, hazards, cursor))

LEMMA HoldsFinite ==
  ASSUME NEW rs, NEW hs, IsFiniteSet(DOMAIN rs), IsFiniteSet(DOMAIN hs), NEW c
  PROVE  IsFiniteSet(HoldsRunOut(rs, hs, c)) /\ Cardinality(HoldsRunOut(rs, hs, c)) \in Nat
<1>1. IsFiniteSet((DOMAIN hs) \X (DOMAIN rs))
  BY FS_Product
<1>2. HoldsRunOut(rs, hs, c) \in SUBSET ((DOMAIN hs) \X (DOMAIN rs))
  BY DEF HoldsRunOut
<1> QED
  BY <1>1, <1>2, FS_Subset, FS_CardinalityType

(* A clock that can be read at t reads the same ever after.                *)
LEMMA ClockStays ==
  ASSUME NEW h \in Hazard, NEW rule \in Rule, NEW t \in Int, NEW u \in Int, t <= u,
         hold_clock(h, rule, t) # Never
  PROVE  hold_clock(h, rule, u) = hold_clock(h, rule, t)
<1>1. ended_by(h, t) => ended_by(h, u)
  BY HazardFields, WindowAssumption DEF ended_by
<1> QED
  BY <1>1, Clock, RuleFields

(* A try spends the hold that governed it, which was not spent before.     *)
LEMMA JumpPays ==
  ASSUME IInv, Paid, Jump
  PROVE  Paid'
<1> USE DEF IInv
<1>1. PICK t \in FirstRefusal(rules, hazards, From(cursor)) :
        \E l \in GoverningStep(rules, hazards, t) :
          /\ hold_clock(hazards[l[1]], rules[l[2]], t) # Never
          /\ cursor' = Slide(hold_clock(hazards[l[1]], rules[l[2]], t))
  BY DEF Jump
<1>2. PICK l \in GoverningStep(rules, hazards, t) :
        /\ hold_clock(hazards[l[1]], rules[l[2]], t) # Never
        /\ cursor' = Slide(hold_clock(hazards[l[1]], rules[l[2]], t))
  BY <1>1
<1> DEFINE clear == hold_clock(hazards[l[1]], rules[l[2]], t)
           S == HoldsRunOut(rules, hazards, cursor)
           T == HoldsRunOut(rules, hazards, cursor')
<1>3. /\ table' = table /\ register' = register /\ rules' = rules /\ hazards' = hazards
      /\ pc' = "try" /\ jumps' = jumps + 1 /\ jumps \in Nat
  BY DEF Jump, Trying, TypeOK
<1>4. /\ t \in Nat /\ cursor <= t /\ cursor \in Nat
      /\ l \in (DOMAIN hazards) \X (DOMAIN rules)
      /\ hazards[l[1]] \in Hazard /\ rules[l[2]] \in Rule
      /\ Fires(hazards[l[1]], rules[l[2]], t)
  BY FromType, LookedType
     DEF FirstRefusal, GoverningStep, Trace, TypeOK, IsTable, IsRegister
<1>5. clear \in Nat /\ rules[l[2]].hold # Never
  BY <1>2, <1>4, ClockType, Clock
<1>6. cursor' \in Nat /\ clear <= cursor' /\ cursor <= cursor'
  <2>1. cursor' = (IF clear > cursor + 1 THEN clear ELSE cursor + 1)
    BY <1>2 DEF Slide
  <2> HIDE DEF clear
  <2> QED
    BY <1>4, <1>5, <2>1
<1>7. l \notin S
  <2> SUFFICES ASSUME l \in S PROVE FALSE
    OBVIOUS
  <2>1. hold_clock(hazards[l[1]], rules[l[2]], cursor) \in 0 .. cursor
    BY DEF HoldsRunOut
  <2>2. hold_clock(hazards[l[1]], rules[l[2]], cursor) # Never
    BY <1>4, <2>1, WindowAssumption
  <2>3. clear = hold_clock(hazards[l[1]], rules[l[2]], cursor)
    BY <1>4, <2>2, ClockStays
  <2>4. t < clear
    BY <1>2, <1>4 DEF Fires
  <2> QED
    BY <1>4, <2>1, <2>3, <2>4
<1>8. l \in T
  <2>1. hold_clock(hazards[l[1]], rules[l[2]], cursor') = clear
    <3>1. t <= cursor'
      <4>1. t < clear
        BY <1>2, <1>4 DEF Fires
      <4> QED
        BY <1>4, <1>5, <1>6, <4>1
    <3> QED
      BY <1>2, <1>4, <1>6, <3>1, ClockStays
  <2>2. severity(rules[l[2]].state) > 1
    BY <1>1, <1>2, GoverningRefuses DEF FirstRefusal, TypeOK
  <2> QED
    BY <1>4, <1>5, <1>6, <2>1, <2>2 DEF HoldsRunOut, Fires
<1>9. S \cup {l} \in SUBSET T
  <2>1. ASSUME NEW k \in S PROVE k \in T
    <3>1. /\ k \in (DOMAIN hazards) \X (DOMAIN rules)
          /\ hazards[k[1]] \in Hazard /\ rules[k[2]] \in Rule
          /\ hold_clock(hazards[k[1]], rules[k[2]], cursor) \in 0 .. cursor
      BY DEF HoldsRunOut, TypeOK, IsTable, IsRegister
    <3>2. hold_clock(hazards[k[1]], rules[k[2]], cursor) # Never
      BY <1>4, <3>1, WindowAssumption
    <3>3. hold_clock(hazards[k[1]], rules[k[2]], cursor')
            = hold_clock(hazards[k[1]], rules[k[2]], cursor)
      BY <1>4, <1>6, <3>1, <3>2, ClockStays
    <3>4. hold_clock(hazards[k[1]], rules[k[2]], cursor') \in 0 .. cursor'
      BY <1>4, <1>6, <3>1, <3>3
    <3> QED
      BY <3>1, <3>4 DEF HoldsRunOut
  <2> QED
    BY <1>8, <2>1
<1>10. /\ IsFiniteSet(S) /\ IsFiniteSet(T)
       /\ Cardinality(S) \in Nat /\ Cardinality(T) \in Nat
  BY HoldsFinite DEF Paid
<1>11. Cardinality(S \cup {l}) = Cardinality(S) + 1 /\ IsFiniteSet(S \cup {l})
  BY <1>7, <1>10, FS_AddElement
<1>12. Cardinality(S \cup {l}) <= Cardinality(T)
  BY <1>9, <1>10, FS_Subset
<1>13. jumps <= Cardinality(S)
  BY DEF Paid
<1> HIDE DEF S
<1>14. jumps' <= Cardinality(T)
  <2> HIDE DEF T
  <2> QED
    BY <1>3, <1>10, <1>11, <1>12, <1>13
<1> QED
  BY <1>3, <1>14 DEF Paid

(* Each slide is paid for by a hold of its own, one that refuses the work  *)
(* and has run out by the window tried next (earliest_viable_window).      *)
THEOREM TriesArePaid == Spec => []JumpsAreHolds
<1>1. Init => Paid
  <2> SUFFICES ASSUME Init PROVE Paid
    OBVIOUS
  <2>1. IsFiniteSet(DOMAIN table) /\ IsFiniteSet(DOMAIN register)
    BY WindowAssumption DEF Init
  <2>2. IsFiniteSet(DOMAIN rules) /\ IsFiniteSet(DOMAIN hazards)
    BY FS_EmptySet DEF Init, Only
  <2>3. jumps <= Cardinality(HoldsRunOut(rules, hazards, cursor)) /\ jumps = 0
    BY <2>2, HoldsFinite DEF Init
  <2> QED
    BY <2>1, <2>2, <2>3 DEF Paid
<1>2. IInv /\ Paid /\ [Next]_vars => Paid'
  <2> SUFFICES ASSUME IInv, Paid, [Next]_vars PROVE Paid'
    OBVIOUS
  <2>1. ASSUME jumps' = 0, \A f \in {table, register, rules, hazards}' : IsFiniteSet(DOMAIN f)
        PROVE  Paid'
    <3>1. Cardinality(HoldsRunOut(rules', hazards', cursor')) \in Nat
      BY <2>1, HoldsFinite
    <3> QED
      BY <2>1, <3>1 DEF Paid
  <2>2. CASE ReadRules
    <3>1. DOMAIN rules' \in SUBSET DOMAIN table
      BY <2>2 DEF ReadRules, bound_to, Only
    <3>2. IsFiniteSet(DOMAIN rules')
      BY <3>1, FS_Subset DEF Paid
    <3> QED
      BY <2>1, <2>2, <3>2 DEF ReadRules, Paid
  <2>3. CASE ReadHazards
    <3>1. DOMAIN hazards' \in SUBSET DOMAIN register
      BY <2>3 DEF ReadHazards, bearing_on, Only
    <3>2. IsFiniteSet(DOMAIN hazards')
      BY <3>1, FS_Subset DEF Paid
    <3> QED
      BY <2>1, <2>3, <3>2 DEF ReadHazards, Paid
  <2>4. CASE CommitTable
    BY <2>1, <2>4, WindowAssumption DEF CommitTable, Paid
  <2>5. CASE ClearHazard
    <3>1. DOMAIN register' = DOMAIN register
      BY <2>5 DEF ClearHazard
    <3> QED
      BY <2>1, <2>5, <3>1 DEF ClearHazard, Paid
  <2>6. CASE Jump
    BY <2>6, JumpPays
  <2>7. CASE ReplyNoWindow \/ ReplyViable \/ ReplyGated
    <3>1. /\ table' = table /\ register' = register /\ rules' = rules /\ hazards' = hazards
          /\ cursor' = cursor /\ jumps' = jumps /\ pc' = "done"
      BY <2>7 DEF ReplyNoWindow, ReplyViable, ReplyGated, Reply
    <3> QED
      BY <3>1 DEF Paid
  <2>8. CASE UNCHANGED vars
    BY <2>8 DEF vars, Paid
  <2> QED
    BY <2>2, <2>3, <2>4, <2>5, <2>6, <2>7, <2>8 DEF Next
<1>3. Paid => JumpsAreHolds
  BY DEF Paid, JumpsAreHolds
<1> QED
  BY <1>1, <1>2, <1>3, Invariance, WindowTypes, PTL DEF Spec
=============================================================================
