----------------------------- MODULE EngineProofs -----------------------------
(***************************************************************************)
(* What rests on the engine alone.                                         *)
(*                                                                         *)
(* The rule table (RuleTable), for every hull, clock, sheet and sequence   *)
(* of edits, imports and reverts: an id names one reading; a line in a     *)
(* trace is from an entry reported to fire there; a commit names the       *)
(* spaces it moves; and where the clock springs forward, the table         *)
(* exported is read back as it was.                                        *)
(*                                                                         *)
(* The boards (HullBoards), for every hull and instant: the boards of one  *)
(* instant agree on what is in trouble, their hours add up, the conflicts  *)
(* served cover those wadl-issues finds, an option served opens its space, *)
(* a lever frees and shuts what it is said to, and of a plan every action  *)
(* is needed.                                                              *)
(***************************************************************************)
EXTENDS RuleTable, HullBoards, WellFoundedInduction, FiniteSetTheorems, TLAPS


-----------------------------------------------------------------------------
(* Sequences put end to end hold what they held, and nothing else.         *)
LEMMA Least ==
  ASSUME NEW Bad, Bad \subseteq Nat, Bad # {}
  PROVE  \E n \in Bad : \A m \in Bad : n <= m
<1> DEFINE R == {p \in Nat \X Nat : p[1] < p[2]}
<1>1. IsWellFoundedOn(R, Nat)
  <2>1. R = OpToRel(<, Nat)
    BY DEF OpToRel
  <2> QED
    BY <2>1, NatLessThanWellFounded
<1>2. \A y, x \in Nat : <<y, x>> \notin R => x <= y
  OBVIOUS
<1> HIDE DEF R
<1>3. PICK n \in Bad : \A m \in Bad : <<m, n>> \notin R
  BY <1>1, WFMin
<1> QED
  BY <1>2, <1>3, Zenon

(* The sequences up to a place, end to end.                                *)
IsJoin(f, ss, n) == f = [i \in 1 .. n |-> IF i = 1 THEN ss[i] ELSE f[i - 1] \o ss[i]]

LEMMA JoinGrows ==
  ASSUME NEW ss, NEW n \in Nat, NEW f, IsJoin(f, ss, n)
  PROVE  \E g : IsJoin(g, ss, n + 1)
<1> DEFINE g == [i \in 1 .. n + 1 |->
                   IF i = n + 1 THEN (IF n = 0 THEN ss[n + 1] ELSE f[n] \o ss[n + 1]) ELSE f[i]]
<1>1. \A i \in 1 .. n : f[i] = IF i = 1 THEN ss[i] ELSE f[i - 1] \o ss[i]
  <2>1. PICK k : k = [i \in 1 .. n |-> IF i = 1 THEN ss[i] ELSE f[i - 1] \o ss[i]]
    OBVIOUS
  <2>2. f = k
    BY <2>1 DEF IsJoin
  <2> QED
    BY <2>1, <2>2
<1>2. ASSUME NEW i \in 1 .. n + 1
      PROVE  g[i] = IF i = 1 THEN ss[i] ELSE g[i - 1] \o ss[i]
  <2>1. CASE i = n + 1 /\ n = 0
    BY <2>1
  <2>2. CASE i = n + 1 /\ n # 0
    <3>1. i # 1 /\ i - 1 = n /\ g[n] = f[n]
      BY <2>2
    <3> QED
      BY <2>2, <3>1
  <2>3. CASE i # n + 1
    <3>1. i \in 1 .. n /\ g[i] = f[i] /\ (i # 1 => g[i - 1] = f[i - 1])
      BY <2>3
    <3> QED
      BY <1>1, <3>1
  <2> QED
    BY <2>1, <2>2, <2>3
<1>3. g = [i \in 1 .. n + 1 |-> IF i = 1 THEN ss[i] ELSE g[i - 1] \o ss[i]]
  <2>1. DOMAIN g = 1 .. n + 1 /\ g = [i \in 1 .. n + 1 |-> g[i]]
    OBVIOUS
  <2> HIDE DEF g
  <2> QED
    BY <1>2, <2>1
<1> HIDE DEF g
<1> QED
  BY <1>3 DEF IsJoin

LEMMA JoinExists ==
  ASSUME NEW ss, NEW n \in Nat
  PROVE  \E f : IsJoin(f, ss, n)
<1> DEFINE Bad == {m \in Nat : ~\E f : IsJoin(f, ss, m)}
<1>1. SUFFICES ASSUME Bad # {} PROVE FALSE
  OBVIOUS
<1>2. PICK m \in Bad : \A k \in Bad : m <= k
  <2> HIDE DEF Bad
  <2>1. Bad \subseteq Nat
    BY DEF Bad
  <2> QED
    BY <1>1, <2>1, Least
<1>3. m # 0
  <2>1. IsJoin(<<>>, ss, 0)
    BY DEF IsJoin
  <2> QED
    BY <2>1
<1>4. m - 1 \in Nat /\ m - 1 \notin Bad
  BY <1>2, <1>3
<1>5. \E g : IsJoin(g, ss, (m - 1) + 1)
  BY <1>4, JoinGrows
<1>6. (m - 1) + 1 = m
  BY <1>4
<1> QED
  BY <1>5, <1>6

LEMMA JoinType ==
  ASSUME NEW E, NEW ss \in Seq(Seq(E)), NEW f, IsJoin(f, ss, Len(ss))
  PROVE  \A i \in 1 .. Len(ss) : f[i] \in Seq(E)
<1> DEFINE Bad == {i \in 1 .. Len(ss) : f[i] \notin Seq(E)}
<1>1. SUFFICES ASSUME Bad # {} PROVE FALSE
  OBVIOUS
<1>2. PICK i \in Bad : \A k \in Bad : i <= k
  <2> HIDE DEF Bad
  <2>1. Bad \subseteq Nat
    BY DEF Bad
  <2> QED
    BY <1>1, <2>1, Least
<1>3. f[i] = IF i = 1 THEN ss[i] ELSE f[i - 1] \o ss[i]
  <2>1. PICK k : k = [j \in 1 .. Len(ss) |-> IF j = 1 THEN ss[j] ELSE f[j - 1] \o ss[j]]
    OBVIOUS
  <2>2. f = k
    BY <2>1 DEF IsJoin
  <2> QED
    BY <2>1, <2>2
<1>4. ss[i] \in Seq(E)
  BY <1>2
<1>5. i # 1
  BY <1>2, <1>3, <1>4
<1>6. f[i - 1] \in Seq(E) /\ ss[i] \in Seq(E)
  BY <1>2, <1>5
<1>7. f[i - 1] \o ss[i] \in Seq(E)
  BY <1>6
<1> QED
  BY <1>2, <1>3, <1>5, <1>7

LEMMA FlatType ==
  ASSUME NEW E, NEW ss \in Seq(Seq(E))
  PROVE  FlattenSeq(ss) \in Seq(E)
<1>1. CASE Len(ss) = 0
  <2>1. FlattenSeq(ss) = ss
    BY <1>1 DEF FlattenSeq
  <2>2. ss = <<>> /\ <<>> \in Seq(E)
    BY <1>1
  <2> QED
    BY <2>1, <2>2
<1>2. CASE Len(ss) # 0
  <2>1. PICK flatten : flatten = CHOOSE f : IsJoin(f, ss, Len(ss))
    OBVIOUS
  <2>2. Len(ss) \in Nat /\ Len(ss) \in 1 .. Len(ss)
    BY <1>2
  <2>3. IsJoin(flatten, ss, Len(ss))
    BY <2>1, <2>2, JoinExists
  <2>4. FlattenSeq(ss) = flatten[Len(ss)]
    BY <1>2, <2>1 DEF FlattenSeq, IsJoin
  <2> QED
    BY <2>2, <2>3, <2>4, JoinType
<1> QED
  BY <1>1, <1>2

LEMMA Climb ==
  ASSUME NEW m \in Nat, NEW P, 0 \in P, \A n \in 1 .. m : n - 1 \in P => n \in P
  PROVE  \A n \in 0 .. m : n \in P
<1> DEFINE Bad == {n \in 0 .. m : n \notin P}
<1>1. SUFFICES ASSUME Bad # {} PROVE FALSE
  OBVIOUS
<1>2. PICK n \in Bad : \A k \in Bad : n <= k
  <2> HIDE DEF Bad
  <2>1. Bad \subseteq Nat
    BY DEF Bad
  <2> QED
    BY <1>1, <2>1, Least
<1>3. n \in 1 .. m /\ n - 1 \in 0 .. m /\ n - 1 \notin Bad
  BY <1>2
<1> QED
  BY <1>2, <1>3

LEMMA EndToEnd ==
  ASSUME NEW E, NEW a \in Seq(E), NEW b \in Seq(E)
  PROVE  ToSet(a \o b) = ToSet(a) \cup ToSet(b)
<1>1. ASSUME NEW j \in 1 .. Len(a) + Len(b)
      PROVE  (a \o b)[j] \in ToSet(a) \cup ToSet(b)
  BY DEF ToSet
<1>2. ASSUME NEW j \in 1 .. Len(a) PROVE a[j] \in ToSet(a \o b)
  <2>1. j \in 1 .. Len(a) + Len(b) /\ (a \o b)[j] = a[j]
    OBVIOUS
  <2> QED
    BY <2>1 DEF ToSet
<1>3. ASSUME NEW j \in 1 .. Len(b) PROVE b[j] \in ToSet(a \o b)
  <2>1. j + Len(a) \in 1 .. Len(a) + Len(b) /\ (a \o b)[j + Len(a)] = b[j]
    OBVIOUS
  <2> QED
    BY <2>1 DEF ToSet
<1>4. DOMAIN (a \o b) = 1 .. Len(a) + Len(b) /\ DOMAIN a = 1 .. Len(a) /\ DOMAIN b = 1 .. Len(b)
  OBVIOUS
<1> QED
  BY <1>1, <1>2, <1>3, <1>4 DEF ToSet

LEMMA JoinKeeps ==
  ASSUME NEW E, NEW ss \in Seq(Seq(E)), NEW f, IsJoin(f, ss, Len(ss)),
         NEW i \in 1 .. Len(ss), NEW x \in ToSet(ss[i])
  PROVE  x \in ToSet(f[Len(ss)])
<1> DEFINE Bad == {n \in i .. Len(ss) : x \notin ToSet(f[n])}
<1>1. SUFFICES ASSUME Bad # {} PROVE FALSE
  OBVIOUS
<1>2. PICK n \in Bad : \A k \in Bad : n <= k
  <2> HIDE DEF Bad
  <2>1. Bad \subseteq Nat
    BY DEF Bad
  <2> QED
    BY <1>1, <2>1, Least
<1>3. n \in 1 .. Len(ss) /\ n \in Nat /\ i <= n /\ x \notin ToSet(f[n])
  BY <1>2
<1>4. f[n] = IF n = 1 THEN ss[n] ELSE f[n - 1] \o ss[n]
  BY <1>3 DEF IsJoin
<1>5. ss[n] \in Seq(E) /\ (n # 1 => f[n - 1] \in Seq(E))
  BY <1>3, JoinType
<1>6. CASE n = i
  BY <1>3, <1>4, <1>5, <1>6, EndToEnd
<1>7. CASE n # i
  <2>1. n - 1 \in i .. Len(ss) /\ n # 1 /\ n - 1 \in Nat /\ ~(n <= n - 1)
    BY <1>3, <1>7
  <2>2. n - 1 \notin Bad
    <3> HIDE DEF Bad
    <3> QED
      BY <1>2, <2>1
  <2>3. x \in ToSet(f[n - 1])
    BY <2>1, <2>2
  <2> HIDE DEF Bad
  <2> QED
    BY <1>3, <1>4, <1>5, <2>1, <2>3, EndToEnd
<1> QED
  BY <1>6, <1>7

LEMMA Flat ==
  ASSUME NEW ss, IsSeq(ss), \A i \in DOMAIN ss : IsSeq(ss[i])
  PROVE  /\ IsSeq(FlattenSeq(ss))
         /\ ToSet(FlattenSeq(ss)) = UNION {ToSet(ss[i]) : i \in DOMAIN ss}
<1> DEFINE E == UNION {ToSet(ss[i]) : i \in DOMAIN ss}
<1>1. ASSUME NEW i \in DOMAIN ss PROVE ss[i] \in Seq(E)
  <2>1. ss[i] \in Seq(ToSet(ss[i])) /\ ToSet(ss[i]) \subseteq E
    BY DEF IsSeq
  <2> HIDE DEF E
  <2> QED
    BY <2>1
<1>2. ss \in Seq(Seq(E)) /\ DOMAIN ss = 1 .. Len(ss) /\ Len(ss) \in Nat
  <2> HIDE DEF E
  <2>1. ss \in Seq(ToSet(ss))
    BY DEF IsSeq
  <2>2. ToSet(ss) \subseteq Seq(E)
    BY <1>1 DEF ToSet
  <2> QED
    BY <2>1, <2>2
<1>3. FlattenSeq(ss) \in Seq(E)
  BY <1>2, FlatType
<1>4. ASSUME NEW i \in DOMAIN ss, NEW x \in ToSet(ss[i]) PROVE x \in ToSet(FlattenSeq(ss))
  <2>1. PICK flatten : flatten = CHOOSE f : IsJoin(f, ss, Len(ss))
    OBVIOUS
  <2>2. IsJoin(flatten, ss, Len(ss))
    BY <1>2, <2>1, JoinExists
  <2>3. FlattenSeq(ss) = flatten[Len(ss)]
    BY <1>2, <2>1 DEF FlattenSeq, IsJoin
  <2> HIDE DEF E
  <2> QED
    BY <1>2, <2>2, <2>3, JoinKeeps
<1>5. ToSet(FlattenSeq(ss)) \subseteq E /\ IsSeq(FlattenSeq(ss))
  <2> HIDE DEF E
  <2> QED
    BY <1>3 DEF ToSet, IsSeq
<1> QED
  BY <1>4, <1>5

LEMMA Places ==
  ASSUME NEW s, IsSeq(s)
  PROVE  Len(s) \in Nat /\ DOMAIN s = 1 .. Len(s)
BY DEF IsSeq, ToSet

LEMMA OverPlaces ==
  ASSUME NEW s, IsSeq(s), NEW t, DOMAIN t = DOMAIN s, t = [i \in DOMAIN s |-> t[i]]
  PROVE  IsSeq(t)
<1>1. t = [i \in 1 .. Len(s) |-> t[i]] /\ Len(s) \in Nat
  BY Places
<1> QED
  BY <1>1 DEF IsSeq, ToSet

LEMMA Empty ==
  ASSUME NEW s, IsSeq(s)
  PROVE  s = <<>> <=> ToSet(s) = {}
BY DEF IsSeq, ToSet

(* What is finite has a finite image, and finitely many instants a latest. *)
LEMMA FiniteImage ==
  ASSUME NEW f, IsFiniteSet(DOMAIN f)
  PROVE  IsFiniteSet({f[x] : x \in DOMAIN f})
<1> DEFINE T == {f[x] : x \in DOMAIN f}
           g == [x \in DOMAIN f |-> f[x]]
<1>1. g \in [DOMAIN f -> T] /\ \A t \in T : \E x \in DOMAIN f : g[x] = t
  OBVIOUS
<1> HIDE DEF T, g
<1>2. g \in Surjection(DOMAIN f, T)
  BY <1>1 DEF Surjection
<1>3. IsFiniteSet(T)
  BY <1>2, FS_Surjection
<1> QED
  BY <1>3 DEF T

LEMMA Greatest ==
  ASSUME NEW S, S \subseteq Int, IsFiniteSet(S), S # {}
  PROVE  Max(S) \in S /\ \A x \in S : x <= Max(S)
<1>1. PICK n \in Nat : \E f \in [1 .. n -> S] : \A x \in S : \E i \in 1 .. n : f[i] = x
  BY FS_NatSurjection DEF ExistsSurjection, Surjection
<1>0. PICK f \in [1 .. n -> S] : \A x \in S : \E i \in 1 .. n : f[i] = x
  BY <1>1
<1> DEFINE P == {k \in 0 .. n : k = 0 \/ \E x \in S : \A i \in 1 .. k : f[i] <= x}
<1>2. 0 \in P
  OBVIOUS
<1>3. ASSUME NEW k \in 1 .. n, k - 1 \in P PROVE k \in P
  <2>1. f[k] \in S /\ f[k] \in Int /\ k \in 0 .. n /\ \A i \in 1 .. k : f[i] \in Int
    <3>1. \A i \in 1 .. k : i \in 1 .. n
      OBVIOUS
    <3>2. \A i \in 1 .. n : f[i] \in S /\ f[i] \in Int
      BY <1>0
    <3> QED
      BY <3>1, <3>2
  <2>2. CASE k = 1
    <3>1. \A i \in 1 .. k : f[i] <= f[k]
      BY <2>1, <2>2
    <3> QED
      BY <2>1, <3>1
  <2>3. CASE k # 1
    <3>1. PICK x \in S : \A i \in 1 .. k - 1 : f[i] <= x
      BY <1>3, <2>3
    <3>2. PICK y \in S : y = IF x <= f[k] THEN f[k] ELSE x
      BY <2>1
    <3>3. ASSUME NEW i \in 1 .. k PROVE f[i] <= y
      <4>1. f[i] \in Int /\ x \in Int /\ (i = k \/ i \in 1 .. k - 1)
        BY <2>1, <3>1
      <4> QED
        BY <2>1, <3>1, <3>2, <4>1
    <3> QED
      BY <2>1, <3>3
  <2> QED
    BY <2>2, <2>3
<1>4. n \in P
  <2> HIDE DEF P
  <2>1. n \in 0 .. n
    OBVIOUS
  <2> QED
    BY <1>2, <1>3, <2>1, Climb
<1>5. n # 0
  <2>1. PICK x \in S : TRUE
    OBVIOUS
  <2>2. PICK i \in 1 .. n : f[i] = x
    BY <1>0, <2>1
  <2> QED
    BY <2>2
<1>6. \E x \in S : \A y \in S : x >= y
  BY <1>0, <1>4, <1>5
<1>7. Max(S) \in S /\ \A y \in S : Max(S) >= y
  BY <1>6 DEF Max
<1> QED
  BY <1>7

-----------------------------------------------------------------------------
(* What is computed step by step from a value of a set, each step staying  *)
(* in it.                                                                  *)
Runs(m, S, b, F) == {g \in [0 .. m -> S] : g[0] = b /\ \A n \in 1 .. m : g[n] = F[<<g[n - 1], n>>]}

LEMMA Computed ==
  ASSUME NEW m \in Nat, NEW S, NEW b \in S, NEW F \in [S \X (1 .. m) -> S]
  PROVE  Runs(m, S, b, F) # {}
<1> DEFINE P == {k \in 0 .. m : Runs(k, S, b, F) # {}}
<1>1. 0 \in P
  <2>1. [i \in 0 .. 0 |-> b] \in Runs(0, S, b, F)
    BY DEF Runs
  <2> QED
    BY <2>1
<1>2. ASSUME NEW k \in 1 .. m, k - 1 \in P PROVE k \in P
  <2>1. PICK g : g \in Runs(k - 1, S, b, F)
    BY <1>2
  <2>2. /\ g \in [0 .. k - 1 -> S] /\ g[0] = b
        /\ \A n \in 1 .. k - 1 : g[n] = F[<<g[n - 1], n>>]
    BY <2>1 DEF Runs
  <2>3. F[<<g[k - 1], k>>] \in S
    BY <2>2
  <2>4. PICK h : h = [i \in 0 .. k |-> IF i = k THEN F[<<g[k - 1], k>>] ELSE g[i]]
    OBVIOUS
  <2>5. h \in [0 .. k -> S] /\ h[k] = F[<<g[k - 1], k>>] /\ \A i \in 0 .. k - 1 : h[i] = g[i]
    BY <2>2, <2>3, <2>4
  <2>6. ASSUME NEW n \in 1 .. k PROVE h[n] = F[<<h[n - 1], n>>]
    <3>1. n - 1 \in 0 .. k - 1 /\ h[n - 1] = g[n - 1]
      BY <2>5
    <3>2. CASE n = k
      BY <2>5, <3>1, <3>2
    <3>3. CASE n # k
      <4>1. n \in 1 .. k - 1 /\ h[n] = g[n]
        BY <2>5, <3>3
      <4> QED
        BY <2>2, <3>1, <4>1
    <3> QED
      BY <3>2, <3>3
  <2>7. h \in Runs(k, S, b, F)
    BY <2>2, <2>5, <2>6 DEF Runs
  <2> QED
    BY <2>7
<1>3. m \in P
  <2> HIDE DEF P
  <2> QED
    BY <1>1, <1>2, Climb
<1> QED
  BY <1>3

-----------------------------------------------------------------------------
(* The cascade: a sequence of places beyond couplings of the rule's code.  *)
HitsOver(graph, rule) ==
  {h \in [space : {e.to : e \in ToSet(graph)}, type : {e.type : e \in ToSet(graph)},
          depth : Int, path : Seq(ToSet(graph))] :
     \E e \in ToSet(graph) : e.code = rule.via}

IsPlace(place, graph) == place.depth \in Int /\ place.path \in Seq(ToSet(graph))

LEMMA HitType ==
  ASSUME NEW graph, NEW place, IsPlace(place, graph), NEW e \in ToSet(graph), NEW origin, NEW rule,
         Admits(e, place, origin, rule)
  PROVE  Hit(place, e) \in HitsOver(graph, rule)
<1>1. place.depth + 1 \in Int /\ Append(place.path, e) \in Seq(ToSet(graph))
  BY DEF IsPlace
<1> QED
  BY <1>1 DEF Hit, HitsOver, Admits

IsAlong(f, hits, place, graph, origin, rule) ==
  f = [i \in 0 .. Len(graph) |->
         IF i = 0 THEN hits
         ELSE IF Admits(graph[i], place, origin, rule) /\ ~Met(f[i - 1], graph[i])
              THEN Append(f[i - 1], Hit(place, graph[i])) ELSE f[i - 1]]

LEMMA ExpandRuns ==
  ASSUME NEW graph, IsSeq(graph), NEW place, IsPlace(place, graph), NEW origin, NEW rule,
         NEW hits \in Seq(HitsOver(graph, rule))
  PROVE  \E along \in [0 .. Len(graph) -> Seq(HitsOver(graph, rule))] :
           /\ along[0] = hits
           /\ \A i \in 1 .. Len(graph) :
                along[i] = IF Admits(graph[i], place, origin, rule) /\ ~Met(along[i - 1], graph[i])
                           THEN Append(along[i - 1], Hit(place, graph[i])) ELSE along[i - 1]
           /\ Expanded(hits, place, graph, origin, rule) = along[Len(graph)]
<1> DEFINE H == HitsOver(graph, rule)
           Taken(i) == Admits(graph[i], place, origin, rule)
<1>1. Len(graph) \in Nat /\ \A i \in 1 .. Len(graph) : graph[i] \in ToSet(graph)
  BY DEF IsSeq, ToSet
<1>2. \A i \in 1 .. Len(graph) : Taken(i) => Hit(place, graph[i]) \in H
  BY <1>1, HitType
<1>3. \E f : IsAlong(f, hits, place, graph, origin, rule)
  <2>1. PICK F : F = [x \in Seq(H) \X (1 .. Len(graph)) |->
                        IF Taken(x[2]) /\ ~Met(x[1], graph[x[2]])
                        THEN Append(x[1], Hit(place, graph[x[2]])) ELSE x[1]]
    OBVIOUS
  <2>2. F \in [Seq(H) \X (1 .. Len(graph)) -> Seq(H)]
    <3> HIDE DEF H, Taken
    <3> QED
      BY <1>2, <2>1
  <2>3. PICK g \in [0 .. Len(graph) -> Seq(H)] :
          g[0] = hits /\ \A n \in 1 .. Len(graph) : g[n] = F[<<g[n - 1], n>>]
    <3> HIDE DEF H
    <3>1. hits \in Seq(H)
      BY DEF H
    <3>2. Runs(Len(graph), Seq(H), hits, F) # {}
      BY <1>1, <2>2, <3>1, Computed
    <3> QED
      BY <3>2 DEF Runs
  <2>4. ASSUME NEW n \in 1 .. Len(graph)
        PROVE  g[n] = IF Taken(n) /\ ~Met(g[n - 1], graph[n])
                      THEN Append(g[n - 1], Hit(place, graph[n])) ELSE g[n - 1]
    <3> HIDE DEF H, Taken
    <3>1. g[n - 1] \in Seq(H)
      BY <1>1
    <3>2. PICK x : x = <<g[n - 1], n>>
      OBVIOUS
    <3>3. x \in Seq(H) \X (1 .. Len(graph)) /\ x[1] = g[n - 1] /\ x[2] = n
      BY <3>1, <3>2
    <3> QED
      BY <2>1, <2>3, <3>2, <3>3
  <2>5. IsAlong(g, hits, place, graph, origin, rule)
    <3>1. PICK k : k = [i \in 0 .. Len(graph) |->
                          IF i = 0 THEN hits
                          ELSE IF Admits(graph[i], place, origin, rule) /\ ~Met(g[i - 1], graph[i])
                               THEN Append(g[i - 1], Hit(place, graph[i])) ELSE g[i - 1]]
      OBVIOUS
    <3>2. \A i \in 0 .. Len(graph) : g[i] = k[i]
      <4> HIDE DEF H
      <4>1. \A i \in 0 .. Len(graph) : i = 0 \/ i \in 1 .. Len(graph)
        BY <1>1
      <4> QED
        BY <2>3, <2>4, <3>1, <4>1
    <3>3. DOMAIN k = 0 .. Len(graph) /\ DOMAIN g = 0 .. Len(graph)
      BY <3>1
    <3>4. g = k
      BY <2>3, <3>1, <3>2, <3>3
    <3> QED
      BY <3>1, <3>4 DEF IsAlong
  <2> QED
    BY <2>5
<1>4. PICK along : along = CHOOSE f : IsAlong(f, hits, place, graph, origin, rule)
  OBVIOUS
<1>5. IsAlong(along, hits, place, graph, origin, rule)
  BY <1>3, <1>4
<1>6. /\ along[0] = hits
      /\ \A i \in 1 .. Len(graph) :
           along[i] = IF Taken(i) /\ ~Met(along[i - 1], graph[i])
                      THEN Append(along[i - 1], Hit(place, graph[i])) ELSE along[i - 1]
  <2>1. PICK k : k = [i \in 0 .. Len(graph) |->
                        IF i = 0 THEN hits
                        ELSE IF Admits(graph[i], place, origin, rule) /\ ~Met(along[i - 1], graph[i])
                             THEN Append(along[i - 1], Hit(place, graph[i])) ELSE along[i - 1]]
    OBVIOUS
  <2>2. along = k
    BY <1>5, <2>1 DEF IsAlong
  <2>3. 0 \in 0 .. Len(graph) /\ \A i \in 1 .. Len(graph) : i \in 0 .. Len(graph) /\ i # 0
    BY <1>1
  <2>4. k[0] = hits
    BY <2>1, <2>3
  <2>5. ASSUME NEW i \in 1 .. Len(graph)
        PROVE  k[i] = IF Taken(i) /\ ~Met(along[i - 1], graph[i])
                      THEN Append(along[i - 1], Hit(place, graph[i])) ELSE along[i - 1]
    BY <2>1, <2>3
  <2> QED
    BY <2>2, <2>4, <2>5
<1>7. \A i \in 0 .. Len(graph) : along[i] \in Seq(H)
  <2> DEFINE P == {i \in 0 .. Len(graph) : along[i] \in Seq(H)}
  <2> HIDE DEF H, Taken
  <2>1. 0 \in P
    BY <1>1, <1>6 DEF H
  <2>2. ASSUME NEW n \in 1 .. Len(graph), n - 1 \in P PROVE n \in P
    <3>1. along[n - 1] \in Seq(H) /\ n \in 0 .. Len(graph)
      BY <1>1, <2>2
    <3>2. along[n] = IF Taken(n) /\ ~Met(along[n - 1], graph[n])
                     THEN Append(along[n - 1], Hit(place, graph[n])) ELSE along[n - 1]
      BY <1>6
    <3>3. Taken(n) => Append(along[n - 1], Hit(place, graph[n])) \in Seq(H)
      BY <1>2, <3>1
    <3>4. along[n] \in Seq(H)
      BY <3>1, <3>2, <3>3
    <3> QED
      BY <3>1, <3>4
  <2> HIDE DEF P
  <2>3. \A n \in 0 .. Len(graph) : n \in P
    BY <1>1, <2>1, <2>2, Climb
  <2> QED
    BY <2>3 DEF P
<1>8. Expanded(hits, place, graph, origin, rule) = along[Len(graph)]
  BY <1>4 DEF Expanded, IsAlong
<1>9. along \in [0 .. Len(graph) -> Seq(H)]
  BY <1>5, <1>7 DEF IsAlong
<1> QED
  BY <1>6, <1>8, <1>9

LEMMA ExpandedType ==
  ASSUME NEW graph, IsSeq(graph), NEW place, IsPlace(place, graph), NEW origin, NEW rule,
         NEW hits \in Seq(HitsOver(graph, rule))
  PROVE  Expanded(hits, place, graph, origin, rule) \in Seq(HitsOver(graph, rule))
<1>1. Len(graph) \in Nat
  BY DEF IsSeq
<1> QED
  BY <1>1, ExpandRuns

IsFound(f, graph, origin, rule) ==
  f = [n \in 0 .. Len(graph) + 1 |->
         IF n = 0 THEN <<>>
         ELSE IF n <= Len(f[n - 1]) + 1 /\ Queue(origin, f[n - 1])[n].depth < rule.max_hops
              THEN Expanded(f[n - 1], Queue(origin, f[n - 1])[n], graph, origin, rule) ELSE f[n - 1]]

LEMMA QueueType ==
  ASSUME NEW graph, NEW rule, NEW hits \in Seq(HitsOver(graph, rule)), NEW origin,
         NEW n \in Nat \ {0}, n <= Len(hits) + 1
  PROVE  IsPlace(Queue(origin, hits)[n], graph)
<1>1. PICK start : start = [space |-> origin, type |-> None, depth |-> 0, path |-> <<>>]
  OBVIOUS
<1>2. IsPlace(start, graph)
  BY <1>1 DEF IsPlace
<1>3. \A h \in HitsOver(graph, rule) : IsPlace(h, graph)
  BY DEF IsPlace, HitsOver
<1>4. \A i \in 1 .. Len(hits) : hits[i] \in HitsOver(graph, rule)
  OBVIOUS
<1>5. Queue(origin, hits)[n] = IF n = 1 THEN start ELSE hits[n - 1]
  BY <1>1 DEF Queue
<1>6. n # 1 => n - 1 \in 1 .. Len(hits)
  OBVIOUS
<1> QED
  BY <1>2, <1>3, <1>4, <1>5, <1>6

Turned(hits, n, graph, origin, rule) ==
  IF n <= Len(hits) + 1 /\ Queue(origin, hits)[n].depth < rule.max_hops
  THEN Expanded(hits, Queue(origin, hits)[n], graph, origin, rule) ELSE hits

LEMMA CascadeRuns ==
  ASSUME NEW graph, IsSeq(graph), NEW origin, NEW rule
  PROVE  \E found \in [0 .. Len(graph) + 1 -> Seq(HitsOver(graph, rule))] :
           /\ found[0] = <<>>
           /\ \A n \in 1 .. Len(graph) + 1 : found[n] = Turned(found[n - 1], n, graph, origin, rule)
           /\ cascade_from(graph, origin, rule) = found[Len(graph) + 1]
<1> DEFINE H == HitsOver(graph, rule)
           m == Len(graph) + 1
           Turn(hits, n) == n <= Len(hits) + 1 /\ Queue(origin, hits)[n].depth < rule.max_hops
           After(hits, n) ==
             IF Turn(hits, n) THEN Expanded(hits, Queue(origin, hits)[n], graph, origin, rule) ELSE hits
<1>1. m \in Nat
  BY DEF IsSeq
<1>2. ASSUME NEW hits \in Seq(H), NEW n \in 1 .. m PROVE After(hits, n) \in Seq(H)
  <2>1. CASE Turn(hits, n)
    <3>1. n \in Nat \ {0} /\ n <= Len(hits) + 1
      BY <1>1, <2>1
    <3>2. IsPlace(Queue(origin, hits)[n], graph)
      BY <3>1, QueueType
    <3> QED
      BY <2>1, <3>2, ExpandedType
  <2>2. CASE ~Turn(hits, n)
    BY <2>2
  <2> QED
    BY <2>1, <2>2
<1>3. \E f : IsFound(f, graph, origin, rule)
  <2>1. PICK F : F = [x \in Seq(H) \X (1 .. m) |-> After(x[1], x[2])]
    OBVIOUS
  <2>2. F \in [Seq(H) \X (1 .. m) -> Seq(H)]
    <3> HIDE DEF H, After, m
    <3> QED
      BY <1>2, <2>1
  <2>3. PICK g \in [0 .. m -> Seq(H)] :
          g[0] = <<>> /\ \A n \in 1 .. m : g[n] = F[<<g[n - 1], n>>]
    <3> HIDE DEF H, m
    <3>1. <<>> \in Seq(H)
      OBVIOUS
    <3>2. Runs(m, Seq(H), <<>>, F) # {}
      BY <1>1, <2>2, <3>1, Computed
    <3> QED
      BY <3>2 DEF Runs
  <2>4. ASSUME NEW n \in 1 .. m PROVE g[n] = After(g[n - 1], n)
    <3> HIDE DEF H, After
    <3>1. g[n - 1] \in Seq(H)
      BY <1>1
    <3>2. PICK x : x = <<g[n - 1], n>>
      OBVIOUS
    <3>3. x \in Seq(H) \X (1 .. m) /\ x[1] = g[n - 1] /\ x[2] = n
      BY <3>1, <3>2
    <3> QED
      BY <2>1, <2>3, <3>2, <3>3
  <2>5. PICK k : k = [n \in 0 .. Len(graph) + 1 |->
         IF n = 0 THEN <<>>
         ELSE IF n <= Len(g[n - 1]) + 1 /\ Queue(origin, g[n - 1])[n].depth < rule.max_hops
              THEN Expanded(g[n - 1], Queue(origin, g[n - 1])[n], graph, origin, rule) ELSE g[n - 1]]
    OBVIOUS
  <2>6. ASSUME NEW n \in 0 .. m PROVE g[n] = k[n]
    <3>1. k[n] = IF n = 0 THEN <<>> ELSE After(g[n - 1], n)
      BY <2>5
    <3>2. n = 0 \/ n \in 1 .. m
      BY <1>1
    <3> HIDE DEF H, After, m
    <3> QED
      BY <2>3, <2>4, <3>1, <3>2
  <2>7. g = k
    <3>1. DOMAIN k = 0 .. m /\ DOMAIN g = 0 .. m /\ k = [n \in 0 .. m |-> k[n]]
      BY <2>5
    <3> HIDE DEF H, After, m
    <3> QED
      BY <2>3, <2>6, <3>1
  <2> QED
    BY <2>5, <2>7 DEF IsFound
<1>4. PICK found : found = CHOOSE f : IsFound(f, graph, origin, rule)
  OBVIOUS
<1>5. IsFound(found, graph, origin, rule)
  BY <1>3, <1>4
<1>6. /\ found[0] = <<>>
      /\ \A n \in 1 .. m : found[n] = After(found[n - 1], n)
  <2>1. PICK k : k = [n \in 0 .. Len(graph) + 1 |->
         IF n = 0 THEN <<>>
         ELSE IF n <= Len(found[n - 1]) + 1 /\ Queue(origin, found[n - 1])[n].depth < rule.max_hops
              THEN Expanded(found[n - 1], Queue(origin, found[n - 1])[n], graph, origin, rule)
              ELSE found[n - 1]]
    OBVIOUS
  <2>2. found = k
    BY <1>5, <2>1 DEF IsFound
  <2>3. 0 \in 0 .. Len(graph) + 1 /\ \A n \in 1 .. m : n \in 0 .. Len(graph) + 1 /\ n # 0
    BY <1>1
  <2>4. k[0] = <<>>
    BY <2>1, <2>3
  <2>5. ASSUME NEW n \in 1 .. m PROVE k[n] = After(found[n - 1], n)
    BY <2>1, <2>3
  <2> QED
    BY <2>2, <2>4, <2>5
<1>7. \A n \in 0 .. m : found[n] \in Seq(H)
  <2> DEFINE P == {n \in 0 .. m : found[n] \in Seq(H)}
  <2> HIDE DEF H, After, m
  <2>1. 0 \in P
    <3>1. 0 \in 0 .. m /\ <<>> \in Seq(H)
      BY <1>1
    <3>2. found[0] = <<>>
      BY <1>6
    <3> QED
      BY <3>1, <3>2
  <2>2. ASSUME NEW n \in 1 .. m, n - 1 \in P PROVE n \in P
    <3>1. found[n - 1] \in Seq(H) /\ n \in 0 .. m
      BY <1>1, <2>2
    <3>2. found[n] \in Seq(H)
      BY <1>2, <1>6, <3>1
    <3> QED
      BY <3>1, <3>2
  <2> HIDE DEF P
  <2>3. \A n \in 0 .. m : n \in P
    BY <1>1, <2>1, <2>2, Climb
  <2> QED
    BY <2>3 DEF P
<1>8. cascade_from(graph, origin, rule) = found[m]
  BY <1>4 DEF cascade_from, IsFound
<1>9. found \in [0 .. m -> Seq(H)]
  BY <1>5, <1>7 DEF IsFound
<1>10. \A n \in 1 .. m : found[n] = Turned(found[n - 1], n, graph, origin, rule)
  BY <1>6 DEF Turned
<1> QED
  BY <1>6, <1>8, <1>9, <1>10

LEMMA CascadeType ==
  ASSUME NEW graph, IsSeq(graph), NEW origin, NEW rule
  PROVE  cascade_from(graph, origin, rule) \in Seq(HitsOver(graph, rule))
<1>1. Len(graph) + 1 \in 0 .. Len(graph) + 1
  BY DEF IsSeq
<1>2. PICK found \in [0 .. Len(graph) + 1 -> Seq(HitsOver(graph, rule))] :
        cascade_from(graph, origin, rule) = found[Len(graph) + 1]
  BY CascadeRuns
<1> QED
  BY <1>1, <1>2

-----------------------------------------------------------------------------
(* The lines a hazard and a rule leave: some when the hazard bears on the  *)
(* instant under the rule and comes to the subject, all in the rule's      *)
(* state.                                                                  *)
Speaks(h, rule, t) ==
  /\ raised_by(h, t) /\ rule.hazard = h.kind
  /\ rule.hold_from # "raise" \/ ~ended_by(h, t)
  /\ ~RunOut(hold_clock(h, rule, t), t)

LEMMA PathsType ==
  ASSUME NEW w, IsSeq(w.graph), NEW h, NEW rule, NEW subject
  PROVE  /\ IsSeq(PathsTo(w, h, rule, subject))
         /\ PathsTo(w, h, rule, subject) # <<>> =>
              IF rule.via = None THEN h.origin = subject
              ELSE LET hits == cascade_from(w.graph, h.origin, rule)
                   IN \E i \in DOMAIN hits : hits[i].space = subject
<1>1. \A x : IsSeq(<<x>>)
  BY DEF IsSeq, ToSet
<1>2. IsSeq(<<>>)
  BY DEF IsSeq, ToSet
<1>3. CASE rule.via = None
  <2>1. PathsTo(w, h, rule, subject) = IF h.origin = subject THEN << <<>> >> ELSE <<>>
    BY <1>3 DEF PathsTo
  <2> QED
    BY <1>1, <1>2, <1>3, <2>1
<1>4. CASE rule.via # None
  <2>1. PICK hits : hits = cascade_from(w.graph, h.origin, rule)
    OBVIOUS
  <2> DEFINE ss == [i \in DOMAIN hits |-> IF hits[i].space = subject THEN <<hits[i].path>> ELSE <<>>]
  <2>2. PathsTo(w, h, rule, subject) = FlattenSeq(ss)
    BY <1>4, <2>1 DEF PathsTo
  <2>3. IsSeq(hits)
    BY <2>1, CascadeType DEF IsSeq, ToSet
  <2>4. IsSeq(ss) /\ DOMAIN ss = DOMAIN hits
    BY <2>3, OverPlaces
  <2>5. \A i \in DOMAIN ss : IsSeq(ss[i]) /\ (hits[i].space # subject => ss[i] = <<>>)
    BY <1>1, <1>2, <2>4
  <2> HIDE DEF ss
  <2>6. IsSeq(FlattenSeq(ss)) /\ ToSet(FlattenSeq(ss)) = UNION {ToSet(ss[i]) : i \in DOMAIN ss}
    BY <2>4, <2>5, Flat
  <2>7. ASSUME FlattenSeq(ss) # <<>> PROVE \E i \in DOMAIN hits : hits[i].space = subject
    <3>1. PICK i \in DOMAIN ss : ToSet(ss[i]) # {}
      BY <2>6, <2>7, Empty
    <3>2. ss[i] # <<>>
      BY <1>2, <3>1, Empty
    <3> QED
      BY <2>4, <2>5, <3>2
  <2> QED
    BY <1>4, <2>1, <2>2, <2>6, <2>7
<1> QED
  BY <1>3, <1>4

LEMMA LinesType ==
  ASSUME NEW w, IsSeq(w.graph), NEW h, NEW rule, NEW subject
  PROVE  /\ IsSeq(Lines(w, h, rule, subject))
         /\ \A l \in ToSet(Lines(w, h, rule, subject)) :
              l.state = rule.state /\ l.earliest_clear = hold_clock(h, rule, w.at)
         /\ Lines(w, h, rule, subject) # <<>> <=>
              Speaks(h, rule, w.at) /\ PathsTo(w, h, rule, subject) # <<>>
<1>1. PICK paths : paths = PathsTo(w, h, rule, subject)
  OBVIOUS
<1> DEFINE lines == Steps(h, rule, paths, w.at)
<1>2. IsSeq(paths)
  BY <1>1, PathsType
<1>3. DOMAIN lines = DOMAIN paths /\ lines = [i \in DOMAIN paths |-> lines[i]]
  BY DEF Steps
<1>4. IsSeq(lines)
  BY <1>2, <1>3, OverPlaces
<1>5. \A i \in DOMAIN lines : /\ lines[i].state = rule.state
                             /\ lines[i].earliest_clear = hold_clock(h, rule, w.at)
  BY DEF Steps, step
<1>6. lines = <<>> <=> paths = <<>>
  <2> HIDE DEF lines
  <2>1. lines = <<>> <=> DOMAIN lines = {}
    BY <1>4 DEF IsSeq
  <2>2. paths = <<>> <=> DOMAIN paths = {}
    BY <1>2 DEF IsSeq
  <2> QED
    BY <1>3, <2>1, <2>2
<1>7. Lines(w, h, rule, subject) = IF Speaks(h, rule, w.at) THEN lines ELSE <<>>
  BY <1>1 DEF Lines, Speaks
<1>8. IsSeq(<<>>) /\ ToSet(<<>>) = {}
  BY DEF IsSeq, ToSet
<1> HIDE DEF lines
<1> QED
  BY <1>1, <1>4, <1>5, <1>6, <1>7, <1>8 DEF ToSet

LEMMA TraceHolds ==
  ASSUME NEW w, IsSeq(w.graph), IsSeq(w.rules), IsSeq(w.hazards), NEW subject
  PROVE  /\ IsSeq(Trace(w, subject))
         /\ \A i \in DOMAIN w.hazards, j \in DOMAIN w.rules :
              ToSet(Lines(w, w.hazards[i], w.rules[j], subject)) \subseteq ToSet(Trace(w, subject))
         /\ \A l \in ToSet(Trace(w, subject)) :
              \E i \in DOMAIN w.hazards, j \in DOMAIN w.rules :
                l \in ToSet(Lines(w, w.hazards[i], w.rules[j], subject))
<1> DEFINE Line(i, j) == Lines(w, w.hazards[i], w.rules[j], subject)
           row(i) == [j \in DOMAIN w.rules |-> Line(i, j)]
           rows == [i \in DOMAIN w.hazards |-> FlattenSeq(row(i))]
<1>1. ASSUME NEW i \in DOMAIN w.hazards
      PROVE  /\ IsSeq(FlattenSeq(row(i)))
             /\ ToSet(FlattenSeq(row(i))) = UNION {ToSet(Line(i, j)) : j \in DOMAIN w.rules}
  <2>1. IsSeq(row(i)) /\ DOMAIN row(i) = DOMAIN w.rules /\ \A j \in DOMAIN w.rules : row(i)[j] = Line(i, j)
    BY OverPlaces
  <2>2. \A j \in DOMAIN w.rules : IsSeq(Line(i, j))
    BY LinesType
  <2>3. PICK r : r = row(i)
    OBVIOUS
  <2> HIDE DEF row, Line
  <2>4. IsSeq(FlattenSeq(r)) /\ ToSet(FlattenSeq(r)) = UNION {ToSet(r[j]) : j \in DOMAIN r}
    BY <2>1, <2>2, <2>3, Flat
  <2> QED
    BY <2>1, <2>3, <2>4
<1>2. Trace(w, subject) = FlattenSeq(rows)
  BY DEF Trace, LinesUnder
<1> HIDE DEF row, Line
<1>3. IsSeq(rows) /\ DOMAIN rows = DOMAIN w.hazards
  BY OverPlaces
<1>4. \A i \in DOMAIN w.hazards : rows[i] = FlattenSeq(row(i))
  OBVIOUS
<1> HIDE DEF rows
<1>5. IsSeq(FlattenSeq(rows)) /\ ToSet(FlattenSeq(rows)) = UNION {ToSet(rows[i]) : i \in DOMAIN rows}
  BY <1>1, <1>3, <1>4, Flat
<1>6. \A i \in DOMAIN w.hazards, j \in DOMAIN w.rules : ToSet(Line(i, j)) \subseteq ToSet(Trace(w, subject))
  BY <1>1, <1>2, <1>3, <1>4, <1>5
<1>7. \A l \in ToSet(Trace(w, subject)) :
        \E i \in DOMAIN w.hazards, j \in DOMAIN w.rules : l \in ToSet(Line(i, j))
  BY <1>1, <1>2, <1>3, <1>4, <1>5
<1> QED
  BY <1>2, <1>5, <1>6, <1>7 DEF Line

(* The state decided is the worst of the trace's, and it permits work when *)
(* no line of the trace refuses it.                                        *)
LEMMA WorstOf ==
  ASSUME NEW S, S \subseteq States, S # {}
  PROVE  Worst(S) \in S /\ \A s \in S : severity(s) <= severity(Worst(S))
<1>1. /\ severity("allow") = 0 /\ severity("warn") = 1
      /\ severity("suspend") = 2 /\ severity("block") = 3
  BY DEF severity
<1>2. \A s \in S : s = "allow" \/ s = "warn" \/ s = "suspend" \/ s = "block"
  BY DEF States
<1>3. \E s \in S : \A u \in S : severity(u) <= severity(s)
  <2>1. CASE "block" \in S
    BY <1>1, <1>2, <2>1
  <2>2. CASE "block" \notin S /\ "suspend" \in S
    BY <1>1, <1>2, <2>2
  <2>3. CASE "block" \notin S /\ "suspend" \notin S /\ "warn" \in S
    BY <1>1, <1>2, <2>3
  <2>4. CASE "block" \notin S /\ "suspend" \notin S /\ "warn" \notin S
    BY <1>1, <1>2, <2>4
  <2> QED
    BY <2>1, <2>2, <2>3, <2>4
<1> QED
  BY <1>3 DEF Worst

LEMMA PermitsExact ==
  ASSUME NEW w, IsSeq(w.graph), IsSeq(w.rules), IsSeq(w.hazards),
         \A j \in DOMAIN w.rules : w.rules[j].state \in States, NEW subject
  PROVE  permits_work(evaluate(w, subject).state) <=> Permits(w, subject)
<1> DEFINE trace == Trace(w, subject)
           S == {"allow"} \cup {trace[k].state : k \in DOMAIN trace}
<1>1. evaluate(w, subject).state = Worst(S)
  BY DEF evaluate, Decided
<1>2. \A l \in ToSet(trace) : \E i \in DOMAIN w.hazards, j \in DOMAIN w.rules :
        l.state = w.rules[j].state /\ Lines(w, w.hazards[i], w.rules[j], subject) # <<>>
  <2>1. ToSet(<<>>) = {}
    BY DEF ToSet
  <2> QED
    BY <2>1, TraceHolds, LinesType
<1>3. \A i \in DOMAIN w.hazards, j \in DOMAIN w.rules :
        Lines(w, w.hazards[i], w.rules[j], subject) # <<>> => w.rules[j].state \in S
  <2>1. SUFFICES ASSUME NEW i \in DOMAIN w.hazards, NEW j \in DOMAIN w.rules,
                        Lines(w, w.hazards[i], w.rules[j], subject) # <<>>
                 PROVE  w.rules[j].state \in S
    OBVIOUS
  <2>2. PICK l \in ToSet(Lines(w, w.hazards[i], w.rules[j], subject)) : TRUE
    BY <2>1, LinesType, Empty
  <2>3. l.state = w.rules[j].state /\ l \in ToSet(trace)
    BY LinesType, TraceHolds
  <2> QED
    BY <2>3 DEF ToSet
<1>4. \A s \in S : s = "allow" \/ \E i \in DOMAIN w.hazards, j \in DOMAIN w.rules :
        s = w.rules[j].state /\ Lines(w, w.hazards[i], w.rules[j], subject) # <<>>
  BY <1>2 DEF ToSet
<1>5. S \subseteq States /\ "allow" \in S
  <2>1. "allow" \in States
    BY DEF States
  <2> QED
    BY <1>4, <2>1
<1> HIDE DEF S, trace
<1>6. Worst(S) \in S /\ \A s \in S : severity(s) <= severity(Worst(S))
  BY <1>5, WorstOf
<1>7. permits_work("allow") /\ \A s \in States : severity(s) \in Int
  BY DEF permits_work, severity, States
<1>8. permits_work(Worst(S)) <=> \A s \in S : permits_work(s)
  BY <1>5, <1>6, <1>7 DEF permits_work
<1> QED
  BY <1>1, <1>3, <1>4, <1>7, <1>8 DEF Permits

-----------------------------------------------------------------------------
(* What a file is read as are sequences; every entry of a table has an id  *)
(* or room for one, and a hold that runs from the raise or from the end.   *)
IsEntry(e) ==
  /\ {"version", "hold_from"} \subseteq DOMAIN e
  /\ e.hold_from \in {"raise", "end"}

Versioned(entries) == IsSeq(entries) /\ \A i \in DOMAIN entries : IsEntry(entries[i])

LEMMA FlatHolds ==
  ASSUME NEW E, NEW ss, IsSeq(ss), \A i \in DOMAIN ss : ss[i] \in Seq(E)
  PROVE  IsSeq(FlattenSeq(ss)) /\ \A j \in DOMAIN FlattenSeq(ss) : FlattenSeq(ss)[j] \in E
<1>1. ss \in Seq(Seq(E))
  BY DEF IsSeq, ToSet
<1>2. FlattenSeq(ss) \in Seq(E)
  BY <1>1, FlatType
<1> QED
  BY <1>2 DEF IsSeq, ToSet

LEMMA ParsedRows ==
  ASSUME NEW s, IsSeq(s.rows)
  PROVE  IsSeq(parse(s).rows)
<1> DEFINE E == {s.rows[i] : i \in DOMAIN s.rows}
           ss == [i \in DOMAIN s.rows |-> Cells(s.rows[i])]
<1>1. \A i \in DOMAIN ss : ss[i] \in Seq(E)
  BY DEF Cells
<1>2. IsSeq(ss)
  BY OverPlaces
<1>3. IsSeq(FlattenSeq(ss))
  <2> HIDE DEF E, ss
  <2> QED
    BY <1>1, <1>2, FlatHolds
<1> QED
  BY <1>3 DEF parse

LEMMA CompiledEntries ==
  ASSUME NEW rows, IsSeq(rows), NEW c
  PROVE  Versioned(compile(rows, c).entries)
<1> DEFINE Whole == {entry(rows[i], c) : i \in DOMAIN rows}
           E == Whole \cup {[e EXCEPT !.via = None, !.max_hops = 0] : e \in Whole}
           ss == [i \in DOMAIN rows |-> Compiled(rows[i], c)]
<1>1. \A e \in E : IsEntry(e)
  <2>1. \A e \in Whole : IsEntry(e)
    BY DEF entry, IsEntry
  <2>2. \A e : IsEntry(e) => IsEntry([e EXCEPT !.via = None, !.max_hops = 0])
    BY DEF IsEntry
  <2> HIDE DEF Whole
  <2>3. ASSUME NEW d \in E PROVE d \in Whole \/ \E e \in Whole : d = [e EXCEPT !.via = None, !.max_hops = 0]
    OBVIOUS
  <2> HIDE DEF E
  <2> QED
    BY <2>1, <2>2, <2>3
<1>2. ASSUME NEW i \in DOMAIN rows PROVE Compiled(rows[i], c) \in Seq(E)
  <2>1. PICK e : e = entry(rows[i], c)
    OBVIOUS
  <2>2. PICK e0 : e0 = [e EXCEPT !.via = None, !.max_hops = 0]
    OBVIOUS
  <2>3. e \in E /\ e0 \in E
    BY <2>1, <2>2
  <2>4. Compiled(rows[i], c) =
          IF NotCompiled(rows[i]) THEN <<>>
          ELSE (IF rows[i].hops.lo = 0 THEN <<e0>> ELSE <<>>) \o (IF rows[i].hops.hi > 0 THEN <<e>> ELSE <<>>)
    BY <2>1, <2>2 DEF Compiled, entries_of, Spread
  <2> HIDE DEF E
  <2>5. <<>> \in Seq(E) /\ <<e0>> \in Seq(E) /\ <<e>> \in Seq(E)
    BY <2>3
  <2>6. \A a, b \in Seq(E) : a \o b \in Seq(E)
    OBVIOUS
  <2> QED
    BY <2>4, <2>5, <2>6
<1>3. IsSeq(ss)
  BY OverPlaces
<1>4. Versioned(FlattenSeq(ss))
  <2>1. \A i \in DOMAIN ss : ss[i] \in Seq(E)
    BY <1>2
  <2> HIDE DEF E, ss
  <2> QED
    BY <1>1, <1>3, <2>1, FlatHolds DEF Versioned
<1>5. Versioned(<<>>)
  BY DEF Versioned, IsSeq, ToSet
<1> QED
  BY <1>4, <1>5 DEF compile, Filed, Refused

-----------------------------------------------------------------------------
(* The ids.                                                                *)
Pair(e) == <<e.version, Reading(e)>>

(* An id is the address of what it names, or the seed's for a row of it.   *)
Faithful(pair) == pair[1] = <<"minted", pair[2]>> \/ \E i \in DOMAIN seed : pair = Pair(seed[i])

AllFaithful(entries) == \A i \in DOMAIN entries : Faithful(Pair(entries[i]))

LEMMA Minted ==
  ASSUME NEW e, IsEntry(e), NEW d, d = [e EXCEPT !.version = mint_version(e)]
  PROVE  Faithful(Pair(d)) /\ IsEntry(d)
BY DEF IsEntry, Reading, Faithful, Pair, mint_version

LEMMA KeptIsFaithful ==
  ASSUME NEW e, Kept(e)
  PROVE  Faithful(Pair(e))
BY DEF Kept, Faithful, Pair, mint_version

LEMMA SettledIsFaithful ==
  ASSUME NEW entries, Versioned(entries)
  PROVE  Versioned(settle_versions(entries)) /\ AllFaithful(settle_versions(entries))
<1> DEFINE t == settle_versions(entries)
<1>1. DOMAIN t = DOMAIN entries /\ t = [i \in DOMAIN entries |-> t[i]]
  BY DEF settle_versions
<1>2. ASSUME NEW i \in DOMAIN entries PROVE Faithful(Pair(t[i])) /\ IsEntry(t[i])
  BY KeptIsFaithful, Minted DEF settle_versions, Versioned
<1> HIDE DEF t
<1>3. IsSeq(t)
  BY <1>1, OverPlaces DEF Versioned
<1> QED
  BY <1>1, <1>2, <1>3 DEF Versioned, AllFaithful, t

LEMMA SeedIsFaithful == Versioned(seed) /\ AllFaithful(seed)
<1>1. IsSeq(seed)
  <2>1. IsSeq(seed_usn_hot_work)
    BY DEF seed_usn_hot_work, seed_coating_rules, seed_other_hazard_rules, IsSeq, ToSet
  <2> QED
    BY <2>1, OverPlaces DEF seed
<1>2. ASSUME NEW i \in DOMAIN seed PROVE IsEntry(seed[i])
  <2>1. PICK e : e = seed_usn_hot_work[i]
    OBVIOUS
  <2>2. "hold_from" \in DOMAIN e /\ e.hold_from \in {"raise", "end"}
    BY <2>1 DEF seed, seed_usn_hot_work, seed_coating_rules, seed_other_hazard_rules, Seeded
  <2>3. seed[i] = Merged([version |-> <<"seed", i>>], e)
    BY <2>1 DEF seed
  <2> QED
    BY <2>2, <2>3 DEF Merged, IsEntry
<1> QED
  BY <1>1, <1>2 DEF Versioned, AllFaithful, Faithful

LEMMA CompileTextIsFaithful ==
  ASSUME NEW s, IsSeq(s.rows), NEW c
  PROVE  /\ AllFaithful(compile_text(s, c).entries)
         /\ Versioned(compile_text(s, c).entries)
         /\ compile_text(s, c).ok => IsSeq(compile_text(s, c).rows)
<1> DEFINE rows == parse(s).rows
           k == compile(rows, c)
<1>1. IsSeq(rows) /\ Versioned(k.entries)
  BY ParsedRows, CompiledEntries
<1>2. DOMAIN k = {"ok", "rows", "entries"} /\ (k.ok => k.rows = rows)
  BY DEF compile, Filed, Refused
<1>3. /\ Settled(k).entries = settle_versions(k.entries)
      /\ Settled(k).ok = k.ok /\ Settled(k).rows = k.rows
  <2> HIDE DEF k
  <2> QED
    BY <1>2 DEF Settled
<1>4. AllFaithful(Refused.entries) /\ ~Refused.ok /\ Versioned(Refused.entries)
  BY DEF AllFaithful, Refused, Versioned, IsSeq, ToSet
<1> HIDE DEF k, rows
<1>5. AllFaithful(Settled(k).entries) /\ Versioned(Settled(k).entries)
  BY <1>1, <1>3, SettledIsFaithful
<1>6. compile_text(s, c) = IF parse(s).ok THEN Settled(k) ELSE Refused
  BY DEF compile_text, k, rows
<1> QED
  BY <1>1, <1>2, <1>3, <1>4, <1>5, <1>6

LEMMA ExportedRows ==
  ASSUME NEW entries, IsSeq(entries), NEW c
  PROVE  IsSeq(export_csv(entries, c).rows)
<1>1. export_csv(entries, c).rows = [i \in DOMAIN entries |-> export_row(entries[i], c)]
  BY DEF export_csv
<1> QED
  BY <1>1, OverPlaces

(* The table in effect is the seed's, the one stored, or a fresh reading   *)
(* of the document.                                                        *)
Stored(d) == IsSeq(d.rows) /\ Versioned(d.entries) /\ AllFaithful(d.entries)

LEMMA InEffectIsFaithful ==
  ASSUME NEW d, Stored(d), NEW c
  PROVE  Versioned(table_in_effect(d, c)) /\ AllFaithful(table_in_effect(d, c))
<1>1. Versioned(seed_table(c)) /\ AllFaithful(seed_table(c))
  BY SeedIsFaithful, ExportedRows, CompileTextIsFaithful DEF seed_table, Versioned
<1>2. Versioned(document_table(d, c)) /\ AllFaithful(document_table(d, c))
  <2>1. PICK compiled : compiled = compile(d.rows, c).entries
    OBVIOUS
  <2>2. Versioned(compiled)
    BY <2>1, CompiledEntries DEF Stored
  <2>3. Versioned(settle_versions(compiled)) /\ AllFaithful(settle_versions(compiled))
    BY <2>2, SettledIsFaithful
  <2>4. document_table(d, c) \in {d.entries, settle_versions(compiled)}
    BY <2>1 DEF document_table, StoredIfSame
  <2> QED
    BY <2>3, <2>4 DEF Stored
<1> QED
  BY <1>1, <1>2 DEF table_in_effect

LEMMA NamesFaithful ==
  ASSUME NEW entries, AllFaithful(entries)
  PROVE  \A x \in Names(entries) : Faithful(x)
BY DEF Names, AllFaithful, Pair

-----------------------------------------------------------------------------
(* The boards.  What the engine is handed for a hull and an instant is     *)
(* chosen from what the hull has.                                          *)
At(s, T) == FlattenSeq([i \in DOMAIN s |-> IF i \in T THEN <<s[i]>> ELSE <<>>])

LEMMA Picked ==
  ASSUME NEW s, IsSeq(s), NEW T
  PROVE  /\ IsSeq(At(s, T))
         /\ \A x \in ToSet(At(s, T)) : \E i \in T \cap DOMAIN s : x = s[i]
         /\ \A i \in T \cap DOMAIN s : s[i] \in ToSet(At(s, T))
<1> DEFINE ss == [i \in DOMAIN s |-> IF i \in T THEN <<s[i]>> ELSE <<>>]
<1>1. IsSeq(ss) /\ DOMAIN ss = DOMAIN s
  BY OverPlaces
<1>2. IsSeq(<<>>) /\ ToSet(<<>>) = {} /\ \A x : IsSeq(<<x>>) /\ ToSet(<<x>>) = {x}
  BY DEF IsSeq, ToSet
<1>3. \A i \in DOMAIN ss : ss[i] = IF i \in T THEN <<s[i]>> ELSE <<>>
  OBVIOUS
<1> HIDE DEF ss
<1>4. IsSeq(FlattenSeq(ss)) /\ ToSet(FlattenSeq(ss)) = UNION {ToSet(ss[i]) : i \in DOMAIN ss}
  BY <1>1, <1>2, <1>3, Flat
<1>5. \A x \in ToSet(FlattenSeq(ss)) : \E i \in T \cap DOMAIN s : x = s[i]
  BY <1>1, <1>2, <1>3, <1>4
<1>6. \A i \in T \cap DOMAIN s : s[i] \in ToSet(FlattenSeq(ss))
  BY <1>1, <1>2, <1>3, <1>4
<1> QED
  BY <1>4, <1>5, <1>6 DEF ss, At

LEMMA BoundTo ==
  ASSUME NEW rules, IsSeq(rules), NEW work, NEW t
  PROVE  IsSeq(bound_to(rules, work, t)) /\ ToSet(bound_to(rules, work, t)) \subseteq ToSet(rules)
<1> DEFINE T == {i \in DOMAIN rules : binds(rules[i], work, t)}
<1>1. bound_to(rules, work, t) = At(rules, T)
  BY DEF bound_to, Chosen, At
<1> HIDE DEF T
<1>2. /\ IsSeq(bound_to(rules, work, t))
      /\ \A x \in ToSet(bound_to(rules, work, t)) : \E i \in T \cap DOMAIN rules : x = rules[i]
  BY <1>1, Picked
<1> QED
  BY <1>2 DEF ToSet

LEMMA Bearing ==
  ASSUME NEW hazards, IsSeq(hazards), NEW t, NEW tail
  PROVE  IsSeq(bearing_on(hazards, t, tail)) /\ ToSet(bearing_on(hazards, t, tail)) \subseteq ToSet(hazards)
<1> DEFINE T == {i \in DOMAIN hazards : hazards[i].ended = None \/ t < hazards[i].ended + tail}
<1>1. bearing_on(hazards, t, tail) = At(hazards, T)
  BY DEF bearing_on, Chosen, At
<1> HIDE DEF T
<1>2. /\ IsSeq(bearing_on(hazards, t, tail))
      /\ \A x \in ToSet(bearing_on(hazards, t, tail)) : \E i \in T \cap DOMAIN hazards : x = hazards[i]
  BY <1>1, Picked
<1> QED
  BY <1>2 DEF ToSet

(* A world of the hulls there may be: its hazards begin and end, and its   *)
(* rules hold, at instants.                                                *)
IsWorld(w) ==
  /\ IsSeq(w.graph) /\ IsSeq(w.rules) /\ IsSeq(w.hazards)
  /\ \A rule \in ToSet(w.rules) : rule.state \in States /\ (rule.hold = None \/ rule.hold \in Int)
  /\ \A h \in ToSet(w.hazards) : h.since \in Int /\ (h.ended = None \/ h.ended \in Int)

LEMMA HullWorlds ==
  ASSUME NEW h \in Hulls, NEW t
  PROVE  IsWorld(mitigation_inputs(h, t)) /\ IsWorld(engine_inputs(h, t))
<1> DEFINE rules == bound_to(h.rules, AnyWork, t)
           hazards == bearing_on(h.hazards, t, longest_end_anchored_hold(rules))
<1>1. /\ IsSeq(h.graph) /\ IsSeq(h.rules) /\ IsSeq(h.hazards)
      /\ \A rule \in ToSet(h.rules) : rule.state \in States /\ (rule.hold = None \/ rule.hold \in Int)
      /\ \A z \in ToSet(h.hazards) : z.since \in Int /\ (z.ended = None \/ z.ended \in Int)
  BY HullsAssumption DEF ToSet
<1>2. IsSeq(rules) /\ ToSet(rules) \subseteq ToSet(h.rules)
  BY <1>1, BoundTo
<1>3. IsSeq(hazards) /\ ToSet(hazards) \subseteq ToSet(h.hazards)
  BY <1>1, Bearing
<1>4. LET w == engine_inputs(h, t) IN w.graph = h.graph /\ w.rules = rules /\ w.hazards = hazards /\ w.at = t
  BY DEF engine_inputs
<1>5. LET w == engine_inputs(h, t)
          m == mitigation_inputs(h, t)
      IN m.graph = w.graph /\ m.rules = w.rules /\ m.hazards = w.hazards /\ m.at = w.at
  BY DEF mitigation_inputs
<1> HIDE DEF rules, hazards
<1> QED
  BY <1>1, <1>2, <1>3, <1>4, <1>5 DEF IsWorld

(* The hops of a world's rules and the reach of its couplings are numbers. *)
HasHops(w) == /\ \A rule \in ToSet(w.rules) : rule.max_hops \in Nat
              /\ \A e \in ToSet(w.graph) : e.reach \in Nat

LEMMA WorldHops ==
  ASSUME NEW h \in Hulls, NEW t
  PROVE  HasHops(mitigation_inputs(h, t))
<1>1. /\ IsSeq(h.rules) /\ \A rule \in ToSet(h.rules) : rule.max_hops \in Nat
      /\ \A e \in ToSet(h.graph) : e.reach \in Nat
  BY HullsAssumption DEF ToSet
<1>2. PICK rules : rules = bound_to(h.rules, AnyWork, t)
  OBVIOUS
<1>3. ToSet(rules) \subseteq ToSet(h.rules)
  BY <1>1, <1>2, BoundTo
<1>4. mitigation_inputs(h, t).graph = h.graph /\ mitigation_inputs(h, t).rules = rules
  BY <1>2 DEF mitigation_inputs, engine_inputs
<1> QED
  BY <1>1, <1>3, <1>4 DEF HasHops

(* Lines depend on the couplings and the instant alone, so fewer rules and *)
(* hazards never refuse what more permit.                                  *)
LEMMA SameLines ==
  ASSUME NEW w, NEW v, v.graph = w.graph, v.at = w.at, NEW h, NEW rule, NEW s
  PROVE  Lines(v, h, rule, s) = Lines(w, h, rule, s)
BY DEF Lines, PathsTo

LEMMA FewerRules ==
  ASSUME NEW w, NEW v, v.graph = w.graph, v.at = w.at, ToSet(v.hazards) \subseteq ToSet(w.hazards),
         ToSet(v.rules) \subseteq ToSet(w.rules), NEW s, Permits(w, s)
  PROVE  Permits(v, s)
<1>1. SUFFICES ASSUME NEW i \in DOMAIN v.hazards, NEW j \in DOMAIN v.rules
               PROVE  permits_work(v.rules[j].state) \/ Lines(v, v.hazards[i], v.rules[j], s) = <<>>
  BY DEF Permits
<1>2. PICK k \in DOMAIN w.rules : w.rules[k] = v.rules[j]
  BY DEF ToSet
<1>3. PICK l \in DOMAIN w.hazards : w.hazards[l] = v.hazards[i]
  BY DEF ToSet
<1>4. permits_work(w.rules[k].state) \/ Lines(w, w.hazards[l], w.rules[k], s) = <<>>
  BY DEF Permits
<1> QED
  BY <1>2, <1>3, <1>4, SameLines

(* A space its category's rules refuse is refused under all of them.       *)
LEMMA HeldIsRefused ==
  ASSUME NEW h \in Hulls, NEW t, NEW s,
         ~permits_work(decide(h, t, s).state)
  PROVE  /\ ~Permits(mitigation_inputs(h, t), s)
         /\ ~permits_work(evaluate(mitigation_inputs(h, t), s).state)
<1> DEFINE w == engine_inputs(h, t)
           m == mitigation_inputs(h, t)
           R == for_compartment(h, w, s)
           v == [w EXCEPT !.rules = R]
<1>1. IsWorld(w) /\ IsWorld(m)
  BY HullWorlds
<1>2. /\ v.graph = w.graph /\ v.at = w.at /\ v.hazards = w.hazards /\ v.rules = R
      /\ m.graph = w.graph /\ m.at = w.at /\ m.hazards = w.hazards /\ m.rules = w.rules
  BY DEF engine_inputs, mitigation_inputs
<1>3. decide(h, t, s) = evaluate(v, s)
  BY DEF decide
<1>4. IsSeq(R) /\ ToSet(R) \subseteq ToSet(w.rules)
  BY <1>1, BoundTo DEF for_compartment, IsWorld
<1> HIDE DEF w, m, R, v
<1>5. \A j \in DOMAIN v.rules : v.rules[j].state \in States
  BY <1>1, <1>2, <1>4 DEF IsWorld, ToSet
<1>6. ~Permits(v, s)
  BY <1>1, <1>2, <1>3, <1>4, <1>5, PermitsExact DEF IsWorld
<1>7. ~Permits(m, s)
  BY <1>2, <1>4, <1>6, FewerRules
<1>8. \A j \in DOMAIN m.rules : m.rules[j].state \in States
  BY <1>1 DEF IsWorld, ToSet
<1>9. ~permits_work(evaluate(m, s).state)
  BY <1>1, <1>7, <1>8, PermitsExact DEF IsWorld
<1> QED
  BY <1>7, <1>9 DEF m

(* A line that stands at an instant stood at every earlier one from the    *)
(* raise of its hazard on.                                                 *)
LEMMA StoodBefore ==
  ASSUME NEW w, IsWorld(w), NEW v, v.graph = w.graph, w.at \in Int, v.at \in Int, v.at <= w.at,
         NEW h \in ToSet(w.hazards), NEW rule \in ToSet(w.rules), NEW s,
         h.since <= v.at, Lines(w, h, rule, s) # <<>>
  PROVE  Lines(v, h, rule, s) # <<>>
<1>1. Speaks(h, rule, w.at) /\ PathsTo(w, h, rule, s) # <<>>
  BY LinesType DEF IsWorld
<1>2. PathsTo(v, h, rule, s) = PathsTo(w, h, rule, s)
  BY DEF PathsTo
<1>3. /\ h.since \in Int /\ (h.ended = None \/ h.ended \in Int)
      /\ rule.hold = None \/ rule.hold \in Int
  BY DEF IsWorld
<1>4. ended_by(h, v.at) => ended_by(h, w.at)
  BY <1>3 DEF ended_by
<1>5. ASSUME RunOut(hold_clock(h, rule, v.at), v.at) PROVE RunOut(hold_clock(h, rule, w.at), w.at)
  <2>1. PICK clear : clear = hold_clock(h, rule, v.at)
    OBVIOUS
  <2>2. clear # None /\ clear <= v.at
    BY <1>5, <2>1 DEF RunOut
  <2>3. rule.hold # None
    BY <2>1, <2>2 DEF hold_clock
  <2>4. CASE rule.hold_from = "end"
    BY <2>1, <2>2, <2>3, <2>4, <1>4, <1>3 DEF hold_clock, ended_by, RunOut
  <2>5. CASE rule.hold_from # "end"
    <3>1. clear = h.since + rule.hold /\ hold_clock(h, rule, w.at) = clear
      BY <2>1, <2>3, <2>5 DEF hold_clock
    <3>2. clear \in Int
      BY <1>3, <2>3, <3>1
    <3> QED
      BY <2>2, <3>1, <3>2 DEF RunOut
  <2> QED
    BY <2>4, <2>5
<1>6. Speaks(h, rule, v.at)
  BY <1>1, <1>4, <1>5 DEF Speaks, raised_by
<1> QED
  BY <1>1, <1>2, <1>6, LinesType DEF IsWorld

(* Work planned over an instant at which its space is refused is refused   *)
(* at its start, or at a raise inside its window.                          *)
LEMMA RefusedWithin ==
  ASSUME NEW w, IsWorld(w), w.at \in Int, "at" \in DOMAIN w, {"graph", "rules", "hazards"} \subseteq DOMAIN w,
         NEW s, s # None, NEW window, window # None, window.start \in Int, window.end \in Int,
         window.start <= w.at, w.at < window.end, ~Permits(w, s)
  PROVE  ~executability(w, s, window)
<1>1. PICK i \in DOMAIN w.hazards, j \in DOMAIN w.rules :
        ~permits_work(w.rules[j].state) /\ Lines(w, w.hazards[i], w.rules[j], s) # <<>>
  BY DEF Permits
<1>2. PICK h, rule : h = w.hazards[i] /\ rule = w.rules[j]
  OBVIOUS
<1>3. h \in ToSet(w.hazards) /\ rule \in ToSet(w.rules)
  BY <1>2 DEF ToSet
<1>4. h.since \in Int /\ h.since <= w.at
  BY <1>1, <1>2, <1>3, LinesType DEF IsWorld, Speaks, raised_by
<1>5. PICK t : t = IF h.since <= window.start THEN window.start ELSE h.since
  OBVIOUS
<1>6. t \in Int /\ t <= w.at /\ h.since <= t
  BY <1>4, <1>5
<1>7. t \in {window.start} \cup
            {w.hazards[k].since : k \in {k \in DOMAIN w.hazards :
                window.start < w.hazards[k].since /\ w.hazards[k].since < window.end}}
  BY <1>2, <1>4, <1>5
<1>8. PICK v : v = [w EXCEPT !.at = t]
  OBVIOUS
<1>9. v.graph = w.graph /\ v.rules = w.rules /\ v.hazards = w.hazards /\ v.at = t
  BY <1>8
<1>10. Lines(v, h, rule, s) # <<>>
  BY <1>1, <1>2, <1>3, <1>6, <1>9, StoodBefore
<1>11. ~Permits(v, s)
  BY <1>1, <1>2, <1>9, <1>10 DEF Permits
<1> QED
  BY <1>7, <1>8, <1>11 DEF executability

-----------------------------------------------------------------------------
(* What the issue board has of a space and of an activity.                 *)
LEMMA SpaceIssue ==
  ASSUME NEW w, NEW s
  PROVE  /\ ~permits_work(evaluate(w, s).state) =>
              \E i \in space_issue(w, s) : i.key \in {<<"held", s>>, <<"compound", s>>}
         /\ \A i \in space_issue(w, s) : i.key \in {<<"held", s>>, <<"compound", s>>}
         /\ \A i, j \in space_issue(w, s) : i = j
<1> DEFINE a == triage(w, s)
           compound == Issue("compound", s, s, Load(w, w.at, s))
           held == Issue("held", s, s, Load(w, w.at, s))
<1>1. a.state = evaluate(w, s).state
  BY DEF triage, TriageOf, Sorted, Triaged
<1>2. compound.key = <<"compound", s>> /\ held.key = <<"held", s>>
  BY DEF Issue
<1>3. \/ permits_work(a.state) /\ space_issue(w, s) = {}
      \/ ~permits_work(a.state) /\ space_issue(w, s) = {compound}
      \/ ~permits_work(a.state) /\ space_issue(w, s) = {held}
  BY DEF space_issue
<1> HIDE DEF a, compound, held
<1> QED
  BY <1>1, <1>2, <1>3

LEMMA IssueKeys ==
  ASSUME NEW w, NEW rows, NEW stuck, NEW edges,
         NEW board, board = derive(w, rows, stuck, edges),
         NEW keys, keys = {i.key : i \in board}
  PROVE  /\ \A s \in w.spaces : Load(w, w.at, s) > 0 /\ ~permits_work(evaluate(w, s).state) =>
              <<"held", s>> \in keys \/ <<"compound", s>> \in keys
         /\ \A s : ~(<<"held", s>> \in keys /\ <<"compound", s>> \in keys)
         /\ \A r \in rows : r.remaining > 0 /\ ~executability(w, r.space, r.window) =>
              <<"not_executable", r.code>> \in keys
<1> DEFINE spaces == {x \in w.spaces : Load(w, w.at, x) > 0}
           late == {x \in rows : x.remaining > 0 /\ ~executability(w, x.space, x.window)}
           after(e) == MapThenSumSet(LAMBDA r : r.remaining, {r \in rows : r.code = e.succ})
<1>5. PICK closed : closed = {space_issue(w, s) : s \in spaces}
  OBVIOUS
<1>6. PICK lates : lates = {Issue("not_executable", r.code, r.space, r.remaining) : r \in late}
  OBVIOUS
<1>7. PICK stalls : stalls = {Issue("stranding", s.compartment, s.compartment, s.stranded_downstream) :
                                s \in {x \in stuck : x.stranded_downstream > 0}}
  OBVIOUS
<1>8. PICK backward : backward = {Issue("negative_lag", <<e.pred, e.succ>>, None, after(e)) :
                                    e \in {x \in edges : x.lag < 0}}
  OBVIOUS
<1>9. board = (UNION closed) \cup lates \cup stalls \cup backward
  BY <1>5, <1>6, <1>7, <1>8 DEF derive
<1> HIDE DEF spaces, late, after
<1>11. /\ \A x \in closed : x \subseteq board
       /\ \A i \in lates : i \in board
       /\ \A i \in board : (\E x \in closed : i \in x) \/ i \in lates \/ i \in stalls \/ i \in backward
  BY <1>9
<1>10. \A k, j, s, h : Issue(k, j, s, h).key = <<k, j>> /\ Issue(k, j, s, h).key[1] = k
  BY DEF Issue
<1>1. /\ \A s \in spaces : \A i \in space_issue(w, s) : i \in board
      /\ \A r \in late : Issue("not_executable", r.code, r.space, r.remaining) \in board
      /\ \A i \in board : \/ \E s \in spaces : i \in space_issue(w, s)
                          \/ i.key[1] \in {"not_executable", "stranding", "negative_lag"}
  <2>1. \A s \in spaces : \A i \in space_issue(w, s) : i \in board
    BY <1>5, <1>9
  <2>2. \A r \in late : Issue("not_executable", r.code, r.space, r.remaining) \in board
    <3>1. \A r \in late : Issue("not_executable", r.code, r.space, r.remaining) \in lates
      BY <1>6
    <3> QED
      BY <1>11, <3>1
  <2>3. \A i \in lates : i.key[1] = "not_executable"
    BY <1>6, <1>10
  <2>4. \A i \in stalls : i.key[1] = "stranding"
    BY <1>7, <1>10
  <2>5. \A i \in backward : i.key[1] = "negative_lag"
    <3>1. \A i \in backward : \E k, h : i = Issue("negative_lag", k, None, h)
      BY <1>8
    <3> QED
      BY <1>10, <3>1
  <2>6. \A x \in closed : \E s \in spaces : x = space_issue(w, s)
    BY <1>5
  <2>7. \A i \in board : \/ \E s \in spaces : i \in space_issue(w, s)
                        \/ i.key[1] \in {"not_executable", "stranding", "negative_lag"}
    BY <1>11, <2>3, <2>4, <2>5, <2>6
  <2> QED
    BY <2>1, <2>2, <2>7
<1>2. ASSUME NEW s \in w.spaces, Load(w, w.at, s) > 0, ~permits_work(evaluate(w, s).state)
      PROVE  <<"held", s>> \in keys \/ <<"compound", s>> \in keys
  <2>1. PICK i \in space_issue(w, s) : i.key \in {<<"held", s>>, <<"compound", s>>}
    BY <1>2, SpaceIssue
  <2>2. i \in board
    BY <1>1, <1>2, <2>1 DEF spaces
  <2> QED
    BY <2>1, <2>2
<1>3. ASSUME NEW s, <<"held", s>> \in keys, <<"compound", s>> \in keys
      PROVE  FALSE
  BY <1>3, <1>1, SpaceIssue
<1>4. ASSUME NEW r \in rows, r.remaining > 0, ~executability(w, r.space, r.window)
      PROVE  <<"not_executable", r.code>> \in keys
  BY <1>1, <1>4, <1>10 DEF late
<1> QED
  BY <1>2, <1>3, <1>4

-----------------------------------------------------------------------------
(* Waiting.  A line that refuses the work of a space.                      *)
Pairings(w) == (DOMAIN w.hazards) \X (DOMAIN w.rules)
ClockOf(w, x) == hold_clock(w.hazards[x[1]], w.rules[x[2]], w.at)
Bars(w, s, x) ==
  ~permits_work(w.rules[x[2]].state) /\ Lines(w, w.hazards[x[1]], w.rules[x[2]], s) # <<>>

LEMMA ShutBy ==
  ASSUME NEW w, NEW s
  PROVE  /\ ~Permits(w, s) => \E x \in Pairings(w) : Bars(w, s, x)
         /\ \A x \in Pairings(w) : Bars(w, s, x) => ~Permits(w, s)
<1>1. \A x \in Pairings(w) : x[1] \in DOMAIN w.hazards /\ x[2] \in DOMAIN w.rules
  BY DEF Pairings
<1>2. \A i \in DOMAIN w.hazards, j \in DOMAIN w.rules :
        \E x \in Pairings(w) : x[1] = i /\ x[2] = j
  <2>1. SUFFICES ASSUME NEW i \in DOMAIN w.hazards, NEW j \in DOMAIN w.rules
                 PROVE  \E x \in Pairings(w) : x[1] = i /\ x[2] = j
    OBVIOUS
  <2>2. <<i, j>> \in Pairings(w)
    BY DEF Pairings
  <2> QED
    BY <2>2
<1>3. ASSUME NEW x \in Pairings(w), Bars(w, s, x) PROVE ~Permits(w, s)
  BY <1>1, <1>3 DEF Permits, Bars
<1>4. ASSUME ~Permits(w, s) PROVE \E x \in Pairings(w) : Bars(w, s, x)
  BY <1>4, <1>2 DEF Permits, Bars
<1> QED
  BY <1>3, <1>4

(* What keeps a space shut are the clocks of the lines that refuse it.     *)
LEMMA Expiries ==
  ASSUME NEW w, IsWorld(w), NEW s
  PROVE  {line.earliest_clear : line \in ToSet(Blocking(Trace(w, s)))}
           = {ClockOf(w, x) : x \in {y \in Pairings(w) : Bars(w, s, y)}}
<1>1. IsSeq(w.graph) /\ IsSeq(w.rules) /\ IsSeq(w.hazards)
  BY DEF IsWorld
<1>2. PICK trace : trace = Trace(w, s)
  OBVIOUS
<1>3. IsSeq(trace)
  BY <1>1, <1>2, TraceHolds
<1>4. \A l : l \in ToSet(Blocking(trace)) <=> l \in ToSet(trace) /\ ~permits_work(l.state)
  <2> DEFINE T == {i \in DOMAIN trace : ~permits_work(trace[i].state)}
  <2>1. Blocking(trace) = At(trace, T)
    BY DEF Blocking, Chosen, At
  <2>2. T \cap DOMAIN trace = T
    OBVIOUS
  <2>3. /\ \A x \in ToSet(Blocking(trace)) : \E i \in T : x = trace[i]
        /\ \A i \in T : trace[i] \in ToSet(Blocking(trace))
    <3> HIDE DEF T
    <3> QED
      BY <1>3, <2>1, <2>2, Picked
  <2>4. ASSUME NEW l \in ToSet(Blocking(trace)) PROVE l \in ToSet(trace) /\ ~permits_work(l.state)
    BY <2>3 DEF ToSet
  <2>5. ASSUME NEW l \in ToSet(trace), ~permits_work(l.state) PROVE l \in ToSet(Blocking(trace))
    BY <2>3, <2>5 DEF ToSet
  <2> QED
    BY <2>4, <2>5
<1>5. ASSUME NEW l \in ToSet(Blocking(trace))
      PROVE  \E x \in Pairings(w) : Bars(w, s, x) /\ l.earliest_clear = ClockOf(w, x)
  <2>1. l \in ToSet(trace) /\ ~permits_work(l.state)
    BY <1>4
  <2>2. PICK i \in DOMAIN w.hazards, j \in DOMAIN w.rules :
          l \in ToSet(Lines(w, w.hazards[i], w.rules[j], s))
    BY <1>1, <1>2, <2>1, TraceHolds
  <2>3. l.state = w.rules[j].state /\ l.earliest_clear = hold_clock(w.hazards[i], w.rules[j], w.at)
    BY <1>1, <2>2, LinesType
  <2>4. Lines(w, w.hazards[i], w.rules[j], s) # <<>>
    BY <2>2 DEF ToSet
  <2>5. PICK x : x = <<i, j>>
    OBVIOUS
  <2>6. x \in Pairings(w) /\ x[1] = i /\ x[2] = j
    BY <2>5 DEF Pairings
  <2> QED
    BY <2>1, <2>3, <2>4, <2>6 DEF Bars, ClockOf
<1>6. ASSUME NEW x \in Pairings(w), Bars(w, s, x)
      PROVE  \E l \in ToSet(Blocking(trace)) : l.earliest_clear = ClockOf(w, x)
  <2>1. x[1] \in DOMAIN w.hazards /\ x[2] \in DOMAIN w.rules
    BY DEF Pairings
  <2>2. PICK lines : lines = Lines(w, w.hazards[x[1]], w.rules[x[2]], s)
    OBVIOUS
  <2>3. /\ IsSeq(lines) /\ lines # <<>> /\ ~permits_work(w.rules[x[2]].state)
        /\ \A l \in ToSet(lines) : l.state = w.rules[x[2]].state /\ l.earliest_clear = ClockOf(w, x)
    BY <1>1, <1>6, <2>2, LinesType DEF Bars, ClockOf
  <2>4. PICK l \in ToSet(lines) : TRUE
    BY <2>3, Empty
  <2>5. l \in ToSet(trace)
    BY <1>1, <1>2, <2>1, <2>2, <2>4, TraceHolds
  <2> QED
    BY <1>4, <2>3, <2>4, <2>5
<1> QED
  BY <1>2, <1>5, <1>6

(* A clock lies ahead of the line it is on; and where no hazard's end lies *)
(* ahead, it does not move, and the line stands until it.                  *)
LEMMA AheadOf ==
  ASSUME NEW w, IsWorld(w), w.at \in Int, NEW s, NEW x \in Pairings(w), Bars(w, s, x),
         ClockOf(w, x) # None
  PROVE  ClockOf(w, x) \in Int /\ w.at < ClockOf(w, x)
<1>1. PICK h, rule : h = w.hazards[x[1]] /\ rule = w.rules[x[2]]
  OBVIOUS
<1>2. h \in ToSet(w.hazards) /\ rule \in ToSet(w.rules)
  BY <1>1 DEF Pairings, ToSet
<1>3. /\ h.since \in Int /\ (h.ended = None \/ h.ended \in Int)
      /\ rule.hold = None \/ rule.hold \in Int
  BY <1>2 DEF IsWorld
<1>4. PICK clear : clear = hold_clock(h, rule, w.at) /\ clear = ClockOf(w, x)
  BY <1>1 DEF ClockOf
<1>5. \/ clear = h.ended + rule.hold /\ h.ended # None /\ rule.hold # None
      \/ clear = h.since + rule.hold /\ rule.hold # None
  BY <1>4 DEF hold_clock, ended_by
<1>6. clear \in Int
  BY <1>3, <1>5
<1>7. ~RunOut(clear, w.at)
  <2>1. Lines(w, h, rule, s) # <<>>
    BY <1>1 DEF Bars
  <2>2. Speaks(h, rule, w.at)
    BY <2>1, LinesType DEF IsWorld
  <2> QED
    BY <1>4, <2>2 DEF Speaks
<1> QED
  BY <1>4, <1>6, <1>7 DEF RunOut

Then(w, t) == [w EXCEPT !.at = t]

IsReading(w) ==
  /\ IsWorld(w) /\ w.at \in Int
  /\ {"at", "graph", "rules", "hazards"} \subseteq DOMAIN w

LEMMA ThenIs ==
  ASSUME NEW w, IsReading(w), NEW t \in Int
  PROVE  /\ IsReading(Then(w, t)) /\ Then(w, t).at = t
         /\ Then(w, t).graph = w.graph /\ Then(w, t).rules = w.rules /\ Then(w, t).hazards = w.hazards
         /\ Pairings(Then(w, t)) = Pairings(w)
         /\ \A u \in Int : Then(Then(w, t), u) = Then(w, u)
<1>1. PICK v : v = Then(w, t)
  OBVIOUS
<1>2. /\ v.at = t /\ v.graph = w.graph /\ v.rules = w.rules /\ v.hazards = w.hazards
      /\ DOMAIN v = DOMAIN w
  BY <1>1 DEF Then, IsReading
<1>3. IsReading(v)
  BY <1>2 DEF IsReading, IsWorld
<1>4. \A u \in Int : Then(v, u) = Then(w, u)
  BY <1>1 DEF Then, IsReading
<1> QED
  BY <1>1, <1>2, <1>3, <1>4 DEF Pairings

NoEnds(w) == \A h \in ToSet(w.hazards) : h.ended = None \/ h.ended <= w.at

LEMMA SameClock ==
  ASSUME NEW w, IsReading(w), NoEnds(w), NEW t \in Int, w.at <= t, NEW x \in Pairings(w)
  PROVE  ClockOf(Then(w, t), x) = ClockOf(w, x)
<1>1. PICK h, rule : h = w.hazards[x[1]] /\ rule = w.rules[x[2]]
  OBVIOUS
<1>2. h \in ToSet(w.hazards)
  BY <1>1 DEF Pairings, ToSet
<1>3. h.ended = None \/ (h.ended \in Int /\ h.ended <= w.at)
  <2>1. h.since \in Int /\ (h.ended = None \/ h.ended \in Int)
    BY <1>2 DEF IsReading, IsWorld
  <2>2. h.ended = None \/ h.ended <= w.at
    BY <1>2 DEF NoEnds
  <2> QED
    BY <2>1, <2>2
<1>4. ended_by(h, t) <=> ended_by(h, w.at)
  BY <1>3 DEF ended_by, IsReading
<1>5. hold_clock(h, rule, t) = hold_clock(h, rule, w.at)
  BY <1>4 DEF hold_clock
<1> QED
  BY <1>1, <1>5, ThenIs DEF ClockOf

LEMMA Stands ==
  ASSUME NEW w, IsReading(w), NoEnds(w), NEW s, NEW x \in Pairings(w), Bars(w, s, x),
         NEW t \in Int, w.at <= t, ClockOf(w, x) = None \/ t < ClockOf(w, x)
  PROVE  Bars(Then(w, t), s, x)
<1>1. PICK h, rule : h = w.hazards[x[1]] /\ rule = w.rules[x[2]]
  OBVIOUS
<1>2. h \in ToSet(w.hazards) /\ rule \in ToSet(w.rules)
  BY <1>1 DEF Pairings, ToSet
<1>3. /\ h.since \in Int
      /\ h.ended = None \/ (h.ended \in Int /\ h.ended <= w.at)
  <2>1. h.since \in Int /\ (h.ended = None \/ h.ended \in Int)
    BY <1>2 DEF IsReading, IsWorld
  <2>2. h.ended = None \/ h.ended <= w.at
    BY <1>2 DEF NoEnds
  <2> QED
    BY <2>1, <2>2
<1>4. ended_by(h, t) <=> ended_by(h, w.at)
  BY <1>3 DEF ended_by, IsReading
<1>5. PICK v : v = Then(w, t)
  OBVIOUS
<1>6. IsReading(v) /\ v.at = t /\ v.graph = w.graph /\ v.hazards = w.hazards /\ v.rules = w.rules
  BY <1>5, ThenIs
<1>7. Speaks(h, rule, w.at) /\ PathsTo(w, h, rule, s) # <<>> /\ ~permits_work(rule.state)
  BY <1>1, LinesType DEF Bars, IsReading, IsWorld
<1>8. ~RunOut(hold_clock(h, rule, t), t)
  <2>1. hold_clock(h, rule, t) = ClockOf(w, x)
    BY <1>1, <1>4 DEF hold_clock, ClockOf
  <2>2. ClockOf(w, x) = None \/ ClockOf(w, x) \in Int
    BY AheadOf DEF IsReading
  <2> QED
    BY <2>1, <2>2 DEF RunOut
<1>9. raised_by(h, t)
  BY <1>3, <1>7 DEF Speaks, raised_by, IsReading
<1>10. Speaks(h, rule, v.at)
  BY <1>4, <1>6, <1>7, <1>8, <1>9 DEF Speaks
<1>11. PathsTo(v, h, rule, s) = PathsTo(w, h, rule, s)
  BY <1>6 DEF PathsTo
<1>12. Lines(v, h, rule, s) # <<>>
  BY <1>6, <1>7, <1>10, <1>11, LinesType DEF IsReading, IsWorld
<1> QED
  BY <1>1, <1>5, <1>6, <1>7, <1>12 DEF Bars

LEMMA PairingsFinite ==
  ASSUME NEW w, IsWorld(w)
  PROVE  IsFiniteSet(Pairings(w))
<1>1. IsSeq(w.hazards) /\ IsSeq(w.rules)
  BY DEF IsWorld
<1>2. DOMAIN w.hazards = 1 .. Len(w.hazards) /\ DOMAIN w.rules = 1 .. Len(w.rules)
  BY <1>1, Places
<1>3. Len(w.hazards) \in Nat /\ Len(w.rules) \in Nat
  BY <1>1, Places
<1>4. IsFiniteSet(DOMAIN w.hazards) /\ IsFiniteSet(DOMAIN w.rules)
  BY <1>2, <1>3, FS_Interval
<1> QED
  BY <1>4, FS_Product DEF Pairings

(* What is said of a refused space's clocks: the last of those that keep   *)
(* it shut, or none when one of them has no end.                           *)
LEMMA Expiry ==
  ASSUME NEW w, IsWorld(w), w.at \in Int, NEW s, ~Permits(w, s),
         NEW e, e = blocking_expiry(evaluate(w, s))
  PROVE  /\ \E x \in Pairings(w) : Bars(w, s, x) /\ ClockOf(w, x) = e
         /\ e = None \/ (e \in Int /\ w.at < e)
<1>1. PICK barring : barring = {y \in Pairings(w) : Bars(w, s, y)}
  OBVIOUS
<1>2. barring # {} /\ \A x \in barring : x \in Pairings(w) /\ Bars(w, s, x)
  BY <1>1, ShutBy
<1>3. PICK clock_of : clock_of = [x \in barring |-> ClockOf(w, x)]
  OBVIOUS
<1>4. PICK clocks : clocks = {clock_of[x] : x \in DOMAIN clock_of}
  OBVIOUS
<1>5. {line.earliest_clear : line \in ToSet(Blocking(Trace(w, s)))} = clocks
  <2>1. clocks = {ClockOf(w, x) : x \in barring}
    BY <1>3, <1>4
  <2> QED
    BY <1>1, <2>1, Expiries
<1>6. e = LatestIfAll(clocks)
  BY <1>5 DEF blocking_expiry, evaluate, Decided
<1>7. \A c \in clocks : \E x \in Pairings(w) : Bars(w, s, x) /\ ClockOf(w, x) = c
  BY <1>2, <1>3, <1>4
<1>8. \A c \in clocks : c = None \/ (c \in Int /\ w.at < c)
  BY <1>7, AheadOf
<1>9. clocks # {} /\ IsFiniteSet(clocks)
  <2>1. IsFiniteSet(barring)
    BY <1>1, PairingsFinite, FS_Subset
  <2>2. DOMAIN clock_of = barring
    BY <1>3
  <2> QED
    BY <1>2, <1>4, <2>1, <2>2, FiniteImage
<1>10. e \in clocks
  <2>1. CASE None \in clocks
    BY <1>6, <2>1 DEF LatestIfAll
  <2>2. CASE None \notin clocks
    <3>1. clocks \subseteq Int
      BY <1>8, <2>2
    <3>2. e = Max(clocks)
      BY <1>6, <1>9, <2>2 DEF LatestIfAll, LatestOf
    <3> QED
      BY <1>9, <3>1, <3>2, Greatest
  <2> QED
    BY <2>1, <2>2
<1> QED
  BY <1>7, <1>8, <1>10

(* Until then the space stays shut, and for ever when there is no such     *)
(* instant.                                                                *)
ShutFor(w, s, e) == \A t \in Int : w.at <= t /\ (e = None \/ t < e) => ~Permits(Then(w, t), s)

LEMMA ShutUntil ==
  ASSUME NEW w, IsReading(w), NoEnds(w), NEW s, ~Permits(w, s)
  PROVE  ShutFor(w, s, blocking_expiry(evaluate(w, s)))
<1>1. PICK e : e = blocking_expiry(evaluate(w, s))
  OBVIOUS
<1>2. PICK x \in Pairings(w) : Bars(w, s, x) /\ ClockOf(w, x) = e
  BY <1>1, Expiry DEF IsReading
<1>3. ASSUME NEW t \in Int, w.at <= t, e = None \/ t < e PROVE ~Permits(Then(w, t), s)
  <2>1. Bars(Then(w, t), s, x)
    BY <1>2, <1>3, Stands
  <2>2. x \in Pairings(Then(w, t))
    BY ThenIs
  <2> QED
    BY <2>1, <2>2, ShutBy
<1> QED
  BY <1>1, <1>3 DEF ShutFor

(* How far a reading has waited: it is shut until then, or for good; what  *)
(* is settled is open; and each pass had a clock of its own to wait for.   *)
Waited == {p \in [until : Int \cup {None}, settled : BOOLEAN] : p.settled => p.until # None}

Past(w, t) == {c \in ExpiriesOf(w) : c <= t}

Known(w, s, p, n) ==
  /\ p \in Waited
  /\ p.until # None => w.at < p.until
  /\ p.settled => Permits(Then(w, p.until), s)
  /\ NoEnds(w) => /\ ShutFor(w, s, p.until)
                  /\ p.until # None /\ ~p.settled => Cardinality(Past(w, p.until)) > n

LEMMA ExpiriesFinite ==
  ASSUME NEW w, IsWorld(w)
  PROVE  /\ IsFiniteSet(ExpiriesOf(w))
         /\ ExpiriesOf(w) \subseteq Int
         /\ \A x \in Pairings(w) : ClockOf(w, x) # None => ClockOf(w, x) \in ExpiriesOf(w)
<1>1. PICK clock_of : clock_of = [x \in Pairings(w) |-> ClockOf(w, x)]
  OBVIOUS
<1>2. PICK clocks : clocks = {clock_of[x] : x \in DOMAIN clock_of}
  OBVIOUS
<1>3. IsFiniteSet(clocks)
  BY <1>1, <1>2, PairingsFinite, FiniteImage
<1>4. \A x \in Pairings(w) : x[1] \in DOMAIN w.hazards /\ x[2] \in DOMAIN w.rules
  BY DEF Pairings
<1>5. ASSUME NEW c \in ExpiriesOf(w) PROVE c \in clocks
  <2>1. PICK i \in DOMAIN w.hazards, j \in DOMAIN w.rules :
          c = hold_clock(w.hazards[i], w.rules[j], w.at)
    BY <1>5 DEF ExpiriesOf
  <2>2. PICK x : x = <<i, j>>
    OBVIOUS
  <2>3. x \in Pairings(w) /\ x[1] = i /\ x[2] = j
    BY <2>2 DEF Pairings
  <2> QED
    BY <1>1, <1>2, <2>1, <2>3 DEF ClockOf
<1>6. IsFiniteSet(ExpiriesOf(w))
  <2>1. ExpiriesOf(w) \in SUBSET clocks
    BY <1>5
  <2> QED
    BY <1>3, <2>1, FS_Subset
<1>7. \A x \in Pairings(w) : ClockOf(w, x) # None => ClockOf(w, x) \in ExpiriesOf(w)
  BY <1>4 DEF ExpiriesOf, ClockOf
<1>8. ASSUME NEW c \in ExpiriesOf(w) PROVE c \in Int
  BY <1>8 DEF ExpiriesOf, ToSet, IsWorld, hold_clock, ended_by
<1> QED
  BY <1>6, <1>7, <1>8

(* One more pass knows as much.                                            *)
LEMMA PassIs ==
  ASSUME NEW w, IsReading(w), NEW s, NEW p \in Waited
  PROVE  /\ p.settled \/ p.until = None => Pass(w, s, p) = p
         /\ ~p.settled /\ p.until # None /\ Permits(Then(w, p.until), s) =>
              Pass(w, s, p) = [until |-> p.until, settled |-> TRUE]
         /\ ~p.settled /\ p.until # None /\ ~Permits(Then(w, p.until), s) =>
              LET next == blocking_expiry(evaluate(Then(w, p.until), s))
              IN /\ Pass(w, s, p) = [until |-> next, settled |-> FALSE]
                 /\ next = None \/ (next \in Int /\ p.until < next)
<1>1. CASE p.settled \/ p.until = None
  BY <1>1 DEF Pass
<1>2. CASE ~(p.settled \/ p.until = None)
  <2>1. p.until \in Int /\ ~p.settled /\ p = [until |-> p.until, settled |-> FALSE]
    BY <1>2 DEF Waited
  <2>2. PICK v : v = Then(w, p.until)
    OBVIOUS
  <2>3. IsReading(v) /\ v.at = p.until
    BY <2>1, <2>2, ThenIs
  <2>4. IsWorld(v) /\ v.at \in Int
    BY <2>3 DEF IsReading
  <2>5. permits_work(evaluate(v, s).state) <=> Permits(v, s)
    <3>1. \A j \in DOMAIN v.rules : v.rules[j].state \in States
      BY <2>4 DEF IsWorld, ToSet
    <3> QED
      BY <2>4, <3>1, PermitsExact DEF IsWorld
  <2>6. Pass(w, s, p) = Looked(p, evaluate(v, s))
    BY <1>2, <2>2 DEF Pass, Then
  <2>7. CASE Permits(v, s)
    <3>1. Looked(p, evaluate(v, s)) = [p EXCEPT !.settled = TRUE]
      BY <2>5, <2>7 DEF Looked
    <3> QED
      BY <1>2, <2>1, <2>2, <2>6, <2>7, <3>1
  <2>8. CASE ~Permits(v, s)
    <3>1. PICK next : next = blocking_expiry(evaluate(v, s))
      OBVIOUS
    <3>2. next = None \/ (next \in Int /\ v.at < next)
      BY <2>4, <2>8, <3>1, Expiry
    <3>3. Looked(p, evaluate(v, s)) = Pushed(p, next)
      BY <2>5, <2>8, <3>1 DEF Looked
    <3>4. Pushed(p, next) = [p EXCEPT !.until = next]
      BY <2>1, <2>3, <3>2 DEF Pushed
    <3>5. [p EXCEPT !.until = next] = [until |-> next, settled |-> FALSE]
      <4>1. \A u, b : [[until |-> u, settled |-> b] EXCEPT !.until = next] = [until |-> next, settled |-> b]
        OBVIOUS
      <4>2. PICK u, b : p = [until |-> u, settled |-> b] /\ b = FALSE
        BY <2>1
      <4> QED
        BY <4>1, <4>2
    <3> QED
      BY <1>2, <2>2, <2>3, <2>6, <2>8, <3>1, <3>2, <3>3, <3>4, <3>5
  <2> QED
    BY <2>7, <2>8
<1> QED
  BY <1>1, <1>2

LEMMA PassType ==
  ASSUME NEW w, IsReading(w), NEW s, NEW p \in Waited
  PROVE  Pass(w, s, p) \in Waited
<1>1. CASE p.settled \/ p.until = None
  BY <1>1, PassIs
<1>2. CASE ~(p.settled \/ p.until = None) /\ Permits(Then(w, p.until), s)
  <2>1. p.until \in Int
    BY <1>2 DEF Waited
  <2>2. Pass(w, s, p) = [until |-> p.until, settled |-> TRUE]
    BY <1>2, PassIs
  <2> QED
    BY <1>2, <2>1, <2>2 DEF Waited
<1>3. CASE ~(p.settled \/ p.until = None) /\ ~Permits(Then(w, p.until), s)
  <2>1. PICK next : next = blocking_expiry(evaluate(Then(w, p.until), s))
    OBVIOUS
  <2>2. Pass(w, s, p) = [until |-> next, settled |-> FALSE] /\ (next = None \/ next \in Int)
    BY <1>3, <2>1, PassIs
  <2> QED
    BY <2>2 DEF Waited
<1> QED
  BY <1>1, <1>2, <1>3

LEMMA OneMoreClock ==
  ASSUME NEW w, IsWorld(w), NEW t \in Int, NEW u \in ExpiriesOf(w), u \in Int, t < u
  PROVE  /\ Cardinality(Past(w, u)) > Cardinality(Past(w, t))
         /\ Cardinality(ExpiriesOf(w)) >= Cardinality(Past(w, t))
         /\ Cardinality(Past(w, t)) \in Nat /\ Cardinality(ExpiriesOf(w)) \in Nat
<1>1. IsFiniteSet(ExpiriesOf(w)) /\ Past(w, t) \in SUBSET ExpiriesOf(w) /\ Past(w, u) \in SUBSET ExpiriesOf(w)
  BY ExpiriesFinite DEF Past
<1>2. IsFiniteSet(Past(w, t)) /\ IsFiniteSet(Past(w, u))
  BY <1>1, FS_Subset
<1>3. /\ Cardinality(Past(w, t)) \in Nat /\ Cardinality(Past(w, u)) \in Nat
      /\ Cardinality(ExpiriesOf(w)) \in Nat
  BY <1>1, <1>2, FS_CardinalityType
<1>4. Cardinality(ExpiriesOf(w)) >= Cardinality(Past(w, t))
  BY <1>1, <1>3, FS_Subset
<1>5. u \in Past(w, u) /\ u \notin Past(w, t)
  BY DEF Past
<1>6. ExpiriesOf(w) \subseteq Int
  BY ExpiriesFinite
<1>7. Past(w, t) \cup {u} \in SUBSET Past(w, u)
  BY <1>5, <1>6 DEF Past
<1>8. Cardinality(Past(w, t) \cup {u}) = Cardinality(Past(w, t)) + 1
  BY <1>2, <1>5, FS_AddElement
<1>9. Cardinality(Past(w, t) \cup {u}) <= Cardinality(Past(w, u))
  BY <1>2, <1>7, FS_Subset
<1> QED
  BY <1>3, <1>4, <1>8, <1>9

LEMMA KnownFirst ==
  ASSUME NEW w, IsReading(w), NEW s, ~Permits(w, s), NEW first,
         first = blocking_expiry(evaluate(w, s)), first # None
  PROVE  Known(w, s, [until |-> first, settled |-> FALSE], 0)
<1>1. PICK p : p = [until |-> first, settled |-> FALSE]
  OBVIOUS
<1>2. p.until = first /\ p.settled = FALSE
  BY <1>1
<1>3. PICK x \in Pairings(w) : ClockOf(w, x) = first
  BY Expiry DEF IsReading
<1>4. first \in Int /\ w.at < first
  BY Expiry DEF IsReading
<1>5. p \in Waited
  BY <1>1, <1>4 DEF Waited
<1>6. Cardinality(Past(w, first)) > 0
  <2>1. first \in Past(w, first)
    BY <1>3, <1>4, ExpiriesFinite DEF Past, IsReading
  <2>2. IsFiniteSet(Past(w, first))
    BY ExpiriesFinite, FS_Subset DEF Past, IsReading
  <2> QED
    BY <2>1, <2>2, FS_EmptySet, FS_CardinalityType
<1>7. NoEnds(w) => ShutFor(w, s, first)
  BY ShutUntil
<1> QED
  BY <1>1, <1>2, <1>4, <1>5, <1>6, <1>7 DEF Known

LEMMA KnownPass ==
  ASSUME NEW w, IsReading(w), NEW s, NEW n \in Nat \ {0}, NEW p, Known(w, s, p, n - 1)
  PROVE  Known(w, s, Pass(w, s, p), n)
<1>1. p \in Waited /\ (p.until = None \/ p.until \in Int)
  BY DEF Known, Waited
<1>2. CASE p.settled \/ p.until = None
  <2>1. Pass(w, s, p) = p
    BY <1>1, <1>2, PassIs
  <2> QED
    BY <1>2, <2>1 DEF Known
<1>3. CASE ~(p.settled \/ p.until = None) /\ Permits(Then(w, p.until), s)
  BY <1>1, <1>3, PassIs, PassType DEF Known
<1>4. CASE ~(p.settled \/ p.until = None) /\ ~Permits(Then(w, p.until), s)
  <2>1. PICK v : v = Then(w, p.until)
    OBVIOUS
  <2>2. PICK next : next = blocking_expiry(evaluate(v, s))
    OBVIOUS
  <2>3. PICK q : q = [until |-> next, settled |-> FALSE]
    OBVIOUS
  <2>4. Pass(w, s, p) = q /\ q.until = next /\ ~q.settled /\ (next = None \/ (next \in Int /\ p.until < next))
    BY <1>1, <1>4, <2>1, <2>2, <2>3, PassIs
  <2>5. q \in Waited
    BY <1>1, <2>4, PassType
  <2>6. p.until \in Int /\ w.at \in Int /\ w.at < p.until
    BY <1>1, <1>4 DEF Known, IsReading
  <2>7. /\ IsReading(v) /\ v.at = p.until /\ v.hazards = w.hazards /\ Pairings(v) = Pairings(w)
        /\ \A t \in Int : Then(v, t) = Then(w, t)
    BY <2>1, <2>6, ThenIs
  <2>8. ASSUME NoEnds(w)
        PROVE  /\ ShutFor(w, s, next)
               /\ next # None => Cardinality(Past(w, next)) > n
    <3>1. NoEnds(v)
      <4>1. ASSUME NEW h \in ToSet(w.hazards) PROVE h.ended = None \/ h.ended <= p.until
        BY <2>6, <2>8 DEF NoEnds, IsReading, IsWorld
      <4> QED
        BY <2>7, <4>1 DEF NoEnds
    <3>2. ShutFor(v, s, next)
      BY <1>4, <2>1, <2>2, <2>7, <3>1, ShutUntil
    <3>3. ShutFor(w, s, p.until)
      BY <2>8 DEF Known
    <3>4. ASSUME NEW t \in Int, w.at <= t, next = None \/ t < next PROVE ~Permits(Then(w, t), s)
      <4>1. CASE t < p.until
        BY <3>3, <3>4, <4>1 DEF ShutFor
      <4>2. CASE p.until <= t
        BY <2>7, <3>2, <3>4, <4>2 DEF ShutFor
      <4> QED
        BY <2>6, <4>1, <4>2
    <3>5. ASSUME next # None PROVE Cardinality(Past(w, next)) > n
      <4>1. PICK x \in Pairings(v) : ClockOf(v, x) = next
        BY <1>4, <2>1, <2>2, <2>7, Expiry DEF IsReading
      <4>2. x \in Pairings(w) /\ ClockOf(w, x) = next
        BY <2>1, <2>6, <2>7, <2>8, <4>1, SameClock
      <4>3. next \in ExpiriesOf(w) /\ next \in Int /\ p.until < next
        BY <2>4, <3>5, <4>2, ExpiriesFinite DEF IsReading
      <4>4. Cardinality(Past(w, p.until)) > n - 1
        BY <1>4, <2>8 DEF Known
      <4>5. Past(w, next) \in SUBSET ExpiriesOf(w) /\ IsFiniteSet(ExpiriesOf(w))
        BY ExpiriesFinite DEF Past, IsReading
      <4>6. Cardinality(Past(w, next)) \in Nat
        BY <4>5, FS_Subset, FS_CardinalityType
      <4>7. /\ Cardinality(Past(w, next)) > Cardinality(Past(w, p.until))
            /\ Cardinality(Past(w, p.until)) \in Nat
        BY <2>6, <4>3, OneMoreClock DEF IsReading
      <4> QED
        BY <4>4, <4>6, <4>7
    <3> QED
      BY <3>4, <3>5 DEF ShutFor
  <2>9. next # None => w.at < next
    BY <2>4, <2>6
  <2> QED
    BY <2>4, <2>5, <2>8, <2>9 DEF Known
<1> QED
  BY <1>2, <1>3, <1>4

(* What is settled on is a wait that opens the space, and the first that   *)
(* does; when none is, none does, but for the passes running out.          *)
IsPassed(f, w, s, first) ==
  f = [n \in 0 .. SettleCap |->
         IF n = 0 THEN [until |-> first, settled |-> FALSE] ELSE Pass(w, s, f[n - 1])]

LEMMA PassesRun ==
  ASSUME NEW w, IsReading(w), NEW s, NEW first \in Int, first # None
  PROVE  \E f : /\ f[0] = [until |-> first, settled |-> FALSE]
                /\ \A n \in 1 .. SettleCap : f[n] = Pass(w, s, f[n - 1])
                /\ settled_wait(w, s, first) = SettledAt(f[SettleCap])
<1>1. SettleCap \in Nat
  BY SettleAssumption
<1>2. PICK start : start = [until |-> first, settled |-> FALSE] /\ start \in Waited
  <2>1. PICK start : start = [until |-> first, settled |-> FALSE]
    OBVIOUS
  <2>2. start.settled = FALSE
    BY <2>1
  <2> QED
    BY <2>1, <2>2 DEF Waited
<1>3. \E f : IsPassed(f, w, s, first)
  <2>1. PICK F : F = [x \in Waited \X (1 .. SettleCap) |-> Pass(w, s, x[1])]
    OBVIOUS
  <2>2. F \in [Waited \X (1 .. SettleCap) -> Waited]
    BY <2>1, PassType
  <2>3. PICK g \in [0 .. SettleCap -> Waited] :
          g[0] = start /\ \A n \in 1 .. SettleCap : g[n] = F[<<g[n - 1], n>>]
    <3>1. Runs(SettleCap, Waited, start, F) # {}
      BY <1>1, <1>2, <2>2, Computed
    <3> QED
      BY <3>1 DEF Runs
  <2>4. ASSUME NEW n \in 1 .. SettleCap PROVE g[n] = Pass(w, s, g[n - 1])
    <3>1. g[n - 1] \in Waited
      BY <1>1, <2>3
    <3>2. PICK x : x = <<g[n - 1], n>>
      OBVIOUS
    <3>3. x \in Waited \X (1 .. SettleCap) /\ x[1] = g[n - 1]
      BY <3>1, <3>2
    <3> QED
      BY <2>1, <2>3, <3>2, <3>3
  <2>5. PICK k : k = [n \in 0 .. SettleCap |->
         IF n = 0 THEN [until |-> first, settled |-> FALSE] ELSE Pass(w, s, g[n - 1])]
    OBVIOUS
  <2>6. ASSUME NEW n \in 0 .. SettleCap PROVE g[n] = k[n]
    <3>1. k[n] = IF n = 0 THEN start ELSE Pass(w, s, g[n - 1])
      BY <1>2, <2>5
    <3>2. n = 0 \/ n \in 1 .. SettleCap
      BY <1>1
    <3> QED
      BY <2>3, <2>4, <3>1, <3>2
  <2>7. g = k
    <3>1. DOMAIN k = 0 .. SettleCap /\ k = [n \in 0 .. SettleCap |-> k[n]]
      BY <2>5
    <3> QED
      BY <2>3, <2>6, <3>1
  <2> QED
    BY <2>5, <2>7 DEF IsPassed
<1>4. PICK passed : passed = CHOOSE f : IsPassed(f, w, s, first)
  OBVIOUS
<1>5. IsPassed(passed, w, s, first)
  BY <1>3, <1>4
<1>6. PICK k : k = [n \in 0 .. SettleCap |->
        IF n = 0 THEN [until |-> first, settled |-> FALSE] ELSE Pass(w, s, passed[n - 1])]
  OBVIOUS
<1>7. passed = k
  BY <1>5, <1>6 DEF IsPassed
<1>8. k[0] = start /\ \A n \in 1 .. SettleCap : k[n] = Pass(w, s, passed[n - 1])
  BY <1>1, <1>2, <1>6
<1>9. settled_wait(w, s, first) = SettledAt(passed[SettleCap])
  BY <1>4 DEF settled_wait, IsPassed
<1> QED
  BY <1>2, <1>7, <1>8, <1>9

LEMMA WaitSettled ==
  ASSUME NEW w, IsReading(w), NEW s, ~Permits(w, s),
         NEW until, until = first_settled(w, s, blocking_expiry(evaluate(w, s)))
  PROVE  /\ until # None => until \in Int /\ w.at < until /\ Permits(Then(w, until), s)
         /\ NoEnds(w) => Cardinality(ExpiriesOf(w)) > SettleCap \/ ShutFor(w, s, until)
<1>1. PICK first : first = blocking_expiry(evaluate(w, s))
  OBVIOUS
<1>2. CASE first = None
  <2>1. until = None
    BY <1>1, <1>2 DEF first_settled
  <2> QED
    BY <1>1, <1>2, <2>1, ShutUntil
<1>3. CASE first # None
  <2>1. first \in Int
    BY <1>1, <1>3, Expiry DEF IsReading
  <2>2. PICK f : /\ f[0] = [until |-> first, settled |-> FALSE]
                 /\ \A n \in 1 .. SettleCap : f[n] = Pass(w, s, f[n - 1])
                 /\ settled_wait(w, s, first) = SettledAt(f[SettleCap])
    BY <1>3, <2>1, PassesRun
  <2>3. until = SettledAt(f[SettleCap])
    BY <1>1, <1>3, <2>2 DEF first_settled
  <2>4. PICK P : P = {n \in 0 .. SettleCap : Known(w, s, f[n], n)}
    OBVIOUS
  <2>5. 0 \in P
    BY <1>1, <1>3, <2>2, <2>4, KnownFirst, SettleAssumption
  <2>6. ASSUME NEW n \in 1 .. SettleCap, n - 1 \in P PROVE n \in P
    BY SettleAssumption, <2>2, <2>4, <2>6, KnownPass
  <2>7. SettleCap \in P
    BY <2>5, <2>6, Climb, SettleAssumption
  <2>8. PICK p : p = f[SettleCap] /\ Known(w, s, p, SettleCap)
    BY <2>4, <2>7
  <2>9. p \in Waited /\ until = SettledAt(p)
    BY <2>3, <2>8 DEF Known
  <2>10. CASE p.settled
    <3>1. until = p.until /\ until \in Int
      BY <2>9, <2>10 DEF SettledAt, Waited
    <3> QED
      BY <2>8, <2>10, <3>1 DEF Known, Waited
  <2>11. CASE ~p.settled
    <3>1. until = None
      BY <2>9, <2>11 DEF SettledAt
    <3>2. CASE p.until = None
      BY <2>8, <3>1, <3>2 DEF Known
    <3>3. CASE p.until # None
      <4>1. NoEnds(w) => Cardinality(Past(w, p.until)) > SettleCap
        BY <2>8, <2>11, <3>3 DEF Known
      <4>2. IsFiniteSet(ExpiriesOf(w)) /\ Past(w, p.until) \in SUBSET ExpiriesOf(w)
        BY ExpiriesFinite DEF Past, IsReading
      <4>3. /\ Cardinality(Past(w, p.until)) \in Nat /\ Cardinality(ExpiriesOf(w)) \in Nat
            /\ Cardinality(Past(w, p.until)) <= Cardinality(ExpiriesOf(w))
        BY <4>2, FS_Subset, FS_CardinalityType
      <4> QED
        BY <3>1, <4>1, <4>3, SettleAssumption
    <3> QED
      BY <3>2, <3>3
  <2> QED
    BY <2>10, <2>11
<1> QED
  BY <1>2, <1>3

(* The options served: each opens the space in a world of its own, and the *)
(* waits among them are the one settled on.                                *)
LEMMA Options ==
  ASSUME NEW w, NEW s, NEW board, board = assess(w, s)
  PROVE  /\ board.subject = s /\ board.state = evaluate(w, s).state
         /\ \A o \in board.options : /\ ~permits_work(board.state)
                                     /\ o.action \in Opening(w, s, evaluate(w, s))
         /\ ~permits_work(board.state) =>
              \A a \in Opening(w, s, evaluate(w, s)) : \E o \in board.options : o.action = a
<1>1. PICK decision : decision = evaluate(w, s)
  OBVIOUS
<1>2. PICK a : a = [subject |-> s, state |-> decision.state, booked |-> Load(w, w.at, s),
                    holds |-> holds_of(decision), options |-> {}, combined |-> <<>>]
  OBVIOUS
<1>3. CASE permits_work(decision.state)
  <2>1. board = a
    BY <1>1, <1>2, <1>3 DEF assess, Assessed
  <2> QED
    BY <1>1, <1>2, <1>3, <2>1
<1>4. CASE ~permits_work(decision.state)
  <2>1. PICK options : options = OptionsFrom(w, s, Opening(w, s, decision), baseline(w))
    OBVIOUS
  <2>2. board = Offers(w, a, options)
    BY <1>1, <1>2, <1>4, <2>1 DEF assess, Assessed
  <2>3. board.subject = s /\ board.state = decision.state /\ board.options = options
    <3>1. PICK plan : Offers(w, a, options) = [a EXCEPT !.options = options, !.combined = plan]
      BY DEF Offers
    <3> QED
      BY <1>2, <2>2, <3>1
  <2>4. /\ \A o \in options : o.action \in Opening(w, s, decision)
        /\ \A x \in Opening(w, s, decision) : \E o \in options : o.action = x
    <3>1. PICK acts : acts = Opening(w, s, decision)
      OBVIOUS
    <3>2. PICK priced : priced = [x \in acts |->
            [action |-> x, effect |-> effect_of(w, baseline(w), <<x>>),
             subject_state |-> evaluate(apply(w, x), s).state]]
      OBVIOUS
    <3>3. \A x \in acts : priced[x].action = x
      BY <3>2
    <3>4. options = {priced[x] : x \in acts}
      BY <2>1, <3>1, <3>2 DEF OptionsFrom
    <3> QED
      BY <3>1, <3>3, <3>4
  <2> QED
    BY <1>1, <1>4, <2>3, <2>4
<1> QED
  BY <1>3, <1>4

LEMMA WaitOffered ==
  ASSUME NEW w, NEW s, NEW until, until = first_settled(w, s, blocking_expiry(evaluate(w, s)))
  PROVE  \A a \in candidates(w, s, evaluate(w, s)) : a.kind = "wait" => a = Wait(until) /\ until # None
BY DEF candidates, Waits, Wait, Discharge, Interrupt

-----------------------------------------------------------------------------
(* A world read afresh.                                                    *)
LEMMA StillBearing ==
  ASSUME NEW hazards, IsSeq(hazards), NEW t, NEW tail
  PROVE  \A h : h \in ToSet(bearing_on(hazards, t, tail)) <=>
                  h \in ToSet(hazards) /\ (h.ended = None \/ t < h.ended + tail)
<1> DEFINE T == {i \in DOMAIN hazards : hazards[i].ended = None \/ t < hazards[i].ended + tail}
<1>1. bearing_on(hazards, t, tail) = At(hazards, T)
  BY DEF bearing_on, Chosen, At
<1>2. T \cap DOMAIN hazards = T
  OBVIOUS
<1>3. /\ \A x \in ToSet(At(hazards, T)) : \E i \in T : x = hazards[i]
      /\ \A i \in T : hazards[i] \in ToSet(At(hazards, T))
  <2> HIDE DEF T
  <2> QED
    BY <1>2, Picked
<1>4. ASSUME NEW h \in ToSet(At(hazards, T))
      PROVE  h \in ToSet(hazards) /\ (h.ended = None \/ t < h.ended + tail)
  BY <1>3 DEF ToSet
<1>5. ASSUME NEW h \in ToSet(hazards), h.ended = None \/ t < h.ended + tail
      PROVE  h \in ToSet(At(hazards, T))
  BY <1>3, <1>5 DEF ToSet
<1> HIDE DEF T
<1> QED
  BY <1>1, <1>4, <1>5

LEMMA TailType ==
  ASSUME NEW rules, IsSeq(rules), \A i \in DOMAIN rules : rules[i].hold = None \/ rules[i].hold \in Int
  PROVE  /\ longest_end_anchored_hold(rules) \in Int
         /\ (\A i \in DOMAIN rules : ~EndAnchored(rules[i])) => longest_end_anchored_hold(rules) = 0
<1>1. PICK anchored : anchored = {j \in DOMAIN rules : EndAnchored(rules[j])}
  OBVIOUS
<1>2. PICK hold : hold = [i \in anchored |-> rules[i].hold]
  OBVIOUS
<1>3. PICK holds : holds = {hold[i] : i \in DOMAIN hold}
  OBVIOUS
<1>4. {rules[i].hold : i \in anchored} = holds
  BY <1>2, <1>3
<1>5. longest_end_anchored_hold(rules) = IF holds = {} THEN 0 ELSE Max(holds)
  BY <1>1, <1>4 DEF longest_end_anchored_hold
<1>6. holds \subseteq Int
  BY <1>1, <1>2, <1>3 DEF EndAnchored
<1>7. IsFiniteSet(holds)
  <2>1. IsFiniteSet(DOMAIN rules)
    <3>1. Len(rules) \in Nat /\ DOMAIN rules = 1 .. Len(rules)
      BY Places
    <3> QED
      BY <3>1, FS_Interval
  <2>2. anchored \in SUBSET DOMAIN rules /\ DOMAIN hold = anchored
    BY <1>1, <1>2
  <2>3. IsFiniteSet(DOMAIN hold)
    BY <2>1, <2>2, FS_Subset
  <2> QED
    BY <1>3, <2>3, FiniteImage
<1>8. (\A i \in DOMAIN rules : ~EndAnchored(rules[i])) => holds = {}
  BY <1>1, <1>2, <1>3
<1>9. holds # {} => Max(holds) \in Int
  BY <1>6, <1>7, Greatest
<1> QED
  BY <1>5, <1>8, <1>9

LEMMA SameRules ==
  ASSUME NEW rules, NEW t, NEW u,
         \A i \in DOMAIN rules : rules[i].effective_from = None /\ rules[i].effective_to = None
  PROVE  bound_to(rules, AnyWork, t) = bound_to(rules, AnyWork, u)
BY DEF bound_to, Chosen, At, binds

(* Who waits finds no hazard that was not there, ...                       *)
LEMMA WaitOpens ==
  ASSUME NEW h \in Hulls, NEW t \in Int, NEW u \in Int, t <= u,
         \A i \in DOMAIN h.rules : h.rules[i].effective_from = None /\ h.rules[i].effective_to = None,
         NEW s, Permits(Then(mitigation_inputs(h, t), u), s)
  PROVE  Permits(mitigation_inputs(h, u), s)
<1>1. PICK rules : rules = bound_to(h.rules, AnyWork, t) /\ rules = bound_to(h.rules, AnyWork, u)
  BY SameRules
<1>2. PICK tail : tail = longest_end_anchored_hold(rules)
  OBVIOUS
<1>3. PICK w : w = mitigation_inputs(h, t)
  OBVIOUS
<1>4. PICK v : v = mitigation_inputs(h, u)
  OBVIOUS
<1>5. /\ w.graph = h.graph /\ w.rules = rules /\ w.hazards = bearing_on(h.hazards, t, tail) /\ w.at = t
      /\ {"at", "graph", "rules", "hazards"} \subseteq DOMAIN w
      /\ v.graph = h.graph /\ v.rules = rules /\ v.hazards = bearing_on(h.hazards, u, tail) /\ v.at = u
  BY <1>1, <1>2, <1>3, <1>4 DEF mitigation_inputs, engine_inputs
<1>6. IsWorld(w) /\ IsWorld(v)
  BY <1>3, <1>4, HullWorlds
<1>7. tail \in Int
  <2>1. IsSeq(rules) /\ \A i \in DOMAIN rules : rules[i].hold = None \/ rules[i].hold \in Int
    BY <1>5, <1>6 DEF IsWorld, ToSet
  <2> QED
    BY <1>2, <2>1, TailType
<1>8. IsSeq(h.hazards) /\ \A z \in ToSet(h.hazards) : z.ended = None \/ z.ended \in Int
  BY HullsAssumption DEF ToSet
<1>9. ToSet(v.hazards) \subseteq ToSet(w.hazards)
  BY <1>7, <1>8, <1>5, StillBearing
<1>10. PICK later : later = Then(w, u)
  OBVIOUS
<1>11. later.graph = w.graph /\ later.rules = w.rules /\ later.hazards = w.hazards /\ later.at = u
  BY <1>5, <1>10 DEF Then
<1> QED
  BY <1>3, <1>4, <1>5, <1>9, <1>10, <1>11, FewerRules

(* ... and who discharges one, none but the others.                        *)
Ended(h, gone, t) ==
  [h EXCEPT !.hazards = [i \in DOMAIN @ |->
     IF <<@[i].origin, @[i].label>> = gone THEN [@[i] EXCEPT !.ended = t] ELSE @[i]]]

LEMMA DischargeOpens ==
  ASSUME NEW h \in Hulls, NEW t \in Instants, \A i \in DOMAIN h.rules : ~EndAnchored(h.rules[i]),
         NEW a, a.kind = "discharge", NEW s, Permits(apply(mitigation_inputs(h, t), a), s)
  PROVE  Permits(mitigation_inputs(Ended(h, <<a.origin, a.hazard>>, t), t), s)
<1>1. PICK gone : gone = <<a.origin, a.hazard>>
  OBVIOUS
<1>2. PICK k : k = Ended(h, gone, t)
  OBVIOUS
<1>3. /\ {"graph", "rules", "hazards"} \subseteq DOMAIN h /\ IsSeq(h.hazards) /\ IsSeq(h.rules)
      /\ \A i \in DOMAIN h.hazards : "ended" \in DOMAIN h.hazards[i]
      /\ \A i \in DOMAIN h.rules : h.rules[i].hold = None \/ h.rules[i].hold \in Int
      /\ t \in Int /\ t # None
  BY HullsAssumption, BoardsAssumption
<1>4. PICK left : left = [i \in DOMAIN h.hazards |->
                            IF <<h.hazards[i].origin, h.hazards[i].label>> = gone
                            THEN [h.hazards[i] EXCEPT !.ended = t] ELSE h.hazards[i]]
  OBVIOUS
<1>5. k.graph = h.graph /\ k.rules = h.rules /\ k.hazards = left
  BY <1>2, <1>3, <1>4 DEF Ended
<1>6. IsSeq(left)
  BY <1>3, <1>4, OverPlaces
<1>7. PICK rules : rules = bound_to(h.rules, AnyWork, t)
  OBVIOUS
<1>8. longest_end_anchored_hold(rules) = 0
  <2>1. IsSeq(rules) /\ ToSet(rules) \subseteq ToSet(h.rules)
    BY <1>3, <1>7, BoundTo
  <2>2. \A r \in ToSet(h.rules) : ~EndAnchored(r) /\ (r.hold = None \/ r.hold \in Int)
    BY <1>3 DEF ToSet
  <2>3. \A i \in DOMAIN rules : ~EndAnchored(rules[i]) /\ (rules[i].hold = None \/ rules[i].hold \in Int)
    BY <2>1, <2>2 DEF ToSet
  <2> QED
    BY <2>1, <2>3, TailType
<1>9. PICK w : w = mitigation_inputs(h, t)
  OBVIOUS
<1>10. PICK v : v = mitigation_inputs(k, t)
  OBVIOUS
<1>11. /\ w.graph = h.graph /\ w.rules = rules /\ w.hazards = bearing_on(h.hazards, t, 0) /\ w.at = t
       /\ {"at", "graph", "rules", "hazards"} \subseteq DOMAIN w
       /\ v.graph = h.graph /\ v.rules = rules /\ v.hazards = bearing_on(left, t, 0) /\ v.at = t
  BY <1>5, <1>7, <1>8, <1>9, <1>10 DEF mitigation_inputs, engine_inputs
<1>12. PICK done : done = apply(w, a)
  OBVIOUS
<1> DEFINE T == {i \in DOMAIN w.hazards : <<w.hazards[i].origin, w.hazards[i].label>> # gone}
<1>13. /\ done.graph = w.graph /\ done.rules = w.rules /\ done.at = w.at
       /\ done.hazards = At(w.hazards, T)
  BY <1>1, <1>11, <1>12 DEF apply, Chosen, At
<1>14. IsSeq(w.hazards)
  BY <1>3, <1>11, Bearing
<1>15. ASSUME NEW z \in ToSet(w.hazards), <<z.origin, z.label>> # gone PROVE z \in ToSet(done.hazards)
  <2>1. PICK i \in DOMAIN w.hazards : z = w.hazards[i]
    BY DEF ToSet
  <2>2. i \in T \cap DOMAIN w.hazards
    BY <1>15, <2>1
  <2> HIDE DEF T
  <2> QED
    BY <1>13, <1>14, <2>1, <2>2, Picked
<1> HIDE DEF T
<1>16. ASSUME NEW z \in ToSet(v.hazards) PROVE z \in ToSet(done.hazards)
  <2>1. z \in ToSet(left) /\ (z.ended = None \/ t < z.ended + 0)
    BY <1>6, <1>11, <1>16, StillBearing
  <2>2. PICK i \in DOMAIN h.hazards : z = left[i]
    BY <1>4, <2>1 DEF ToSet
  <2>3. CASE <<h.hazards[i].origin, h.hazards[i].label>> = gone
    <3>1. z.ended = t
      BY <1>3, <1>4, <2>2, <2>3
    <3> QED
      BY <1>3, <2>1, <3>1
  <2>4. CASE <<h.hazards[i].origin, h.hazards[i].label>> # gone
    <3>1. z = h.hazards[i] /\ z \in ToSet(h.hazards)
      BY <1>4, <2>2, <2>4 DEF ToSet
    <3>2. z \in ToSet(w.hazards)
      BY <1>3, <1>11, <2>1, <3>1, StillBearing
    <3> QED
      BY <1>15, <2>4, <3>1, <3>2
  <2> QED
    BY <2>3, <2>4
<1>17. Permits(v, s)
  BY <1>9, <1>11, <1>12, <1>13, <1>16, FewerRules
<1> QED
  BY <1>1, <1>2, <1>10, <1>17

-----------------------------------------------------------------------------
(* A walk of a hazard: couplings of the rule's code, end to end from the   *)
(* origin and not back to it, none further along than it reaches, and no   *)
(* more than the rule's hops.                                              *)
Ends(p, i, origin) == IF i = 0 THEN origin ELSE p[i].to

IsWalk(p, graph, origin, rule) ==
  /\ p \in Seq(ToSet(graph)) /\ p # <<>> /\ Len(p) <= rule.max_hops
  /\ \A i \in 1 .. Len(p) : /\ p[i].from = Ends(p, i - 1, origin) /\ p[i].to # origin
                            /\ p[i].code = rule.via /\ i <= p[i].reach

HopsAreInts(graph, rule) == rule.max_hops \in Int /\ \A e \in ToSet(graph) : e.reach \in Int

IsHit(h, graph, origin, rule) ==
  /\ IsWalk(h.path, graph, origin, rule) /\ h.depth = Len(h.path)
  /\ h.space = h.path[Len(h.path)].to /\ h.type = h.path[Len(h.path)].type

(* The hits found when as many places were taken as n: each ends a walk,   *)
(* none is nearer than one found before it, or two hops beyond the last    *)
(* place taken, and no two are of one space and type.                      *)
Nearest(hits, n, origin) ==
  \A i \in 1 .. Len(hits) :
    /\ \A j \in 1 .. i : hits[j].depth <= hits[i].depth
    /\ n \in 1 .. Len(hits) + 1 => hits[i].depth <= Queue(origin, hits)[n].depth + 1

OnceEachHit(hits) ==
  \A i, j \in 1 .. Len(hits) : hits[i].space = hits[j].space /\ hits[i].type = hits[j].type => i = j

Good(hits, n, graph, origin, rule) ==
  /\ hits \in Seq(HitsOver(graph, rule))
  /\ \A i \in 1 .. Len(hits) : IsHit(hits[i], graph, origin, rule)
  /\ Nearest(hits, n, origin) /\ OnceEachHit(hits)

(* A place is spent on an edge when it does not lead on by it, or where it *)
(* leads is found no deeper.                                               *)
Spent(hits, place, e, origin, rule) ==
  Admits(e, place, origin, rule) =>
    \E j \in 1 .. Len(hits) : hits[j].space = e.to /\ hits[j].type = e.type /\ hits[j].depth <= place.depth + 1

AllSpent(hits, n, graph, origin, rule) ==
  \A i \in 1 .. n : i <= Len(hits) + 1 /\ Queue(origin, hits)[i].depth < rule.max_hops =>
     \A e \in ToSet(graph) : Spent(hits, Queue(origin, hits)[i], e, origin, rule)

Start(origin) == [space |-> origin, type |-> None, depth |-> 0, path |-> <<>>]

LEMMA QueueIs ==
  ASSUME NEW S, NEW hits \in Seq(S), NEW origin, NEW n \in 1 .. Len(hits) + 1
  PROVE  Queue(origin, hits)[n] = IF n = 1 THEN Start(origin) ELSE hits[n - 1]
<1>1. PICK start : start = Start(origin)
  OBVIOUS
<1>2. Queue(origin, hits) = <<start>> \o hits
  BY <1>1 DEF Queue, Start
<1> QED
  BY <1>1, <1>2

(* One more hit, beyond the place being taken.                             *)
LEMMA AnotherHit ==
  ASSUME NEW graph, NEW origin, NEW rule, HopsAreInts(graph, rule),
         NEW hits, NEW n, Good(hits, n, graph, origin, rule), n \in 1 .. Len(hits) + 1,
         NEW place, place = Queue(origin, hits)[n], place.depth < rule.max_hops,
         NEW e \in ToSet(graph), Admits(e, place, origin, rule), ~Met(hits, e),
         NEW more, more = Append(hits, Hit(place, e))
  PROVE  Good(more, n, graph, origin, rule)
<1>1. hits \in Seq(HitsOver(graph, rule)) /\ Len(hits) \in Nat
  BY DEF Good
<1>2. IsPlace(place, graph)
  BY <1>1, QueueType
<1>3. PICK h : h = Hit(place, e)
  OBVIOUS
<1>4. h \in HitsOver(graph, rule)
  BY <1>2, <1>3, HitType
<1>5. /\ more \in Seq(HitsOver(graph, rule)) /\ Len(more) = Len(hits) + 1
      /\ more[Len(hits) + 1] = h /\ \A i \in 1 .. Len(hits) : more[i] = hits[i]
  BY <1>1, <1>3, <1>4
<1>6. place = IF n = 1 THEN Start(origin) ELSE hits[n - 1]
  BY <1>1, QueueIs
<1>7. /\ place.depth = Len(place.path) /\ place.path \in Seq(ToSet(graph)) /\ place.depth \in Nat
      /\ place.space = Ends(place.path, Len(place.path), origin)
      /\ n # 1 => IsWalk(place.path, graph, origin, rule)
  <2>1. CASE n = 1
    BY <1>6, <2>1 DEF Start, Ends
  <2>2. CASE n # 1
    <3>1. n - 1 \in 1 .. Len(hits)
      BY <2>2
    <3>2. IsHit(place, graph, origin, rule)
      BY <1>6, <2>2, <3>1 DEF Good
    <3>3. place.path # <<>> /\ place.path \in Seq(ToSet(graph))
      BY <3>2 DEF IsHit, IsWalk
    <3>4. Len(place.path) # 0
      BY <3>3
    <3> QED
      BY <3>2, <3>3, <3>4 DEF IsHit, Ends
  <2> QED
    BY <2>1, <2>2
<1>8. IsHit(h, graph, origin, rule)
  <2>1. PICK q, p : q = place.path /\ p = Append(q, e)
    OBVIOUS
  <2>2. /\ p \in Seq(ToSet(graph)) /\ Len(p) = Len(q) + 1 /\ p[Len(q) + 1] = e /\ Len(q) \in Nat
        /\ \A i \in 1 .. Len(q) : p[i] = q[i]
    BY <1>7, <2>1
  <2>3. h.path = p /\ h.space = e.to /\ h.type = e.type /\ h.depth = Len(q) + 1
    BY <1>3, <1>7, <2>1 DEF Hit
  <2>4. /\ e.from = Ends(q, Len(q), origin) /\ e.to # origin /\ e.code = rule.via
        /\ Len(q) + 1 <= e.reach
    BY <1>7, <2>1 DEF Admits
  <2>5. Len(p) <= rule.max_hops
    BY <1>7, <2>1, <2>2 DEF HopsAreInts
  <2>6. Ends(p, Len(q), origin) = Ends(q, Len(q), origin)
    BY <2>2 DEF Ends
  <2>7. ASSUME NEW i \in 1 .. Len(p)
        PROVE  /\ p[i].from = Ends(p, i - 1, origin) /\ p[i].to # origin
               /\ p[i].code = rule.via /\ i <= p[i].reach
    <3>1. CASE i = Len(p)
      BY <2>2, <2>4, <2>6, <3>1
    <3>2. CASE i # Len(p)
      <4>1. i \in 1 .. Len(q) /\ n # 1
        <5>1. i \in 1 .. Len(q)
          BY <2>2, <3>2
        <5>2. n = 1 => Len(q) = 0
          BY <1>6, <2>1 DEF Start
        <5> QED
          BY <5>1, <5>2
      <4>2. /\ q[i].from = Ends(q, i - 1, origin) /\ q[i].to # origin
            /\ q[i].code = rule.via /\ i <= q[i].reach
        BY <1>7, <2>1, <4>1 DEF IsWalk
      <4>3. Ends(p, i - 1, origin) = Ends(q, i - 1, origin)
        <5>1. i # 1 => i - 1 \in 1 .. Len(q)
          BY <2>2, <4>1
        <5> QED
          BY <2>2, <5>1 DEF Ends
      <4> QED
        BY <2>2, <4>1, <4>2, <4>3
    <3> QED
      BY <3>1, <3>2
  <2>8. p # <<>>
    BY <2>2
  <2> QED
    BY <2>2, <2>3, <2>5, <2>7, <2>8 DEF IsHit, IsWalk
<1>9. ASSUME NEW i \in 1 .. Len(more) PROVE IsHit(more[i], graph, origin, rule)
  <2>1. i = Len(hits) + 1 \/ i \in 1 .. Len(hits)
    BY <1>1, <1>5
  <2> QED
    BY <1>5, <1>8, <2>1 DEF Good
<1>10. \A i \in 1 .. Len(hits) : hits[i].depth \in Nat
  BY <1>1 DEF Good, IsHit, IsWalk
<1>11. h.depth = place.depth + 1
  BY <1>3 DEF Hit
<1>12. Queue(origin, more)[n] = place
  <2>1. n \in 1 .. Len(more) + 1
    BY <1>1, <1>5
  <2>2. more \in Seq(HitsOver(graph, rule))
    BY <1>5
  <2>4. Queue(origin, more)[n] = IF n = 1 THEN Start(origin) ELSE more[n - 1]
    BY <2>1, <2>2, QueueIs
  <2>3. n # 1 => n - 1 \in 1 .. Len(hits)
    BY <1>1
  <2> QED
    BY <1>5, <1>6, <2>3, <2>4
<1>13. ASSUME NEW i \in 1 .. Len(more)
       PROVE  /\ \A j \in 1 .. i : more[j].depth <= more[i].depth
              /\ n \in 1 .. Len(more) + 1 => more[i].depth <= Queue(origin, more)[n].depth + 1
  <2>1. \A j \in 1 .. Len(hits) : hits[j].depth <= place.depth + 1
    BY DEF Good, Nearest
  <2>2. CASE i = Len(hits) + 1
    <3>1. more[i] = h /\ \A j \in 1 .. i : j = i \/ j \in 1 .. Len(hits)
      BY <1>1, <1>5, <2>2
    <3> QED
      BY <1>5, <1>7, <1>11, <1>12, <2>1, <3>1
  <2>3. CASE i # Len(hits) + 1
    BY <1>1, <1>5, <2>3, <1>12, <2>1 DEF Good, Nearest
  <2> QED
    BY <2>2, <2>3
<1>14. ASSUME NEW i \in 1 .. Len(more), NEW j \in 1 .. Len(more),
              more[i].space = more[j].space, more[i].type = more[j].type
       PROVE  i = j
  <2>1. h.space = e.to /\ h.type = e.type
    BY <1>3 DEF Hit
  <2>2. \A k \in 1 .. Len(hits) : ~(hits[k].space = h.space /\ hits[k].type = h.type)
    BY <1>1, <2>1 DEF Met
  <2>3. (i = Len(hits) + 1 \/ i \in 1 .. Len(hits)) /\ (j = Len(hits) + 1 \/ j \in 1 .. Len(hits))
    BY <1>1, <1>5
  <2>4. \A k, l \in 1 .. Len(hits) : hits[k].space = hits[l].space /\ hits[k].type = hits[l].type => k = l
    BY DEF Good, OnceEachHit
  <2> QED
    BY <1>5, <1>14, <2>2, <2>3, <2>4
<1> QED
  BY <1>5, <1>9, <1>13, <1>14 DEF Good, Nearest, OnceEachHit

(* What was spent stays spent as hits are added.                           *)
Extends(more, hits) == Len(hits) <= Len(more) /\ \A i \in 1 .. Len(hits) : more[i] = hits[i]

LEMMA StillSpent ==
  ASSUME NEW S, NEW hits \in Seq(S), NEW more \in Seq(S), Extends(more, hits),
         NEW place, NEW e, NEW origin, NEW rule, Spent(hits, place, e, origin, rule)
  PROVE  Spent(more, place, e, origin, rule)
<1>1. \A j \in 1 .. Len(hits) : j \in 1 .. Len(more) /\ more[j] = hits[j]
  BY DEF Extends
<1> QED
  BY <1>1 DEF Spent

LEMMA PlaceTaken ==
  ASSUME NEW graph, IsSeq(graph), NEW origin, NEW rule, HopsAreInts(graph, rule),
         NEW hits, NEW n \in Nat \ {0}, n <= Len(hits) + 1,
         Good(hits, n, graph, origin, rule), AllSpent(hits, n - 1, graph, origin, rule),
         NEW place, place = Queue(origin, hits)[n], place.depth < rule.max_hops,
         NEW more, more = Expanded(hits, place, graph, origin, rule)
  PROVE  Good(more, n, graph, origin, rule) /\ AllSpent(more, n, graph, origin, rule)
<1> DEFINE H == HitsOver(graph, rule)
<1>1. hits \in Seq(H) /\ Len(hits) \in Nat
  BY DEF Good
<1>2. IsPlace(place, graph)
  BY <1>1, QueueType
<1>3. PICK along \in [0 .. Len(graph) -> Seq(H)] :
        /\ along[0] = hits
        /\ \A i \in 1 .. Len(graph) :
             along[i] = IF Admits(graph[i], place, origin, rule) /\ ~Met(along[i - 1], graph[i])
                        THEN Append(along[i - 1], Hit(place, graph[i])) ELSE along[i - 1]
        /\ more = along[Len(graph)]
  BY <1>1, <1>2, ExpandRuns
<1>4. Len(graph) \in Nat /\ DOMAIN graph = 1 .. Len(graph)
      /\ \A i \in 1 .. Len(graph) : graph[i] \in ToSet(graph)
  BY DEF IsSeq, ToSet
<1> HIDE DEF H
<1> DEFINE P == {k \in 0 .. Len(graph) :
                   /\ Good(along[k], n, graph, origin, rule) /\ Extends(along[k], hits)
                   /\ \A i \in 1 .. k : Spent(along[k], place, graph[i], origin, rule)}
<1>5. 0 \in P
  <2>1. Extends(hits, hits)
    BY <1>1 DEF Extends
  <2> QED
    BY <1>3, <1>4, <2>1
<1>6. ASSUME NEW k \in 1 .. Len(graph), k - 1 \in P PROVE k \in P
  <2>1. PICK a, b, e : a = along[k - 1] /\ b = along[k] /\ e = graph[k]
    OBVIOUS
  <2>2. a \in Seq(H) /\ b \in Seq(H) /\ e \in ToSet(graph) /\ Len(a) \in Nat /\ k \in 0 .. Len(graph)
    BY <1>3, <1>4, <2>1
  <2>3. /\ Good(a, n, graph, origin, rule) /\ Extends(a, hits)
        /\ \A i \in 1 .. k - 1 : Spent(a, place, graph[i], origin, rule)
    BY <1>6, <2>1
  <2>4. Queue(origin, a)[n] = place /\ n \in 1 .. Len(a) + 1
    BY <1>1, <2>2, <2>3, QueueIs DEF Extends
  <2>5. CASE Admits(e, place, origin, rule) /\ ~Met(a, e)
    <3>1. b = Append(a, Hit(place, e))
      BY <1>3, <2>1, <2>5
    <3>2. Good(b, n, graph, origin, rule)
      BY <2>2, <2>3, <2>4, <2>5, <3>1, AnotherHit
    <3>3. Len(b) = Len(a) + 1 /\ b[Len(a) + 1] = Hit(place, e) /\ \A i \in 1 .. Len(a) : b[i] = a[i]
      BY <2>2, <3>1
    <3>4. Extends(b, a) /\ Extends(b, hits)
      BY <1>1, <2>2, <2>3, <3>3 DEF Extends
    <3>5. \A i \in 1 .. k - 1 : Spent(b, place, graph[i], origin, rule)
      BY <2>2, <2>3, <3>4, StillSpent
    <3>6. Spent(b, place, e, origin, rule)
      <4>1. /\ Len(a) + 1 \in 1 .. Len(b) /\ b[Len(a) + 1].space = e.to
            /\ b[Len(a) + 1].type = e.type /\ b[Len(a) + 1].depth = place.depth + 1
        BY <2>2, <3>3 DEF Hit
      <4>2. place.depth + 1 <= place.depth + 1
        BY <1>2 DEF IsPlace
      <4> QED
        BY <4>1, <4>2 DEF Spent
    <3>7. \A i \in 1 .. k : i = k \/ i \in 1 .. k - 1
      BY <1>4
    <3> QED
      BY <2>1, <2>2, <3>2, <3>4, <3>5, <3>6, <3>7
  <2>6. CASE ~(Admits(e, place, origin, rule) /\ ~Met(a, e))
    <3>1. b = a
      BY <1>3, <2>1, <2>6
    <3>2. Spent(a, place, e, origin, rule)
      <4>1. SUFFICES ASSUME Met(a, e)
                     PROVE  \E j \in 1 .. Len(a) : /\ a[j].space = e.to /\ a[j].type = e.type
                                                   /\ a[j].depth <= place.depth + 1
        BY <2>6 DEF Spent
      <4>0. DOMAIN a = 1 .. Len(a)
        BY <2>2
      <4>2. PICK j \in 1 .. Len(a) : a[j].space = e.to /\ a[j].type = e.type
        BY <4>0, <4>1 DEF Met
      <4>3. a[j].depth <= place.depth + 1
        BY <2>3, <2>4 DEF Good, Nearest
      <4> QED
        BY <4>2, <4>3
    <3>3. \A i \in 1 .. k : i = k \/ i \in 1 .. k - 1
      BY <1>4
    <3> QED
      BY <2>1, <2>2, <2>3, <3>1, <3>2, <3>3
  <2> QED
    BY <2>5, <2>6
<1>7. Len(graph) \in P
  <2> HIDE DEF P
  <2>1. Len(graph) \in 0 .. Len(graph)
    BY <1>4
  <2> QED
    BY <1>4, <1>5, <1>6, <2>1, Climb
<1>8. /\ Good(more, n, graph, origin, rule) /\ Extends(more, hits) /\ more \in Seq(H)
      /\ \A e \in ToSet(graph) : Spent(more, place, e, origin, rule)
  BY <1>3, <1>4, <1>7 DEF ToSet
<1> HIDE DEF P
<1>9. ASSUME NEW i \in 1 .. n, i <= Len(more) + 1, Queue(origin, more)[i].depth < rule.max_hops,
             NEW e \in ToSet(graph)
      PROVE  Spent(more, Queue(origin, more)[i], e, origin, rule)
  <2>1. Queue(origin, more)[i] = Queue(origin, hits)[i] /\ i \in 1 .. Len(hits) + 1
    <3>1. i \in 1 .. Len(hits) + 1 /\ i \in 1 .. Len(more) + 1 /\ (i # 1 => i - 1 \in 1 .. Len(hits))
      BY <1>1, <1>8 DEF Extends
    <3>2. Queue(origin, hits)[i] = IF i = 1 THEN Start(origin) ELSE hits[i - 1]
      BY <1>1, <3>1, QueueIs
    <3>3. Queue(origin, more)[i] = IF i = 1 THEN Start(origin) ELSE more[i - 1]
      BY <1>8, <3>1, QueueIs
    <3> QED
      BY <1>8, <3>1, <3>2, <3>3 DEF Extends
  <2>2. CASE i = n
    BY <1>8, <2>1, <2>2
  <2>3. CASE i # n
    BY <2>1, <2>3, <1>9, <1>1, <1>8, StillSpent DEF AllSpent
  <2> QED
    BY <2>2, <2>3
<1> QED
  BY <1>8, <1>9 DEF AllSpent

LEMMA TurnKeeps ==
  ASSUME NEW graph, IsSeq(graph), NEW origin, NEW rule, HopsAreInts(graph, rule),
         NEW hits, NEW n \in Nat \ {0}, n = 1 => hits = <<>>,
         Good(hits, n - 1, graph, origin, rule), AllSpent(hits, n - 1, graph, origin, rule),
         NEW more, more = Turned(hits, n, graph, origin, rule)
  PROVE  Good(more, n, graph, origin, rule) /\ AllSpent(more, n, graph, origin, rule)
<1>1. hits \in Seq(HitsOver(graph, rule)) /\ Len(hits) \in Nat
  BY DEF Good
<1>2. \A i \in 1 .. Len(hits) : hits[i].depth \in Nat
  BY <1>1 DEF Good, IsHit, IsWalk
<1>3. ASSUME NEW i \in 1 .. Len(hits), n \in 1 .. Len(hits) + 1
      PROVE  hits[i].depth <= Queue(origin, hits)[n].depth + 1
  <2>1. n # 1 /\ n - 1 \in 1 .. Len(hits) /\ n - 1 \in 1 .. Len(hits) + 1
    BY <1>1, <1>3
  <2>2. hits[i].depth <= Queue(origin, hits)[n - 1].depth + 1
    BY <1>3, <2>1 DEF Good, Nearest
  <2>3. Queue(origin, hits)[n] = hits[n - 1]
    BY <1>1, <1>3, <2>1, QueueIs
  <2>4. CASE n = 2
    <3>1. Queue(origin, hits)[n - 1] = Start(origin)
      BY <1>1, <2>1, <2>4, QueueIs
    <3>2. hits[n - 1].depth \in Nat /\ Start(origin).depth = 0
      BY <1>2, <2>1 DEF Start
    <3> QED
      BY <1>2, <2>2, <2>3, <3>1, <3>2
  <2>5. CASE n # 2
    <3>1. n - 2 \in 1 .. Len(hits) /\ n - 2 \in 1 .. n - 1 /\ (n - 1) - 1 = n - 2 /\ n - 1 # 1
      BY <1>3, <2>1, <2>5
    <3>2. Queue(origin, hits)[n - 1] = hits[n - 2]
      BY <1>1, <2>1, <3>1, QueueIs
    <3>3. hits[n - 2].depth <= hits[n - 1].depth
      BY <2>1, <3>1 DEF Good, Nearest
    <3> QED
      BY <1>2, <2>1, <2>2, <2>3, <3>1, <3>2, <3>3
  <2> QED
    BY <2>4, <2>5
<1>4. Good(hits, n, graph, origin, rule)
  BY <1>3 DEF Good, Nearest
<1>5. CASE n <= Len(hits) + 1 /\ Queue(origin, hits)[n].depth < rule.max_hops
  BY <1>5, <1>4, PlaceTaken DEF Turned
<1>6. CASE ~(n <= Len(hits) + 1 /\ Queue(origin, hits)[n].depth < rule.max_hops)
  BY <1>6, <1>4 DEF Turned, AllSpent
<1> QED
  BY <1>5, <1>6

(* No more places are found than there are couplings.                      *)
LEMMA NoMoreThanCouplings ==
  ASSUME NEW graph, IsSeq(graph), NEW hits, IsSeq(hits), OnceEachHit(hits),
         \A i \in 1 .. Len(hits) : \E e \in ToSet(graph) : hits[i].space = e.to /\ hits[i].type = e.type
  PROVE  Len(hits) <= Len(graph)
<1>1. Len(graph) \in Nat /\ Len(hits) \in Nat /\ DOMAIN graph = 1 .. Len(graph)
  BY DEF IsSeq
<1>2. \A i \in 1 .. Len(hits) : \E k \in 1 .. Len(graph) : hits[i].space = graph[k].to /\ hits[i].type = graph[k].type
  BY <1>1 DEF ToSet
<1>3. PICK f : f = [i \in 1 .. Len(hits) |->
                      CHOOSE k \in 1 .. Len(graph) : hits[i].space = graph[k].to /\ hits[i].type = graph[k].type]
  OBVIOUS
<1>4. /\ f \in [1 .. Len(hits) -> 1 .. Len(graph)]
      /\ \A i \in 1 .. Len(hits) : hits[i].space = graph[f[i]].to /\ hits[i].type = graph[f[i]].type
  BY <1>2, <1>3
<1>5. \A i, j \in 1 .. Len(hits) : f[i] = f[j] => i = j
  BY <1>4 DEF OnceEachHit
<1>6. /\ IsFiniteSet(1 .. Len(hits)) /\ IsFiniteSet(1 .. Len(graph))
      /\ Cardinality(1 .. Len(hits)) = Len(hits) /\ Cardinality(1 .. Len(graph)) = Len(graph)
  <2>1. ASSUME NEW n \in Nat PROVE IsFiniteSet(1 .. n) /\ Cardinality(1 .. n) = n
    <3>1. Cardinality(1 .. n) = IF 1 > n THEN 0 ELSE n - 1 + 1
      BY FS_Interval
    <3>2. IsFiniteSet(1 .. n)
      BY FS_Interval
    <3> QED
      BY <3>1, <3>2
  <2> QED
    BY <1>1, <2>1
<1>7. SUFFICES ASSUME Len(graph) < Len(hits) PROVE FALSE
  BY <1>1
<1>8. Cardinality(1 .. Len(graph)) < Cardinality(1 .. Len(hits))
  BY <1>6, <1>7
<1>9. \E i, j \in 1 .. Len(hits) : i # j /\ f[i] = f[j]
  <2>1. PICK S, T : S = 1 .. Len(hits) /\ T = 1 .. Len(graph)
    OBVIOUS
  <2>2. IsFiniteSet(S) /\ IsFiniteSet(T) /\ Cardinality(T) < Cardinality(S) /\ f \in [S -> T]
    BY <1>4, <1>6, <1>8, <2>1
  <2>3. \E i, j \in S : i # j /\ f[i] = f[j]
    BY ONLY <2>2, FS_PigeonHole
  <2> QED
    BY <2>1, <2>3
<1> QED
  BY <1>5, <1>9

(* What the cascade returns: hits each of a walk, each space and type      *)
(* once, and every place that leads on spent.                              *)
LEMMA CascadeIs ==
  ASSUME NEW graph, IsSeq(graph), NEW origin, NEW rule, HopsAreInts(graph, rule),
         NEW hits, hits = cascade_from(graph, origin, rule)
  PROVE  /\ hits \in Seq(HitsOver(graph, rule))
         /\ \A i \in 1 .. Len(hits) : IsHit(hits[i], graph, origin, rule)
         /\ AllSpent(hits, Len(hits) + 1, graph, origin, rule)
<1>1. Len(graph) \in Nat
  BY DEF IsSeq
<1>2. PICK found \in [0 .. Len(graph) + 1 -> Seq(HitsOver(graph, rule))] :
        /\ found[0] = <<>>
        /\ \A n \in 1 .. Len(graph) + 1 : found[n] = Turned(found[n - 1], n, graph, origin, rule)
        /\ hits = found[Len(graph) + 1]
  BY CascadeRuns
<1> DEFINE P == {n \in 0 .. Len(graph) + 1 :
                   Good(found[n], n, graph, origin, rule) /\ AllSpent(found[n], n, graph, origin, rule)}
<1>3. 0 \in P
  <2>1. Good(<<>>, 0, graph, origin, rule)
    BY DEF Good, Nearest, OnceEachHit
  <2>2. AllSpent(<<>>, 0, graph, origin, rule)
    BY DEF AllSpent
  <2> QED
    BY <1>1, <1>2, <2>1, <2>2
<1>4. ASSUME NEW n \in 1 .. Len(graph) + 1, n - 1 \in P PROVE n \in P
  BY <1>2, <1>4, TurnKeeps, <1>1
<1>5. Len(graph) + 1 \in P
  <2> HIDE DEF P
  <2>1. Len(graph) + 1 \in Nat /\ Len(graph) + 1 \in 0 .. Len(graph) + 1
    BY <1>1
  <2> QED
    BY <1>3, <1>4, <2>1, Climb
<1>6. /\ hits \in Seq(HitsOver(graph, rule)) /\ OnceEachHit(hits)
      /\ \A i \in 1 .. Len(hits) : IsHit(hits[i], graph, origin, rule)
      /\ AllSpent(hits, Len(graph) + 1, graph, origin, rule)
  BY <1>2, <1>5 DEF Good
<1>7. Len(hits) <= Len(graph) /\ Len(hits) \in Nat
  <2>1. IsSeq(hits)
    BY <1>6 DEF IsSeq, ToSet
  <2>2. ASSUME NEW i \in 1 .. Len(hits)
        PROVE  \E e \in ToSet(graph) : hits[i].space = e.to /\ hits[i].type = e.type
    <3>1. PICK p : p = hits[i].path
      OBVIOUS
    <3>2. p \in Seq(ToSet(graph)) /\ p # <<>> /\ hits[i].space = p[Len(p)].to /\ hits[i].type = p[Len(p)].type
      BY <1>6, <3>1 DEF IsHit, IsWalk
    <3>3. Len(p) \in 1 .. Len(p)
      BY <3>2
    <3>4. p[Len(p)] \in ToSet(graph)
      BY <3>2, <3>3
    <3> QED
      BY <3>2, <3>4
  <2> QED
    BY <1>6, <2>1, <2>2, NoMoreThanCouplings
<1> QED
  BY <1>1, <1>6, <1>7 DEF AllSpent

(* Every walk ends at a hit.                                               *)
LEMMA WalksAreFound ==
  ASSUME NEW graph, IsSeq(graph), NEW origin, NEW rule, HopsAreInts(graph, rule),
         NEW hits, hits = cascade_from(graph, origin, rule),
         NEW p, IsWalk(p, graph, origin, rule)
  PROVE  \E i \in 1 .. Len(hits) : hits[i].space = p[Len(p)].to
<1>1. /\ hits \in Seq(HitsOver(graph, rule)) /\ Len(hits) \in Nat
      /\ \A i \in 1 .. Len(hits) : hits[i].depth \in Nat
      /\ AllSpent(hits, Len(hits) + 1, graph, origin, rule)
  <2>1. /\ hits \in Seq(HitsOver(graph, rule)) /\ AllSpent(hits, Len(hits) + 1, graph, origin, rule)
        /\ \A i \in 1 .. Len(hits) : IsHit(hits[i], graph, origin, rule)
    BY CascadeIs
  <2> QED
    BY <2>1 DEF IsHit, IsWalk
<1>2. Len(p) \in Nat \ {0} /\ \A k \in 1 .. Len(p) : p[k] \in ToSet(graph)
  BY DEF IsWalk
<1>3. rule.max_hops \in Int /\ \A e \in ToSet(graph) : e.reach \in Int
  BY DEF HopsAreInts
<1> DEFINE P == {k \in 0 .. Len(p) :
                   k = 0 \/ \E i \in 1 .. Len(hits) : hits[i].space = p[k].to /\ hits[i].depth <= k}
<1>4. 0 \in P
  BY <1>2
<1>5. ASSUME NEW k \in 1 .. Len(p), k - 1 \in P PROVE k \in P
  <2>1. /\ p[k].from = Ends(p, k - 1, origin) /\ p[k].to # origin
        /\ p[k].code = rule.via /\ k <= p[k].reach /\ Len(p) <= rule.max_hops
    BY DEF IsWalk
  <2>2. PICK n \in 1 .. Len(hits) + 1 : /\ Queue(origin, hits)[n].space = Ends(p, k - 1, origin)
                                        /\ Queue(origin, hits)[n].depth <= k - 1
                                        /\ Queue(origin, hits)[n].depth \in Nat
    <3>1. CASE k = 1
      <4>1. 1 \in 1 .. Len(hits) + 1
        BY <1>1
      <4>2. Queue(origin, hits)[1] = Start(origin)
        BY <1>1, <4>1, QueueIs
      <4> QED
        BY <3>1, <4>1, <4>2 DEF Start, Ends
    <3>2. CASE k # 1
      <4>1. PICK i \in 1 .. Len(hits) : hits[i].space = p[k - 1].to /\ hits[i].depth <= k - 1
        BY <1>5, <3>2
      <4>2. i + 1 \in 1 .. Len(hits) + 1 /\ i + 1 # 1 /\ (i + 1) - 1 = i
        BY <1>1
      <4>3. Queue(origin, hits)[i + 1] = hits[i]
        BY <1>1, <4>2, QueueIs
      <4>4. Ends(p, k - 1, origin) = p[k - 1].to
        BY <3>2 DEF Ends
      <4> QED
        BY <1>1, <4>1, <4>2, <4>3, <4>4
    <3> QED
      BY <3>1, <3>2
  <2>3. PICK place : place = Queue(origin, hits)[n]
    OBVIOUS
  <2>4. place.depth < rule.max_hops
    BY <1>2, <1>3, <2>1, <2>2, <2>3
  <2>5. Admits(p[k], place, origin, rule)
    <3>1. p[k].reach \in Int
      BY <1>2, <1>3
    <3> QED
      BY <2>1, <2>2, <2>3, <3>1 DEF Admits
  <2>6. Spent(hits, place, p[k], origin, rule)
    BY <1>1, <1>2, <2>2, <2>3, <2>4 DEF AllSpent
  <2>7. PICK j \in 1 .. Len(hits) : hits[j].space = p[k].to /\ hits[j].depth <= place.depth + 1
    BY <2>5, <2>6 DEF Spent
  <2>8. hits[j].depth <= k
    BY <1>1, <2>2, <2>3, <2>7
  <2> QED
    BY <2>7, <2>8
<1>6. Len(p) \in P
  <2> HIDE DEF P
  <2>1. Len(p) \in 0 .. Len(p)
    BY <1>2
  <2> QED
    BY <1>2, <1>4, <1>5, <2>1, Climb
<1> QED
  BY <1>2, <1>6

(* A hazard comes to a space under a rule just when it lies in it, or a    *)
(* walk of the rule's leads there.                                         *)
Comes(graph, h, rule, s) ==
  IF rule.via = None THEN h.origin = s
  ELSE \E p : IsWalk(p, graph, h.origin, rule) /\ p[Len(p)].to = s

LEMMA PathsExact ==
  ASSUME NEW w, IsSeq(w.graph), NEW h, NEW rule, HopsAreInts(w.graph, rule), NEW s
  PROVE  PathsTo(w, h, rule, s) # <<>> <=> Comes(w.graph, h, rule, s)
<1>1. \A x : << x >> # <<>> /\ IsSeq(<<x>>) /\ x \in ToSet(<<x>>)
  <2>1. \A x : DOMAIN <<x>> = 1 .. 1 /\ <<x>>[1] = x /\ <<x>> \in Seq({x})
    OBVIOUS
  <2> QED
    BY <2>1 DEF IsSeq, ToSet
<1>2. CASE rule.via = None
  BY <1>1, <1>2 DEF PathsTo, Comes
<1>3. CASE rule.via # None
  <2>1. PICK hits : hits = cascade_from(w.graph, h.origin, rule)
    OBVIOUS
  <2>2. /\ hits \in Seq(HitsOver(w.graph, rule)) /\ DOMAIN hits = 1 .. Len(hits)
        /\ \A i \in 1 .. Len(hits) : IsHit(hits[i], w.graph, h.origin, rule)
    BY <2>1, CascadeIs
  <2>3. ASSUME PathsTo(w, h, rule, s) # <<>> PROVE Comes(w.graph, h, rule, s)
    <3>1. PICK i \in DOMAIN hits : hits[i].space = s
      BY <1>3, <2>1, <2>3, PathsType
    <3>2. IsHit(hits[i], w.graph, h.origin, rule)
      BY <2>2
    <3> QED
      BY <1>3, <3>1, <3>2 DEF IsHit, Comes
  <2>4. ASSUME Comes(w.graph, h, rule, s) PROVE PathsTo(w, h, rule, s) # <<>>
    <3>1. PICK p : IsWalk(p, w.graph, h.origin, rule) /\ p[Len(p)].to = s
      BY <1>3, <2>4 DEF Comes
    <3>2. PICK i \in 1 .. Len(hits) : hits[i].space = s
      BY <2>1, <3>1, WalksAreFound
    <3> DEFINE ss == [k \in DOMAIN hits |-> IF hits[k].space = s THEN <<hits[k].path>> ELSE <<>>]
    <3>3. PathsTo(w, h, rule, s) = FlattenSeq(ss)
      BY <1>3, <2>1 DEF PathsTo
    <3>4. IsSeq(hits)
      BY <2>2 DEF IsSeq, ToSet
    <3>5. IsSeq(ss) /\ DOMAIN ss = DOMAIN hits /\ i \in DOMAIN ss
      BY <2>2, <3>4, OverPlaces
    <3>6. \A k \in DOMAIN ss : IsSeq(ss[k])
      <4>1. IsSeq(<<>>)
        BY DEF IsSeq, ToSet
      <4> QED
        BY <1>1, <4>1
    <3>7. hits[i].path \in ToSet(ss[i])
      BY <1>1, <2>2, <3>2
    <3> HIDE DEF ss
    <3>8. IsSeq(FlattenSeq(ss)) /\ ToSet(FlattenSeq(ss)) = UNION {ToSet(ss[k]) : k \in DOMAIN ss}
      BY <3>5, <3>6, Flat
    <3>9. ToSet(FlattenSeq(ss)) # {}
      BY <3>5, <3>7, <3>8
    <3> QED
      BY <3>3, <3>8, <3>9, Empty
  <2> QED
    BY <2>3, <2>4
<1> QED
  BY <1>2, <1>3

-----------------------------------------------------------------------------
(* What is seen within so many hops of the seeds.                          *)
IsSeen(f, hops, graph, seeds) ==
  f = [n \in 0 .. hops |->
         IF n = 0 THEN seeds ELSE f[n - 1] \cup {e.to : e \in {x \in ToSet(graph) : x.from \in f[n - 1]}}]

LEMMA FurthestReach ==
  ASSUME NEW graph, IsSeq(graph), \A e \in ToSet(graph) : e.reach \in Nat,
         NEW hops, hops = Max({0} \cup {graph[i].reach : i \in DOMAIN graph})
  PROVE  hops \in Nat /\ \A e \in ToSet(graph) : e.reach <= hops
<1>1. PICK R : R = {graph[i].reach : i \in DOMAIN graph}
  OBVIOUS
<1>2. R \subseteq Nat /\ \A e \in ToSet(graph) : e.reach \in R
  BY <1>1 DEF ToSet
<1>3. IsFiniteSet(R)
  <2>1. PICK f : f = [i \in DOMAIN graph |-> graph[i].reach]
    OBVIOUS
  <2>2. DOMAIN f = DOMAIN graph /\ R = {f[i] : i \in DOMAIN f}
    BY <1>1, <2>1
  <2>3. IsFiniteSet(DOMAIN graph)
    BY Places, FS_Interval
  <2> QED
    BY <2>2, <2>3, FiniteImage
<1>4. PICK T : T = {0} \cup R
  OBVIOUS
<1>5. IsFiniteSet(T) /\ T \subseteq Int /\ T # {}
  <2>1. IsFiniteSet({0} \cup R)
    BY <1>3, FS_AddElement
  <2>2. \A x \in T : x \in Int
    BY <1>2, <1>4
  <2> QED
    BY <1>4, <2>1, <2>2
<1>6. Max(T) \in T /\ \A x \in T : x <= Max(T)
  BY <1>5, Greatest
<1> QED
  BY <1>1, <1>2, <1>4, <1>6

Sees(seen, hops, graph, seeds) ==
  /\ \A e \in ToSet(graph) : e.reach <= hops
  /\ seen[0] = seeds
  /\ \A n \in 1 .. hops : seen[n] = seen[n - 1] \cup {e.to : e \in {x \in ToSet(graph) : x.from \in seen[n - 1]}}
  /\ reach(graph, seeds) = seen[hops]

LEMMA SeenRuns ==
  ASSUME NEW graph, IsSeq(graph), \A e \in ToSet(graph) : e.reach \in Nat, NEW seeds
  PROVE  \E hops \in Nat : \E seen : Sees(seen, hops, graph, seeds)
<1>1. PICK hops : hops = Max({0} \cup {graph[i].reach : i \in DOMAIN graph})
  OBVIOUS
<1>2. hops \in Nat /\ \A e \in ToSet(graph) : e.reach <= hops
  BY <1>1, FurthestReach
<1> DEFINE V == SUBSET (seeds \cup {e.to : e \in ToSet(graph)})
           More(S) == S \cup {e.to : e \in {x \in ToSet(graph) : x.from \in S}}
<1>3. \A S \in V : More(S) \in V
  OBVIOUS
<1>4. \E f : IsSeen(f, hops, graph, seeds)
  <2>1. PICK F : F = [x \in V \X (1 .. hops) |-> More(x[1])]
    OBVIOUS
  <2>2. F \in [V \X (1 .. hops) -> V]
    <3> HIDE DEF V, More
    <3> QED
      BY <1>3, <2>1
  <2>3. seeds \in V
    OBVIOUS
  <2> HIDE DEF V
  <2>4. PICK g \in [0 .. hops -> V] : g[0] = seeds /\ \A n \in 1 .. hops : g[n] = F[<<g[n - 1], n>>]
    <3>1. Runs(hops, V, seeds, F) # {}
      BY <1>2, <2>2, <2>3, Computed
    <3> QED
      BY <3>1 DEF Runs
  <2>5. ASSUME NEW n \in 1 .. hops PROVE g[n] = More(g[n - 1])
    <3> HIDE DEF More
    <3>1. g[n - 1] \in V
      BY <1>2, <2>4
    <3>2. PICK x : x = <<g[n - 1], n>>
      OBVIOUS
    <3>3. x \in V \X (1 .. hops) /\ x[1] = g[n - 1]
      BY <3>1, <3>2
    <3> QED
      BY <2>1, <2>4, <3>2, <3>3
  <2>6. PICK k : k = [n \in 0 .. hops |->
                        IF n = 0 THEN seeds
                        ELSE g[n - 1] \cup {e.to : e \in {x \in ToSet(graph) : x.from \in g[n - 1]}}]
    OBVIOUS
  <2>7. ASSUME NEW n \in 0 .. hops PROVE g[n] = k[n]
    <3>1. k[n] = IF n = 0 THEN seeds ELSE More(g[n - 1])
      BY <2>6
    <3>2. n = 0 \/ n \in 1 .. hops
      BY <1>2
    <3> HIDE DEF More
    <3> QED
      BY <2>4, <2>5, <3>1, <3>2
  <2>8. g = k
    <3>1. DOMAIN k = 0 .. hops /\ DOMAIN g = 0 .. hops /\ k = [n \in 0 .. hops |-> k[n]]
      BY <2>4, <2>6
    <3> QED
      BY <2>4, <2>7, <3>1
  <2> QED
    BY <2>6, <2>8 DEF IsSeen
<1>5. PICK seen : seen = CHOOSE f : IsSeen(f, hops, graph, seeds)
  OBVIOUS
<1>6. IsSeen(seen, hops, graph, seeds)
  BY <1>4, <1>5
<1>7. seen[0] = seeds /\ \A n \in 1 .. hops : seen[n] = More(seen[n - 1])
  <2>1. PICK k : k = [n \in 0 .. hops |->
                        IF n = 0 THEN seeds
                        ELSE seen[n - 1] \cup {e.to : e \in {x \in ToSet(graph) : x.from \in seen[n - 1]}}]
    OBVIOUS
  <2>2. seen = k
    BY <1>6, <2>1 DEF IsSeen
  <2>3. 0 \in 0 .. hops /\ \A n \in 1 .. hops : n \in 0 .. hops /\ n # 0
    BY <1>2
  <2>4. k[0] = seeds
    BY <2>1, <2>3
  <2>5. ASSUME NEW n \in 1 .. hops PROVE k[n] = More(seen[n - 1])
    BY <2>1, <2>3
  <2> HIDE DEF More
  <2> QED
    BY <2>2, <2>4, <2>5
<1>8. reach(graph, seeds) = seen[hops]
  BY <1>1, <1>5 DEF reach, IsSeen
<1>9. Sees(seen, hops, graph, seeds)
  BY <1>2, <1>7, <1>8 DEF Sees
<1> QED
  BY <1>2, <1>9

(* A walk that passes a seed ends within reach of it.                      *)
LEMMA WalkStays ==
  ASSUME NEW graph, IsSeq(graph), \A e \in ToSet(graph) : e.reach \in Nat,
         NEW origin, NEW rule, NEW p, IsWalk(p, graph, origin, rule), NEW seeds,
         NEW k \in 0 .. Len(p), Ends(p, k, origin) \in seeds
  PROVE  Ends(p, Len(p), origin) \in reach(graph, seeds)
<1>0. PICK hops \in Nat : \E s : Sees(s, hops, graph, seeds)
  BY SeenRuns
<1>1. PICK seen :
        /\ \A e \in ToSet(graph) : e.reach <= hops
        /\ seen[0] = seeds
        /\ \A n \in 1 .. hops : seen[n] = seen[n - 1] \cup {e.to : e \in {x \in ToSet(graph) : x.from \in seen[n - 1]}}
        /\ reach(graph, seeds) = seen[hops]
  BY <1>0 DEF Sees
<1>2. Len(p) \in Nat \ {0} /\ \A i \in 1 .. Len(p) : p[i] \in ToSet(graph)
  BY DEF IsWalk
<1>3. Len(p) <= hops
  BY <1>2, <1>1 DEF IsWalk
<1> DEFINE P == {n \in 0 .. hops : k + n <= Len(p) => Ends(p, k + n, origin) \in seen[n]}
           Q == {n \in 0 .. hops : n < Len(p) - k \/ Ends(p, Len(p), origin) \in seen[n]}
<1>4. 0 \in P
  BY <1>1, <1>2
<1>5. ASSUME NEW n \in 1 .. hops, n - 1 \in P PROVE n \in P
  BY <1>2, <1>5, <1>1 DEF IsWalk, Ends
<1>6. \A n \in 0 .. hops : n \in P
  <2> HIDE DEF P
  <2> QED
    BY <1>4, <1>5, Climb
<1>7. 0 \in Q
  <2>1. 0 < Len(p) - k \/ k = Len(p)
    BY <1>2
  <2>2. 0 \in 0 .. hops
    OBVIOUS
  <2> QED
    BY <1>1, <2>1, <2>2
<1>8. ASSUME NEW n \in 1 .. hops, n - 1 \in Q PROVE n \in Q
  <2>1. CASE Ends(p, Len(p), origin) \in seen[n - 1]
    BY <1>1, <2>1
  <2>2. CASE n = Len(p) - k
    <3>1. k + n = Len(p) /\ n \in 0 .. hops
      BY <1>2, <2>2
    <3>2. Ends(p, k + n, origin) \in seen[n]
      BY <1>2, <1>6, <3>1
    <3> QED
      BY <3>1, <3>2
  <2>3. CASE n # Len(p) - k /\ n - 1 < Len(p) - k
    BY <1>2, <2>3
  <2> QED
    BY <1>8, <2>1, <2>2, <2>3
<1>9. hops \in Q
  <2> HIDE DEF Q
  <2>1. \A n \in 0 .. hops : n \in Q
    BY <1>7, <1>8, Climb
  <2> QED
    BY <2>1
<1> QED
  BY <1>1, <1>2, <1>3, <1>9

LEMMA SeedsAreSeen ==
  ASSUME NEW graph, IsSeq(graph), \A e \in ToSet(graph) : e.reach \in Nat, NEW seeds
  PROVE  seeds \subseteq reach(graph, seeds)
<1>0. PICK hops \in Nat : \E s : Sees(s, hops, graph, seeds)
  BY SeenRuns
<1>1. PICK seen :
        /\ seen[0] = seeds
        /\ \A n \in 1 .. hops : seen[n] = seen[n - 1] \cup {e.to : e \in {x \in ToSet(graph) : x.from \in seen[n - 1]}}
        /\ reach(graph, seeds) = seen[hops]
  BY <1>0 DEF Sees
<1> DEFINE P == {n \in 0 .. hops : seeds \subseteq seen[n]}
<1>2. 0 \in P
  BY <1>1
<1>3. ASSUME NEW n \in 1 .. hops, n - 1 \in P PROVE n \in P
  BY <1>1, <1>3
<1>4. hops \in P
  <2> HIDE DEF P
  <2> QED
    BY <1>2, <1>3, Climb
<1> QED
  BY <1>1, <1>4

(* A hazard says nothing of a space out of reach of where it lies.         *)
LEMMA OutOfReach ==
  ASSUME NEW w, IsSeq(w.graph), HasHops(w), NEW h, NEW rule \in ToSet(w.rules), NEW s,
         NEW seeds, h.origin \in seeds, s \notin reach(w.graph, seeds)
  PROVE  Lines(w, h, rule, s) = <<>>
<1>1. HopsAreInts(w.graph, rule) /\ \A e \in ToSet(w.graph) : e.reach \in Nat
  BY DEF HasHops, HopsAreInts
<1>2. SUFFICES ASSUME Comes(w.graph, h, rule, s) PROVE FALSE
  BY <1>1, LinesType, PathsExact
<1>3. CASE rule.via = None
  BY <1>1, <1>2, <1>3, SeedsAreSeen DEF Comes
<1>4. CASE rule.via # None
  <2>1. PICK p : IsWalk(p, w.graph, h.origin, rule) /\ p[Len(p)].to = s
    BY <1>2, <1>4 DEF Comes
  <2>2. Len(p) \in Nat \ {0}
    BY <2>1 DEF IsWalk
  <2>3. 0 \in 0 .. Len(p) /\ Ends(p, 0, h.origin) = h.origin /\ Ends(p, Len(p), h.origin) = s
    BY <2>1, <2>2 DEF Ends
  <2> QED
    BY <1>1, <2>1, <2>3, WalkStays
<1> QED
  BY <1>3, <1>4

-----------------------------------------------------------------------------
(* A world to be read with hops; an action; what it does to the world.     *)
IsAction(a) == a.kind \in {"wait", "discharge", "interrupt"}

LEMMA AppliedIs ==
  ASSUME NEW w, IsReading(w), NEW a, IsAction(a), NEW v, v = apply(w, a)
  PROVE  /\ v.rules = w.rules
         /\ a.kind = "wait" => v.graph = w.graph /\ v.hazards = w.hazards /\ v.at = a.until
         /\ a.kind = "discharge" =>
              /\ v.graph = w.graph /\ v.at = w.at
              /\ IsSeq(v.hazards)
              /\ \A h : h \in ToSet(v.hazards) <=>
                          h \in ToSet(w.hazards) /\ <<h.origin, h.label>> # <<a.origin, a.hazard>>
         /\ a.kind = "interrupt" =>
              /\ v.hazards = w.hazards /\ v.at = w.at
              /\ IsSeq(v.graph)
              /\ \A e : e \in ToSet(v.graph) <=>
                          e \in ToSet(w.graph) /\ <<e.code, {e.from, e.to}>> # <<a.coupling, {a.from, a.to}>>
<1>1. {"at", "graph", "rules", "hazards"} \subseteq DOMAIN w /\ IsSeq(w.hazards) /\ IsSeq(w.graph)
  BY DEF IsReading, IsWorld
<1>2. CASE a.kind = "wait"
  BY <1>2, <1>1 DEF apply
<1>3. CASE a.kind = "discharge"
  <2> DEFINE T == {i \in DOMAIN w.hazards : <<w.hazards[i].origin, w.hazards[i].label>> # <<a.origin, a.hazard>>}
  <2>1. v = [w EXCEPT !.hazards = At(w.hazards, T)]
    BY <1>3 DEF apply, Chosen, At
  <2>2. /\ IsSeq(At(w.hazards, T))
        /\ \A x \in ToSet(At(w.hazards, T)) : \E i \in T \cap DOMAIN w.hazards : x = w.hazards[i]
        /\ \A i \in T \cap DOMAIN w.hazards : w.hazards[i] \in ToSet(At(w.hazards, T))
    <3> HIDE DEF T
    <3> QED
      BY <1>1, Picked
  <2>3. \A h : h \in ToSet(At(w.hazards, T)) <=>
                 h \in ToSet(w.hazards) /\ <<h.origin, h.label>> # <<a.origin, a.hazard>>
    <3>1. ASSUME NEW h \in ToSet(w.hazards), <<h.origin, h.label>> # <<a.origin, a.hazard>>
          PROVE  h \in ToSet(At(w.hazards, T))
      <4>1. PICK i \in DOMAIN w.hazards : h = w.hazards[i]
        BY DEF ToSet
      <4> QED
        BY <2>2, <3>1, <4>1
    <3>2. ASSUME NEW h \in ToSet(At(w.hazards, T))
          PROVE  h \in ToSet(w.hazards) /\ <<h.origin, h.label>> # <<a.origin, a.hazard>>
      <4>1. PICK i \in T \cap DOMAIN w.hazards : h = w.hazards[i]
        BY <2>2
      <4> QED
        BY <4>1 DEF ToSet
    <3> QED
      BY <3>1, <3>2
  <2> HIDE DEF T
  <2>4. v.rules = w.rules /\ v.graph = w.graph /\ v.at = w.at /\ v.hazards = At(w.hazards, T)
    BY <1>1, <2>1
  <2> QED
    BY <1>3, <2>2, <2>3, <2>4
<1>4. CASE a.kind = "interrupt"
  <2> DEFINE T == {i \in DOMAIN w.graph :
                     <<w.graph[i].code, {w.graph[i].from, w.graph[i].to}>> # <<a.coupling, {a.from, a.to}>>}
  <2>1. v = [w EXCEPT !.graph = At(w.graph, T)]
    BY <1>4 DEF apply, Chosen, At
  <2>2. /\ IsSeq(At(w.graph, T))
        /\ \A x \in ToSet(At(w.graph, T)) : \E i \in T \cap DOMAIN w.graph : x = w.graph[i]
        /\ \A i \in T \cap DOMAIN w.graph : w.graph[i] \in ToSet(At(w.graph, T))
    <3> HIDE DEF T
    <3> QED
      BY <1>1, Picked
  <2>3. \A e : e \in ToSet(At(w.graph, T)) <=>
                 e \in ToSet(w.graph) /\ <<e.code, {e.from, e.to}>> # <<a.coupling, {a.from, a.to}>>
    <3>1. ASSUME NEW e \in ToSet(w.graph), <<e.code, {e.from, e.to}>> # <<a.coupling, {a.from, a.to}>>
          PROVE  e \in ToSet(At(w.graph, T))
      <4>1. PICK i \in DOMAIN w.graph : e = w.graph[i]
        BY DEF ToSet
      <4> QED
        BY <2>2, <3>1, <4>1
    <3>2. ASSUME NEW e \in ToSet(At(w.graph, T))
          PROVE  e \in ToSet(w.graph) /\ <<e.code, {e.from, e.to}>> # <<a.coupling, {a.from, a.to}>>
      <4>1. PICK i \in T \cap DOMAIN w.graph : e = w.graph[i]
        BY <2>2
      <4> QED
        BY <4>1 DEF ToSet
    <3> QED
      BY <3>1, <3>2
  <2> HIDE DEF T
  <2>4. v.rules = w.rules /\ v.hazards = w.hazards /\ v.at = w.at /\ v.graph = At(w.graph, T)
    BY <1>1, <2>1
  <2> QED
    BY <1>4, <2>2, <2>3, <2>4
<1> QED
  BY <1>2, <1>3, <1>4 DEF IsAction

LEMMA DoneIsApply ==
  ASSUME NEW w, NEW a, IsAction(a)
  PROVE  Done(w, a) = apply(w, a)
<1>1. CASE a.kind = "wait"
  BY <1>1 DEF Done, apply
<1>2. CASE a.kind = "discharge"
  BY <1>2 DEF Done, Chosen, At, apply
<1>3. CASE a.kind = "interrupt"
  BY <1>3 DEF Done, Chosen, At, apply
<1> QED
  BY <1>1, <1>2, <1>3 DEF IsAction

LEMMA OneAction ==
  ASSUME NEW w, NEW a
  PROVE  variant_for(w, <<a>>) = apply(w, a)
<1> DEFINE IsDone(f) == f = [n \in 0 .. Len(<<a>>) |-> IF n = 0 THEN w ELSE apply(f[n - 1], <<a>>[n])]
<1>1. \E f : IsDone(f)
  <2>1. PICK f : f = [n \in 0 .. 1 |-> IF n = 0 THEN w ELSE apply(w, a)]
    OBVIOUS
  <2>2. f[0] = w
    BY <2>1
  <2>3. PICK k : k = [n \in 0 .. Len(<<a>>) |-> IF n = 0 THEN w ELSE apply(f[n - 1], <<a>>[n])]
    OBVIOUS
  <2>4. DOMAIN k = 0 .. 1 /\ k = [n \in 0 .. 1 |-> k[n]]
    BY <2>3
  <2>5. k[0] = w /\ k[1] = apply(f[0], a)
    BY <2>3
  <2>6. \A n \in 0 .. 1 : n = 0 \/ n = 1
    OBVIOUS
  <2>7. f = k
    BY <2>1, <2>2, <2>4, <2>5, <2>6
  <2> QED
    BY <2>3, <2>7
<1>2. PICK done : done = CHOOSE f : IsDone(f)
  OBVIOUS
<1>3. IsDone(done)
  BY <1>1, <1>2
<1>4. PICK k : k = [n \in 0 .. Len(<<a>>) |-> IF n = 0 THEN w ELSE apply(done[n - 1], <<a>>[n])]
  OBVIOUS
<1>5. k[0] = w /\ k[1] = apply(done[0], a) /\ done = k
  BY <1>3, <1>4
<1>6. variant_for(w, <<a>>) = done[Len(<<a>>)]
  BY <1>2 DEF variant_for
<1> QED
  BY <1>5, <1>6

(* Where an action changes anything.                                       *)
SeedsOf(w, a) ==
  CASE a.kind = "discharge" -> {a.origin}
    [] a.kind = "interrupt" -> {a.from, a.to}
    [] a.kind = "wait"      -> {w.hazards[i].origin : i \in DOMAIN w.hazards}

LEMMA AffectedBy ==
  ASSUME NEW w, NEW a
  PROVE  affected_by(w, <<a>>) = reach(w.graph, SeedsOf(w, a))
<1>1. PICK Seeds : Seeds = SeedsOf(w, a)
  OBVIOUS
<1>2. UNION {SeedsOf(w, <<a>>[i]) : i \in DOMAIN <<a>>} = Seeds
  <2>1. DOMAIN <<a>> = {1} /\ <<a>>[1] = a
    OBVIOUS
  <2> HIDE DEF SeedsOf
  <2> QED
    BY <1>1, <2>1
<1>3. affected_by(w, <<a>>) = reach(w.graph, UNION {SeedsOf(w, <<a>>[i]) : i \in DOMAIN <<a>>})
  BY DEF affected_by, SeedsOf
<1> QED
  BY <1>1, <1>2, <1>3

(* A space no hazard comes near is open, at any instant.                   *)
LEMMA NothingNear ==
  ASSUME NEW w, IsWorld(w), HasHops(w), NEW s,
         s \notin reach(w.graph, {w.hazards[i].origin : i \in DOMAIN w.hazards})
  PROVE  Permits(w, s)
<1>1. PICK seeds : seeds = {w.hazards[i].origin : i \in DOMAIN w.hazards}
  OBVIOUS
<1>2. ASSUME NEW i \in DOMAIN w.hazards, NEW j \in DOMAIN w.rules
      PROVE  Lines(w, w.hazards[i], w.rules[j], s) = <<>>
  <2>1. w.hazards[i].origin \in seeds /\ w.rules[j] \in ToSet(w.rules) /\ IsSeq(w.graph)
    BY <1>1 DEF ToSet, IsWorld
  <2> QED
    BY <1>1, <2>1, OutOfReach
<1> QED
  BY <1>2 DEF Permits

(* A walk that passes neither end of what is cut is a walk without it.     *)
LEMMA CutElsewhere ==
  ASSUME NEW w, IsReading(w), HasHops(w), NEW a, a.kind = "interrupt", NEW v, v = apply(w, a),
         NEW s, s \notin reach(w.graph, {a.from, a.to}), NEW h, NEW rule \in ToSet(w.rules)
  PROVE  Comes(v.graph, h, rule, s) <=> Comes(w.graph, h, rule, s)
<1>0. IsAction(a) /\ IsSeq(w.graph)
  BY DEF IsAction, IsReading, IsWorld
<1>1. /\ IsSeq(v.graph) /\ IsSeq(w.graph)
      /\ \A e : e \in ToSet(v.graph) <=>
                  e \in ToSet(w.graph) /\ <<e.code, {e.from, e.to}>> # <<a.coupling, {a.from, a.to}>>
  BY <1>0, AppliedIs
<1>2. ASSUME NEW p, IsWalk(p, v.graph, h.origin, rule) PROVE IsWalk(p, w.graph, h.origin, rule)
  <2>1. ToSet(v.graph) \subseteq ToSet(w.graph)
    BY <1>1
  <2>2. p \in Seq(ToSet(w.graph))
    BY <1>2, <2>1 DEF IsWalk
  <2> QED
    BY <1>2, <2>2 DEF IsWalk
<1>3. ASSUME NEW p, IsWalk(p, w.graph, h.origin, rule), p[Len(p)].to = s
      PROVE  IsWalk(p, v.graph, h.origin, rule)
  <2>1. p \in Seq(ToSet(w.graph)) /\ Len(p) \in Nat \ {0}
    BY <1>3 DEF IsWalk
  <2>2. ASSUME NEW i \in 1 .. Len(p) PROVE p[i] \in ToSet(v.graph)
    <3>1. SUFFICES ASSUME p[i].to \in {a.from, a.to} PROVE FALSE
      BY <1>1, <2>1
    <3>2. i \in 0 .. Len(p) /\ Ends(p, i, h.origin) \in {a.from, a.to} /\ Ends(p, Len(p), h.origin) = s
      BY <1>3, <2>1, <3>1 DEF Ends
    <3> QED
      BY <1>1, <1>3, <3>2, WalkStays DEF HasHops
  <2>3. p \in Seq(ToSet(v.graph))
    BY <2>1, <2>2
  <2> QED
    BY <1>3, <2>3 DEF IsWalk
<1> QED
  BY <1>2, <1>3 DEF Comes

(* Nothing changes out of reach of an action.                              *)
LEMMA ChangesNear ==
  ASSUME NEW w, IsReading(w), HasHops(w), NEW a, IsAction(a), NEW v, v = apply(w, a),
         NEW s, s \notin affected_by(w, <<a>>)
  PROVE  Permits(v, s) <=> Permits(w, s)
<1>1. s \notin reach(w.graph, SeedsOf(w, a))
  BY AffectedBy
<1>2. IsWorld(w) /\ IsSeq(w.graph)
  BY DEF IsReading, IsWorld
<1>3. CASE a.kind = "wait"
  <2>1. v.graph = w.graph /\ v.hazards = w.hazards /\ v.rules = w.rules
    BY <1>3, AppliedIs
  <2>2. IsWorld(v) /\ HasHops(v)
    BY <1>2, <2>1 DEF IsWorld, HasHops
  <2>3. s \notin reach(w.graph, {w.hazards[i].origin : i \in DOMAIN w.hazards})
    BY <1>1, <1>3 DEF SeedsOf
  <2> QED
    BY <1>2, <2>1, <2>2, <2>3, NothingNear
<1>4. CASE a.kind = "discharge"
  <2>1. /\ v.graph = w.graph /\ v.at = w.at /\ v.rules = w.rules
        /\ \A h : h \in ToSet(v.hazards) <=>
                    h \in ToSet(w.hazards) /\ <<h.origin, h.label>> # <<a.origin, a.hazard>>
    BY <1>4, AppliedIs
  <2>2. s \notin reach(w.graph, {a.origin})
    BY <1>1, <1>4 DEF SeedsOf
  <2>3. Permits(w, s) => Permits(v, s)
    <3>1. ToSet(v.hazards) \subseteq ToSet(w.hazards) /\ ToSet(v.rules) \subseteq ToSet(w.rules)
      BY <2>1
    <3> QED
      BY <2>1, <3>1, FewerRules
  <2>4. ASSUME Permits(v, s), NEW i \in DOMAIN w.hazards, NEW j \in DOMAIN w.rules
        PROVE  permits_work(w.rules[j].state) \/ Lines(w, w.hazards[i], w.rules[j], s) = <<>>
    <3>1. w.hazards[i] \in ToSet(w.hazards) /\ w.rules[j] \in ToSet(w.rules)
      BY DEF ToSet
    <3>2. CASE <<w.hazards[i].origin, w.hazards[i].label>> # <<a.origin, a.hazard>>
      BY <2>1, <3>1, <3>2, <2>4, SameLines DEF ToSet, Permits
    <3>3. CASE <<w.hazards[i].origin, w.hazards[i].label>> = <<a.origin, a.hazard>>
      <4>1. w.hazards[i].origin \in {a.origin}
        BY <3>3
      <4> QED
        BY <1>2, <2>2, <3>1, <4>1, OutOfReach
    <3> QED
      BY <3>2, <3>3
  <2> QED
    BY <2>3, <2>4 DEF Permits
<1>5. CASE a.kind = "interrupt"
  <2>1. v.hazards = w.hazards /\ v.at = w.at /\ v.rules = w.rules /\ IsSeq(v.graph)
        /\ \A e : e \in ToSet(v.graph) => e \in ToSet(w.graph)
    BY <1>5, AppliedIs
  <2>2. s \notin reach(w.graph, {a.from, a.to})
    BY <1>1, <1>5 DEF SeedsOf
  <2>3. ASSUME NEW i \in DOMAIN w.hazards, NEW j \in DOMAIN w.rules
        PROVE  Lines(v, w.hazards[i], w.rules[j], s) = <<>> <=> Lines(w, w.hazards[i], w.rules[j], s) = <<>>
    <3>1. PICK h, rule : h = w.hazards[i] /\ rule = w.rules[j]
      OBVIOUS
    <3>2. rule \in ToSet(w.rules)
      BY <3>1 DEF ToSet
    <3>3. HopsAreInts(v.graph, rule) /\ HopsAreInts(w.graph, rule)
      BY <2>1, <3>2 DEF HasHops, HopsAreInts
    <3>4. Comes(v.graph, h, rule, s) <=> Comes(w.graph, h, rule, s)
      BY <1>5, <2>2, <3>2, CutElsewhere
    <3>5. PathsTo(v, h, rule, s) # <<>> <=> Comes(v.graph, h, rule, s)
      BY <2>1, <3>3, PathsExact
    <3>6. PathsTo(w, h, rule, s) # <<>> <=> Comes(w.graph, h, rule, s)
      BY <1>2, <3>3, PathsExact
    <3>7. Lines(v, h, rule, s) # <<>> <=> Speaks(h, rule, v.at) /\ PathsTo(v, h, rule, s) # <<>>
      BY <2>1, LinesType
    <3>8. Lines(w, h, rule, s) # <<>> <=> Speaks(h, rule, w.at) /\ PathsTo(w, h, rule, s) # <<>>
      BY <1>2, LinesType
    <3> QED
      BY <2>1, <3>1, <3>4, <3>5, <3>6, <3>7, <3>8
  <2> QED
    BY <2>1, <2>3 DEF Permits
<1> QED
  BY <1>3, <1>4, <1>5 DEF IsAction

(* The baseline is what the whole hull, asked space by space, would show;  *)
(* so is what an action is said to free and to shut.                       *)
LEMMA BaselineIs ==
  ASSUME NEW w, IsWorld(w), HasHops(w), NEW s \in w.spaces
  PROVE  baseline(w)[s] = Permits(w, s)
BY NothingNear DEF baseline, Permits

IsWhole(effect, w, v) ==
  /\ effect.frees = {s \in w.spaces : ~Permits(w, s) /\ Permits(v, s)}
  /\ effect.closes = {s \in w.spaces : Permits(w, s) /\ ~Permits(v, s)}

LEMMA EffectIsWhole ==
  ASSUME NEW w, IsReading(w), HasHops(w), NEW a, IsAction(a)
  PROVE  IsWhole(effect_of(w, baseline(w), <<a>>), w, apply(w, a))
<1>1. PICK v, base, asked : v = apply(w, a) /\ base = baseline(w) /\ asked = affected_by(w, <<a>>)
  OBVIOUS
<1>2. PICK shifted : shifted = {s \in asked \cap w.spaces : base[s] # Permits(v, s)}
  OBVIOUS
<1>3. effect_of(w, base, <<a>>) = FreedAndShut(w, base, shifted, v.at)
  BY <1>1, <1>2, OneAction DEF effect_of, EffectAsked
<1>4. PICK effect : effect = effect_of(w, base, <<a>>)
  OBVIOUS
<1>5. effect.frees = {s \in shifted : ~base[s]} /\ effect.closes = {s \in shifted : base[s]}
  BY <1>3, <1>4 DEF FreedAndShut, Priced
<1>6. \A s \in w.spaces : base[s] = Permits(w, s)
  BY <1>1, BaselineIs DEF IsReading
<1>7. \A s \in w.spaces : s \notin asked => (Permits(v, s) <=> Permits(w, s))
  BY <1>1, ChangesNear
<1>8. \A s : Permits(v, s) \in BOOLEAN /\ Permits(w, s) \in BOOLEAN
  BY DEF Permits
<1>9. ASSUME NEW s
      PROVE  /\ s \in {x \in shifted : ~base[x]} <=> s \in w.spaces /\ ~Permits(w, s) /\ Permits(v, s)
             /\ s \in {x \in shifted : base[x]} <=> s \in w.spaces /\ Permits(w, s) /\ ~Permits(v, s)
  <2>1. s \in shifted <=> s \in asked /\ s \in w.spaces /\ base[s] # Permits(v, s)
    BY <1>2
  <2> QED
    BY <1>6, <1>7, <1>8, <2>1
<1>10. IsWhole(effect, w, v)
  BY <1>5, <1>9 DEF IsWhole
<1> QED
  BY <1>1, <1>4, <1>10

(* Actions of one key are the same thing to do.                            *)
LEMMA SameKey ==
  ASSUME NEW w, NEW a, NEW b, IsAction(a), IsAction(b), key(a) = key(b)
  PROVE  /\ apply(w, b) = apply(w, a) /\ SeedsOf(w, b) = SeedsOf(w, a)
<1>1. /\ a.kind = "wait" => key(a) = <<0, a.until>>
      /\ a.kind = "discharge" => key(a) = <<1, a.origin, a.hazard>>
      /\ a.kind = "interrupt" => key(a) = <<2, {a.from, a.to}, a.coupling>>
      /\ b.kind = "wait" => key(b) = <<0, b.until>>
      /\ b.kind = "discharge" => key(b) = <<1, b.origin, b.hazard>>
      /\ b.kind = "interrupt" => key(b) = <<2, {b.from, b.to}, b.coupling>>
  BY DEF key
<1>2. \A x, y, z, u, v : /\ <<0, x>> # <<1, y, z>> /\ <<0, x>> # <<2, y, z>> /\ <<1, u, v>> # <<2, y, z>>
  OBVIOUS
<1>3. a.kind = b.kind
  BY <1>1, <1>2 DEF IsAction
<1>4. CASE a.kind = "wait"
  <2>1. a.until = b.until
    BY <1>1, <1>3, <1>4
  <2> QED
    BY <1>3, <1>4, <2>1 DEF apply, SeedsOf
<1>5. CASE a.kind = "discharge"
  <2>1. a.origin = b.origin /\ a.hazard = b.hazard
    BY <1>1, <1>3, <1>5
  <2> QED
    BY <1>3, <1>5, <2>1 DEF apply, SeedsOf
<1>6. CASE a.kind = "interrupt"
  <2>1. {a.from, a.to} = {b.from, b.to} /\ a.coupling = b.coupling
    BY <1>1, <1>3, <1>6
  <2>2. apply(w, b) = apply(w, a)
    <3>1. PICK T : T = {i \in DOMAIN w.graph :
                          <<w.graph[i].code, {w.graph[i].from, w.graph[i].to}>> # <<a.coupling, {a.from, a.to}>>}
      OBVIOUS
    <3>2. T = {i \in DOMAIN w.graph :
                 <<w.graph[i].code, {w.graph[i].from, w.graph[i].to}>> # <<b.coupling, {b.from, b.to}>>}
      BY <2>1, <3>1
    <3>3. apply(w, a) = [w EXCEPT !.graph = At(w.graph, T)]
      BY <1>6, <3>1 DEF apply, Chosen, At
    <3>4. apply(w, b) = [w EXCEPT !.graph = At(w.graph, T)]
      BY <1>3, <1>6, <3>2 DEF apply, Chosen, At
    <3> QED
      BY <3>3, <3>4
  <2> QED
    BY <1>3, <1>6, <2>1, <2>2 DEF SeedsOf
<1> QED
  BY <1>4, <1>5, <1>6 DEF IsAction

LEMMA SameEffect ==
  ASSUME NEW w, NEW a, NEW b, IsAction(a), IsAction(b), key(a) = key(b), NEW base
  PROVE  effect_of(w, base, <<b>>) = effect_of(w, base, <<a>>)
<1>1. variant_for(w, <<b>>) = variant_for(w, <<a>>) /\ affected_by(w, <<b>>) = affected_by(w, <<a>>)
  BY SameKey, OneAction, AffectedBy
<1> QED
  BY <1>1 DEF effect_of

LEMMA CandidatesAreActions ==
  ASSUME NEW w, NEW s, NEW decision
  PROVE  \A a \in candidates(w, s, decision) : IsAction(a)
<1>1. \A x, y, z : IsAction(Wait(x)) /\ IsAction(Discharge(x, y, z)) /\ IsAction(Interrupt(x, y, z))
  BY DEF IsAction, Wait, Discharge, Interrupt
<1>2. \A x : \A a \in Waits(x) : IsAction(a)
  BY <1>1 DEF Waits
<1>3. PICK t : t = decision.trace
  OBVIOUS
<1>4. ASSUME NEW J, NEW a \in {Discharge(t[i].source, t[i].hazard, t[i].clearing) : i \in J} PROVE IsAction(a)
  BY <1>1
<1>5. ASSUME NEW i, NEW a \in {Interrupt(e.from, e.to, e.code) : e \in ToSet(t[i].path)} PROVE IsAction(a)
  BY <1>1
<1>6. ASSUME NEW a \in UNION {{Interrupt(e.from, e.to, e.code) : e \in ToSet(t[i].path)} : i \in DOMAIN t}
      PROVE  IsAction(a)
  BY <1>5
<1>7. ASSUME NEW a \in candidates(w, s, decision) PROVE IsAction(a)
  BY <1>3, <1>7, <1>2, <1>4, <1>6 DEF candidates
<1> QED
  BY <1>7

(* The options of a space, and the levers of a hull, with their effects.   *)
LEMMA OptionEffects ==
  ASSUME NEW w, NEW s, NEW o \in assess(w, s).options
  PROVE  /\ o.effect = effect_of(w, baseline(w), <<o.action>>)
         /\ o.action \in Opening(w, s, evaluate(w, s)) /\ ~permits_work(evaluate(w, s).state)
<1>1. PICK decision : decision = evaluate(w, s)
  OBVIOUS
<1>2. PICK a : a = [subject |-> s, state |-> decision.state, booked |-> Load(w, w.at, s),
                    holds |-> holds_of(decision), options |-> {}, combined |-> <<>>]
  OBVIOUS
<1>3. CASE permits_work(decision.state)
  <2>1. assess(w, s) = a
    BY <1>1, <1>2, <1>3 DEF assess, Assessed
  <2> QED
    BY <1>2, <2>1
<1>4. CASE ~permits_work(decision.state)
  <2>1. PICK options : options = OptionsFrom(w, s, Opening(w, s, decision), baseline(w))
    OBVIOUS
  <2>2. assess(w, s) = Offers(w, a, options)
    BY <1>1, <1>2, <1>4, <2>1 DEF assess, Assessed
  <2>3. assess(w, s).options = options
    <3>1. PICK plan : Offers(w, a, options) = [a EXCEPT !.options = options, !.combined = plan]
      BY DEF Offers
    <3> QED
      BY <1>2, <2>2, <3>1
  <2>4. PICK acts : acts = Opening(w, s, decision)
    OBVIOUS
  <2>5. PICK x \in acts : o = [action |-> x, effect |-> effect_of(w, baseline(w), <<x>>),
                                subject_state |-> evaluate(apply(w, x), s).state]
    BY <2>1, <2>3, <2>4 DEF OptionsFrom
  <2>6. o.action = x /\ o.effect = effect_of(w, baseline(w), <<x>>)
    BY <2>5
  <2> QED
    BY <1>1, <1>4, <2>4, <2>5, <2>6
<1> QED
  BY <1>3, <1>4

Tried(w) == UNION {candidates(w, s, evaluate(w, s)) : s \in {x \in w.spaces : ~Permits(w, x)}}

LEMMA LeverageIs ==
  ASSUME NEW w
  PROVE  /\ \A m \in leverage(w) : IsAction(m.action) /\ m.effect = effect_of(w, baseline(w), <<m.action>>)
         /\ \A a \in Tried(w) :
              effect_of(w, baseline(w), <<a>>).frees # {} =>
                \E m \in leverage(w) : IsAction(m.action) /\ key(m.action) = key(a)
<1>1. PICK once : once = OnceEach(Tried(w))
  OBVIOUS
<1>2. leverage(w) = {m \in Moves(w, once, baseline(w)) : m.effect.frees # {}}
  BY <1>1 DEF leverage, Tried
<1>3. \A a \in Tried(w) : IsAction(a)
  BY CandidatesAreActions DEF Tried
<1>4. /\ \A a \in once : a \in Tried(w)
      /\ \A a \in Tried(w) : \E b \in once : key(b) = key(a)
  <2>1. PICK S : S = Tried(w)
    OBVIOUS
  <2>2. ASSUME NEW k \in {key(a) : a \in S}
        PROVE  (CHOOSE a \in S : key(a) = k) \in S /\ key(CHOOSE a \in S : key(a) = k) = k
    <3>1. \E a \in S : key(a) = k
      OBVIOUS
    <3> QED
      BY <3>1
  <2>3. once = {CHOOSE a \in S : key(a) = k : k \in {key(a) : a \in S}}
    BY <1>1, <2>1 DEF OnceEach
  <2>4. \A a \in once : a \in S
    BY <2>2, <2>3
  <2>5. ASSUME NEW a \in S PROVE \E b \in once : key(b) = key(a)
    BY <2>2, <2>3
  <2> QED
    BY <2>1, <2>4, <2>5
<1>5. ASSUME NEW a \in once
      PROVE  LET m == [action |-> a, effect |-> effect_of(w, baseline(w), <<a>>)]
             IN m \in Moves(w, once, baseline(w)) /\ m.action = a /\ m.effect = effect_of(w, baseline(w), <<a>>)
  BY DEF Moves
<1>6. ASSUME NEW m \in Moves(w, once, baseline(w))
      PROVE  m.action \in once /\ m.effect = effect_of(w, baseline(w), <<m.action>>)
  <2>1. PICK a \in once : m = [action |-> a, effect |-> effect_of(w, baseline(w), <<a>>)]
    BY DEF Moves
  <2>2. m.action = a /\ m.effect = effect_of(w, baseline(w), <<a>>)
    BY <2>1
  <2> QED
    BY <2>2
<1>7. ASSUME NEW a \in Tried(w), effect_of(w, baseline(w), <<a>>).frees # {}
      PROVE  \E m \in leverage(w) : IsAction(m.action) /\ key(m.action) = key(a)
  <2>1. PICK b \in once : key(b) = key(a)
    BY <1>4
  <2>2. IsAction(a) /\ IsAction(b)
    BY <1>3, <1>4
  <2>3. effect_of(w, baseline(w), <<b>>) = effect_of(w, baseline(w), <<a>>)
    BY <2>1, <2>2, SameEffect
  <2>4. PICK m : m = [action |-> b, effect |-> effect_of(w, baseline(w), <<b>>)]
    OBVIOUS
  <2>5. m \in Moves(w, once, baseline(w)) /\ m.action = b /\ m.effect = effect_of(w, baseline(w), <<b>>)
    BY <1>5, <2>4
  <2>6. m \in leverage(w)
    BY <1>2, <1>7, <2>3, <2>5
  <2> QED
    BY <2>1, <2>2, <2>5, <2>6
<1> QED
  BY <1>2, <1>3, <1>4, <1>6, <1>7

-----------------------------------------------------------------------------
(* A plan of several actions.                                              *)

(* Actions done one after the other; and however it is put, the same.      *)
IsDone(f, w, q) == f = [n \in 0 .. Len(q) |-> IF n = 0 THEN w ELSE apply(f[n - 1], q[n])]

(* f reads the worlds the actions go through, and ends at the one the      *)
(* planner puts.                                                           *)
StepBy(f, w, q) ==
  /\ f[0] = w
  /\ \A n \in 1 .. Len(q) : f[n] = apply(f[n - 1], q[n])
  /\ variant_for(w, q) = f[Len(q)]

LEMMA VariantRuns ==
  ASSUME NEW w, NEW q, IsSeq(q)
  PROVE  \E f : StepBy(f, w, q)
<1>1. Len(q) \in Nat
  BY Places
<1>2. \E f : IsDone(f, w, q)
  <2> DEFINE Chain(k, f) == /\ f = [n \in 0 .. k |-> f[n]] /\ f[0] = w
                            /\ \A n \in 1 .. k : f[n] = apply(f[n - 1], q[n])
  <2>1. PICK P : P = {k \in 0 .. Len(q) : \E f : Chain(k, f)}
    OBVIOUS
  <2>2. 0 \in P
    <3>1. PICK f : f = [n \in 0 .. 0 |-> w]
      OBVIOUS
    <3>2. Chain(0, f)
      BY <3>1
    <3> QED
      BY <1>1, <2>1, <3>2
  <2>3. ASSUME NEW k \in 1 .. Len(q), k - 1 \in P PROVE k \in P
    <3>1. PICK f : Chain(k - 1, f)
      BY <2>1, <2>3
    <3>2. PICK x : x = apply(f[k - 1], q[k])
      OBVIOUS
    <3>3. PICK g : g = [n \in 0 .. k |-> IF n = k THEN x ELSE f[n]]
      OBVIOUS
    <3>4. DOMAIN g = 0 .. k /\ g = [n \in 0 .. k |-> g[n]]
      BY <3>3
    <3>5. g[k] = x /\ \A n \in 0 .. k - 1 : g[n] = f[n]
      BY <3>3
    <3>6. g[0] = w
      BY <3>1, <3>5
    <3>7. ASSUME NEW n \in 1 .. k PROVE g[n] = apply(g[n - 1], q[n])
      <4>1. n - 1 \in 0 .. k - 1 /\ g[n - 1] = f[n - 1]
        BY <3>5
      <4>2. CASE n = k
        BY <3>2, <3>5, <4>1, <4>2
      <4>3. CASE n # k
        <5>1. n \in 1 .. k - 1 /\ g[n] = f[n]
          BY <3>5, <4>3
        <5> QED
          BY <3>1, <4>1, <5>1
      <4> QED
        BY <4>2, <4>3
    <3>8. Chain(k, g)
      BY <3>4, <3>6, <3>7
    <3> HIDE DEF Chain
    <3> QED
      BY <2>1, <3>8
  <2>4. Len(q) \in P
    <3> HIDE DEF Chain
    <3>1. PICK m \in Nat : m = Len(q)
      BY <1>1
    <3>2. \A n \in 0 .. m : n \in P
      BY <2>2, <2>3, <3>1, Climb
    <3> QED
      BY <3>1, <3>2
  <2>5. PICK f : Chain(Len(q), f)
    BY <2>1, <2>4
  <2>6. PICK k : k = [n \in 0 .. Len(q) |-> IF n = 0 THEN w ELSE apply(f[n - 1], q[n])]
    OBVIOUS
  <2>7. \A n \in 0 .. Len(q) : f[n] = k[n]
    <3>1. ASSUME NEW n \in 0 .. Len(q) PROVE f[n] = k[n]
      <4>1. k[n] = IF n = 0 THEN w ELSE apply(f[n - 1], q[n])
        BY <2>6
      <4>2. n = 0 \/ n \in 1 .. Len(q)
        BY <1>1
      <4> QED
        BY <2>5, <4>1, <4>2
    <3> QED
      BY <3>1
  <2>8. f = k
    <3>1. k = [n \in 0 .. Len(q) |-> k[n]]
      BY <2>6
    <3> QED
      BY <2>5, <2>7, <3>1
  <2> QED
    BY <2>6, <2>8 DEF IsDone
<1>3. PICK done : done = CHOOSE f : IsDone(f, w, q)
  OBVIOUS
<1>4. IsDone(done, w, q)
  BY <1>2, <1>3
<1>5. PICK k : k = [n \in 0 .. Len(q) |-> IF n = 0 THEN w ELSE apply(done[n - 1], q[n])]
  OBVIOUS
<1>6. done = k
  BY <1>4, <1>5 DEF IsDone
<1>7. k[0] = w /\ \A n \in 1 .. Len(q) : k[n] = apply(done[n - 1], q[n])
  BY <1>1, <1>5
<1>8. variant_for(w, q) = done[Len(q)]
  BY <1>3 DEF variant_for, IsDone
<1>9. StepBy(k, w, q)
  BY <1>6, <1>7, <1>8 DEF StepBy
<1> QED
  BY <1>9

LEMMA AllDoneIs ==
  ASSUME NEW w, NEW q, IsSeq(q), \A i \in DOMAIN q : IsAction(q[i])
  PROVE  AllDone(w, q) = variant_for(w, q)
<1>1. Len(q) \in Nat /\ DOMAIN q = 1 .. Len(q)
  BY Places
<1>2. PICK f : StepBy(f, w, q)
  BY VariantRuns
<1>2a. /\ f[0] = w
       /\ \A n \in 1 .. Len(q) : f[n] = apply(f[n - 1], q[n])
       /\ variant_for(w, q) = f[Len(q)]
  BY <1>2 DEF StepBy
<1> DEFINE Does(g) == g = [n \in 0 .. Len(q) |-> IF n = 0 THEN w ELSE Done(g[n - 1], q[n])]
<1>3. \E g : Does(g)
  <2>1. PICK g : g = [n \in 0 .. Len(q) |-> f[n]]
    OBVIOUS
  <2>2. PICK k : k = [n \in 0 .. Len(q) |-> IF n = 0 THEN w ELSE Done(g[n - 1], q[n])]
    OBVIOUS
  <2>3. ASSUME NEW n \in 0 .. Len(q) PROVE g[n] = k[n]
    <3>1. k[n] = (IF n = 0 THEN w ELSE Done(g[n - 1], q[n])) /\ g[n] = f[n]
      BY <2>1, <2>2
    <3>2. CASE n = 0
      BY <1>2a, <3>1, <3>2
    <3>3. CASE n # 0
      <4>1. n \in 1 .. Len(q) /\ n - 1 \in 0 .. Len(q)
        BY <1>1, <3>3
      <4>2. g[n - 1] = f[n - 1] /\ f[n] = apply(f[n - 1], q[n])
        BY <1>2a, <2>1, <4>1
      <4>3. Done(f[n - 1], q[n]) = apply(f[n - 1], q[n])
        BY <1>1, <4>1, DoneIsApply
      <4> QED
        BY <3>1, <3>3, <4>2, <4>3
    <3> QED
      BY <3>2, <3>3
  <2>4. g = [n \in 0 .. Len(q) |-> g[n]] /\ k = [n \in 0 .. Len(q) |-> k[n]]
    BY <2>1, <2>2
  <2>5. g = k
    BY <2>3, <2>4
  <2> QED
    BY <2>2, <2>5
<1>4. PICK done : done = CHOOSE g : Does(g)
  OBVIOUS
<1>5. Does(done)
  BY <1>3, <1>4
<1>6. PICK k : k = [n \in 0 .. Len(q) |-> IF n = 0 THEN w ELSE Done(done[n - 1], q[n])]
  OBVIOUS
<1>7. done = k
  BY <1>5, <1>6
<1>8. k[0] = w /\ \A n \in 1 .. Len(q) : k[n] = Done(done[n - 1], q[n])
  BY <1>1, <1>6
<1>9. AllDone(w, q) = done[Len(q)]
  BY <1>4 DEF AllDone
<1> HIDE DEF Does
<1>10. PICK P : P = {n \in 0 .. Len(q) : done[n] = f[n]}
  OBVIOUS
<1>11. 0 \in P
  BY <1>1, <1>2a, <1>7, <1>8, <1>10
<1>12. ASSUME NEW n \in 1 .. Len(q), n - 1 \in P PROVE n \in P
  BY <1>1, <1>10, <1>12, <1>2a, <1>7, <1>8, DoneIsApply
<1>13. Len(q) \in P
  <2>1. PICK m \in Nat : m = Len(q)
    BY <1>1
  <2>2. \A n \in 0 .. m : n \in P
    BY <1>11, <1>12, <2>1, Climb
  <2> QED
    BY <2>1, <2>2
<1> QED
  BY <1>2a, <1>9, <1>10, <1>13

(* What a plan leaves of a world: the instant waited for, and the hazards  *)
(* it discharges gone.                                                     *)
Remains(v, w, t, N) ==
  /\ IsReading(v) /\ v.graph = w.graph /\ v.rules = w.rules /\ v.at = t
  /\ \A h : h \in ToSet(v.hazards) <=> h \in ToSet(w.hazards) /\ <<h.origin, h.label>> \notin N

IsPlan(q) ==
  /\ IsSeq(q)
  /\ \A i \in DOMAIN q : q[i].kind = "discharge" \/ (i = 1 /\ q[i].kind = "wait" /\ q[i].until \in Int)

NamesIn(q, n) == {<<q[i].origin, q[i].hazard>> : i \in {j \in 1 .. n : q[j].kind = "discharge"}}

TimeOf(w, q, n) == IF n > 0 /\ q[1].kind = "wait" THEN q[1].until ELSE w.at

LEMMA OneMore ==
  ASSUME NEW w, IsReading(w), NEW u, NEW t \in Int, NEW N, Remains(u, w, t, N), NEW a
  PROVE  /\ a.kind = "wait" /\ a.until \in Int => Remains(apply(u, a), w, a.until, N)
         /\ a.kind = "discharge" => Remains(apply(u, a), w, t, N \cup {<<a.origin, a.hazard>>})
<1>1. PICK v : v = apply(u, a)
  OBVIOUS
<1>2. IsReading(u) /\ IsWorld(u) /\ u.at = t /\ u.graph = w.graph /\ u.rules = w.rules
  BY DEF Remains, IsReading
<1>3. a.kind \in {"wait", "discharge"} => DOMAIN v = DOMAIN u
  BY <1>1 DEF apply
<1>4. ASSUME a.kind = "wait", a.until \in Int PROVE Remains(v, w, a.until, N)
  <2>1. v.graph = w.graph /\ v.rules = w.rules /\ v.hazards = u.hazards /\ v.at = a.until
    BY <1>1, <1>2, <1>4, AppliedIs DEF IsAction
  <2>2. IsWorld(v)
    BY <1>2, <2>1 DEF IsWorld
  <2>3. IsReading(v)
    BY <1>2, <1>3, <1>4, <2>1, <2>2 DEF IsReading
  <2> QED
    BY <2>1, <2>3 DEF Remains
<1>5. ASSUME a.kind = "discharge" PROVE Remains(v, w, t, N \cup {<<a.origin, a.hazard>>})
  BY <1>1, <1>2, <1>5, AppliedIs, <1>3 DEF IsAction, IsWorld, IsReading, Remains
<1> QED
  BY <1>1, <1>4, <1>5

LEMMA PlanWorld ==
  ASSUME NEW w, IsReading(w), NEW q, IsPlan(q)
  PROVE  /\ Remains(variant_for(w, q), w, TimeOf(w, q, Len(q)), NamesIn(q, Len(q)))
         /\ TimeOf(w, q, Len(q)) \in Int
<1>0. IsSeq(q)
  BY DEF IsPlan
<1>1. Len(q) \in Nat /\ DOMAIN q = 1 .. Len(q) /\ w.at \in Int
  BY <1>0, Places DEF IsReading
<1>2. PICK f : StepBy(f, w, q)
  BY <1>0, VariantRuns
<1>2a. /\ f[0] = w
       /\ \A n \in 1 .. Len(q) : f[n] = apply(f[n - 1], q[n])
       /\ variant_for(w, q) = f[Len(q)]
  BY <1>2 DEF StepBy
<1>3. PICK m \in Nat : m = Len(q)
  BY <1>1
<1>4. PICK P : P = {n \in 0 .. m : Remains(f[n], w, TimeOf(w, q, n), NamesIn(q, n)) /\ TimeOf(w, q, n) \in Int}
  OBVIOUS
<1>5. 0 \in P
  <2>1. TimeOf(w, q, 0) = w.at /\ NamesIn(q, 0) = {}
    BY DEF TimeOf, NamesIn
  <2> QED
    BY <1>1, <1>2a, <1>4, <2>1 DEF Remains
<1>6. ASSUME NEW n \in 1 .. m, n - 1 \in P PROVE n \in P
  <2>1. PICK t, N : t = TimeOf(w, q, n - 1) /\ N = NamesIn(q, n - 1)
    OBVIOUS
  <2>2. Remains(f[n - 1], w, t, N) /\ t \in Int
    BY <1>4, <1>6, <2>1
  <2>3. f[n] = apply(f[n - 1], q[n])
    BY <1>2a, <1>3
  <2>4. q[n].kind = "discharge" \/ (n = 1 /\ q[n].kind = "wait" /\ q[n].until \in Int)
    BY <1>1, <1>3 DEF IsPlan
  <2>5. CASE q[n].kind = "discharge"
    <3>1. TimeOf(w, q, n) = t
      <4>1. CASE n = 1
        BY <2>1, <2>5, <4>1 DEF TimeOf
      <4>2. CASE n # 1
        BY <2>1, <4>2 DEF TimeOf
      <4> QED
        BY <4>1, <4>2
    <3>2. NamesIn(q, n) = N \cup {<<q[n].origin, q[n].hazard>>}
      <4>1. {j \in 1 .. n : q[j].kind = "discharge"} = {j \in 1 .. n - 1 : q[j].kind = "discharge"} \cup {n}
        BY <2>5
      <4> QED
        BY <2>1, <4>1 DEF NamesIn
    <3> QED
      BY <1>4, <2>2, <2>3, <2>5, <3>1, <3>2, OneMore
  <2>6. CASE q[n].kind # "discharge"
    <3>1. n = 1 /\ q[n].kind = "wait" /\ q[n].until \in Int
      BY <2>4, <2>6
    <3>2. TimeOf(w, q, n) = q[n].until
      BY <3>1 DEF TimeOf
    <3>3. NamesIn(q, n) = N
      <4>1. {j \in 1 .. n : q[j].kind = "discharge"} = {j \in 1 .. n - 1 : q[j].kind = "discharge"}
        BY <2>6, <3>1
      <4> QED
        BY <2>1, <4>1 DEF NamesIn
    <3>4. PICK a : a = q[n]
      OBVIOUS
    <3>5. Remains(apply(f[n - 1], a), w, a.until, N)
      BY <2>2, <3>1, <3>4, OneMore
    <3> QED
      BY <1>4, <2>3, <3>1, <3>2, <3>3, <3>4, <3>5
  <2> QED
    BY <2>5, <2>6
<1>7. \A n \in 0 .. m : n \in P
  BY <1>5, <1>6, Climb
<1> QED
  BY <1>2a, <1>3, <1>4, <1>7

(* Discharges, each of a hazard of its own.                                *)
NameOf(d) == <<d.origin, d.hazard>>

Orders(ds) ==
  /\ IsSeq(ds) /\ \A i \in DOMAIN ds : ds[i].kind = "discharge"
  /\ \A i, j \in DOMAIN ds : NameOf(ds[i]) = NameOf(ds[j]) => i = j

LEMMA OneDischarge ==
  ASSUME NEW found, Orders(found), NEW line
  PROVE  /\ Orders(Discharges(found, line))
         /\ \A d \in ToSet(Discharges(found, line)) :
              d \in ToSet(found) \/ NameOf(d) = <<line.source, line.hazard>>
<1>1. IsSeq(found)
  BY DEF Orders
<1>2. Len(found) \in Nat /\ DOMAIN found = 1 .. Len(found)
  BY <1>1, Places
<1>3. PICK d : d = Discharge(line.source, line.hazard, line.clearing)
  OBVIOUS
<1>4. d.kind = "discharge" /\ NameOf(d) = <<line.source, line.hazard>>
  BY <1>3 DEF Discharge, NameOf
<1>5. CASE \E i \in DOMAIN found : <<found[i].origin, found[i].hazard>> = <<line.source, line.hazard>>
  <2>1. Discharges(found, line) = found
    BY <1>5 DEF Discharges
  <2> QED
    BY <2>1
<1>6. CASE \A i \in DOMAIN found : <<found[i].origin, found[i].hazard>> # <<line.source, line.hazard>>
  <2>1. PICK more : more = Append(found, d)
    OBVIOUS
  <2>2. Discharges(found, line) = more
    BY <1>3, <1>6, <2>1 DEF Discharges
  <2>3. found \in Seq(ToSet(found) \cup {d})
    <3>1. found \in Seq(ToSet(found))
      BY <1>1 DEF IsSeq
    <3> QED
      BY <3>1
  <2>4. PICK n \in Nat : n = Len(found)
    BY <1>2
  <2>5. /\ more \in Seq(ToSet(found) \cup {d})
        /\ DOMAIN more = 1 .. n + 1 /\ more[n + 1] = d /\ \A i \in 1 .. n : more[i] = found[i]
    BY <1>2, <2>1, <2>3, <2>4
  <2>6. ToSet(more) = ToSet(found) \cup {d}
    <3>1. \A i \in DOMAIN more : more[i] \in ToSet(found) \cup {d}
      BY <2>3, <2>5
    <3>2. \A i \in 1 .. n : found[i] \in ToSet(more)
      <4>1. \A i \in 1 .. n : i \in DOMAIN more /\ more[i] = found[i]
        BY <2>5
      <4> QED
        BY <4>1 DEF ToSet
    <3>3. d \in ToSet(more)
      <4>1. n + 1 \in DOMAIN more
        BY <2>5
      <4> QED
        BY <2>5, <4>1 DEF ToSet
    <3>4. ToSet(found) \subseteq ToSet(more)
      BY <1>2, <2>4, <3>2 DEF ToSet
    <3>5. ToSet(more) \subseteq ToSet(found) \cup {d}
      BY <3>1 DEF ToSet
    <3> QED
      BY <3>3, <3>4, <3>5
  <2>7. IsSeq(more)
    BY <2>5, <2>6 DEF IsSeq
  <2>8. \A i \in DOMAIN more : more[i].kind = "discharge"
    BY <2>5, <1>2, <1>4, <2>4 DEF Orders
  <2>9. \A i \in 1 .. n : NameOf(found[i]) # NameOf(d)
    BY <1>2, <1>4, <1>6, <2>4 DEF NameOf
  <2>10. ASSUME NEW i \in DOMAIN more, NEW j \in DOMAIN more, NameOf(more[i]) = NameOf(more[j]) PROVE i = j
    <3>1. (i = n + 1 \/ i \in 1 .. n) /\ (j = n + 1 \/ j \in 1 .. n)
      BY <2>5
    <3>2. CASE i = n + 1
      BY <2>5, <2>9, <2>10, <3>1, <3>2
    <3>3. CASE i \in 1 .. n
      BY <2>5, <2>9, <2>10, <3>3, <3>1, <1>2, <2>4 DEF Orders
    <3> QED
      BY <3>1, <3>2, <3>3
  <2>11. Orders(more)
    BY <2>7, <2>8, <2>10 DEF Orders
  <2> QED
    BY <1>4, <2>2, <2>6, <2>11
<1> QED
  BY <1>5, <1>6

IsMore(f, found, lines) ==
  f = [n \in 0 .. Len(lines) |-> IF n = 0 THEN found ELSE Discharges(f[n - 1], lines[n])]

LEMMA AllDischarges ==
  ASSUME NEW found, Orders(found), NEW lines, IsSeq(lines)
  PROVE  /\ Orders(Discharged(found, lines))
         /\ \A d \in ToSet(Discharged(found, lines)) :
              d \in ToSet(found) \/ \E l \in ToSet(lines) : NameOf(d) = <<l.source, l.hazard>>
<1>1. PICK m \in Nat : m = Len(lines)
  BY Places
<1>2. DOMAIN lines = 1 .. m
  BY <1>1, Places
<1>3. \E f : IsMore(f, found, lines)
  <2> DEFINE Chain(k, f) == /\ f = [n \in 0 .. k |-> f[n]] /\ f[0] = found
                            /\ \A n \in 1 .. k : f[n] = Discharges(f[n - 1], lines[n])
  <2>1. PICK P : P = {k \in 0 .. m : \E f : Chain(k, f)}
    OBVIOUS
  <2>2. 0 \in P
    <3>1. PICK f : f = [n \in 0 .. 0 |-> found]
      OBVIOUS
    <3>2. Chain(0, f)
      BY <3>1
    <3> QED
      BY <2>1, <3>2
  <2>3. ASSUME NEW k \in 1 .. m, k - 1 \in P PROVE k \in P
    <3>1. PICK f : Chain(k - 1, f)
      BY <2>1, <2>3
    <3>2. PICK x : x = Discharges(f[k - 1], lines[k])
      OBVIOUS
    <3>3. PICK g : g = [n \in 0 .. k |-> IF n = k THEN x ELSE f[n]]
      OBVIOUS
    <3>4. DOMAIN g = 0 .. k /\ g = [n \in 0 .. k |-> g[n]]
      BY <3>3
    <3>5. g[k] = x /\ \A n \in 0 .. k - 1 : g[n] = f[n]
      BY <3>3
    <3>6. g[0] = found
      BY <3>1, <3>5
    <3>7. ASSUME NEW n \in 1 .. k PROVE g[n] = Discharges(g[n - 1], lines[n])
      <4>1. n - 1 \in 0 .. k - 1 /\ g[n - 1] = f[n - 1]
        BY <3>5
      <4>2. CASE n = k
        BY <3>2, <3>5, <4>1, <4>2
      <4>3. CASE n # k
        <5>1. n \in 1 .. k - 1 /\ g[n] = f[n]
          BY <3>5, <4>3
        <5> QED
          BY <3>1, <4>1, <5>1
      <4> QED
        BY <4>2, <4>3
    <3>8. Chain(k, g)
      BY <3>4, <3>6, <3>7
    <3> HIDE DEF Chain
    <3> QED
      BY <2>1, <3>8
  <2>4. m \in P
    <3> HIDE DEF Chain
    <3>1. \A n \in 0 .. m : n \in P
      BY <2>2, <2>3, Climb
    <3> QED
      BY <3>1
  <2>5. PICK f : Chain(m, f)
    BY <2>1, <2>4
  <2>6. PICK k : k = [n \in 0 .. m |-> IF n = 0 THEN found ELSE Discharges(f[n - 1], lines[n])]
    OBVIOUS
  <2>7. \A n \in 0 .. m : f[n] = k[n]
    <3>1. ASSUME NEW n \in 0 .. m PROVE f[n] = k[n]
      <4>1. k[n] = IF n = 0 THEN found ELSE Discharges(f[n - 1], lines[n])
        BY <2>6
      <4>2. n = 0 \/ n \in 1 .. m
        OBVIOUS
      <4> QED
        BY <2>5, <4>1, <4>2
    <3> QED
      BY <3>1
  <2>8. f = k
    <3>1. k = [n \in 0 .. m |-> k[n]]
      BY <2>6
    <3> QED
      BY <2>5, <2>7, <3>1
  <2> QED
    BY <1>1, <2>6, <2>8 DEF IsMore
<1>4. PICK more : more = CHOOSE f : IsMore(f, found, lines)
  OBVIOUS
<1>5. IsMore(more, found, lines)
  BY <1>3, <1>4
<1>6. PICK k : k = [n \in 0 .. m |-> IF n = 0 THEN found ELSE Discharges(more[n - 1], lines[n])]
  OBVIOUS
<1>7. more = k
  BY <1>1, <1>5, <1>6 DEF IsMore
<1>8. k[0] = found /\ \A n \in 1 .. m : k[n] = Discharges(more[n - 1], lines[n])
  BY <1>6
<1>9. Discharged(found, lines) = more[m]
  BY <1>1, <1>4 DEF Discharged, IsMore
<1> DEFINE GoodOrder(ds) == /\ Orders(ds)
                       /\ \A d \in ToSet(ds) :
                            d \in ToSet(found) \/ \E l \in ToSet(lines) : NameOf(d) = <<l.source, l.hazard>>
<1>10. PICK P : P = {n \in 0 .. m : GoodOrder(more[n])}
  OBVIOUS
<1>11. 0 \in P
  BY <1>7, <1>8, <1>10
<1>12. ASSUME NEW n \in 1 .. m, n - 1 \in P PROVE n \in P
  <2>1. PICK ds, line : ds = more[n - 1] /\ line = lines[n]
    OBVIOUS
  <2>2. GoodOrder(ds) /\ line \in ToSet(lines) /\ more[n] = Discharges(ds, line)
    BY <1>2, <1>7, <1>8, <1>10, <1>12, <2>1 DEF ToSet
  <2>3. GoodOrder(Discharges(ds, line))
    BY <2>2, OneDischarge
  <2> HIDE DEF GoodOrder
  <2> QED
    BY <1>10, <2>2, <2>3
<1> HIDE DEF GoodOrder
<1>13. \A n \in 0 .. m : n \in P
  BY <1>11, <1>12, Climb
<1>14. GoodOrder(more[m])
  BY <1>10, <1>13
<1> QED
  BY <1>9, <1>14 DEF GoodOrder

(* The lines that keep a space shut, each of a hazard and a rule.          *)
HazardOf(w, x) == <<w.hazards[x[1]].origin, w.hazards[x[1]].label>>

Surfaces(w, s, t, lines) ==
  /\ IsSeq(lines)
  /\ \A l \in ToSet(lines) :
       \E x \in Pairings(w) : /\ Bars(Then(w, t), s, x) /\ HazardOf(w, x) = <<l.source, l.hazard>>
                              /\ l.earliest_clear = ClockOf(Then(w, t), x)

LEMMA LineNames ==
  ASSUME NEW w, NEW h, NEW rule, NEW s, NEW l \in ToSet(Lines(w, h, rule, s))
  PROVE  l.source = h.origin /\ l.hazard = h.label
<1>1. PICK lines : lines = Lines(w, h, rule, s)
  OBVIOUS
<1>2. PICK i \in DOMAIN lines : l = lines[i]
  BY <1>1 DEF ToSet
<1>3. PICK paths : paths = PathsTo(w, h, rule, s)
  OBVIOUS
<1>4. lines # <<>>
  BY <1>2
<1>5. lines = Steps(h, rule, paths, w.at)
  BY <1>1, <1>3, <1>4 DEF Lines
<1>6. lines[i] = step(h, rule, paths[i], w.at)
  BY <1>2, <1>5 DEF Steps
<1> QED
  BY <1>2, <1>6 DEF step

LEMMA Sifted ==
  ASSUME NEW lines, IsSeq(lines)
  PROVE  /\ IsSeq(Blocking(lines)) /\ IsSeq(Ungated(lines))
         /\ \A l \in ToSet(Blocking(lines)) : l \in ToSet(lines) /\ ~permits_work(l.state)
         /\ \A l \in ToSet(Ungated(lines)) : l \in ToSet(lines) /\ l.earliest_clear = None
<1>1. PICK T : T = {i \in DOMAIN lines : ~permits_work(lines[i].state)}
  OBVIOUS
<1>2. Blocking(lines) = At(lines, T)
  BY <1>1 DEF Blocking, Chosen, At
<1>3. PICK U : U = {i \in DOMAIN lines : lines[i].earliest_clear = None}
  OBVIOUS
<1>4. Ungated(lines) = At(lines, U)
  BY <1>3 DEF Ungated, Chosen, At
<1>5. ASSUME NEW l \in ToSet(Blocking(lines)) PROVE l \in ToSet(lines) /\ ~permits_work(l.state)
  <2>1. PICK i \in T \cap DOMAIN lines : l = lines[i]
    BY <1>2, Picked
  <2> QED
    BY <1>1, <2>1 DEF ToSet
<1>6. ASSUME NEW l \in ToSet(Ungated(lines)) PROVE l \in ToSet(lines) /\ l.earliest_clear = None
  <2>1. PICK i \in U \cap DOMAIN lines : l = lines[i]
    BY <1>4, Picked
  <2> QED
    BY <1>3, <2>1 DEF ToSet
<1>7. IsSeq(Blocking(lines)) /\ IsSeq(Ungated(lines))
  BY <1>2, <1>4, Picked
<1> QED
  BY <1>5, <1>6, <1>7

LEMMA HoldsAre ==
  ASSUME NEW decision, IsSeq(decision.trace)
  PROVE  IsSeq(holds_of(decision)) /\ ToSet(holds_of(decision)) \subseteq ToSet(decision.trace)
<1>1. PICK t : t = decision.trace
  OBVIOUS
<1> DEFINE Key(i) == <<t[i].code, t[i].source, t[i].hazard>>
           F(i) == \A j \in 1 .. i - 1 : Key(j) # Key(i)
<1>2. PICK T : T = {i \in DOMAIN t : F(i)}
  OBVIOUS
<1>3. holds_of(decision) = At(t, T)
  <2>1. holds_of(decision) = FlattenSeq([i \in DOMAIN t |-> IF F(i) THEN <<t[i]>> ELSE <<>>])
    BY <1>1 DEF holds_of
  <2>2. [i \in DOMAIN t |-> IF F(i) THEN <<t[i]>> ELSE <<>>] = [i \in DOMAIN t |-> IF i \in T THEN <<t[i]>> ELSE <<>>]
    <3> HIDE DEF F
    <3> QED
      BY <1>2
  <2> HIDE DEF F
  <2> QED
    BY <2>1, <2>2 DEF At
<1> HIDE DEF F
<1>4. IsSeq(At(t, T)) /\ \A x \in ToSet(At(t, T)) : \E i \in T \cap DOMAIN t : x = t[i]
  BY <1>1, Picked
<1> QED
  BY <1>1, <1>3, <1>4 DEF ToSet

LEMMA Surfacing ==
  ASSUME NEW w, IsReading(w), NEW t \in Int, NEW u, NEW N, Remains(u, w, t, N), NEW s
  PROVE  /\ Surfaces(w, s, t, Blocking(Trace(u, s))) /\ Surfaces(w, s, t, Blocking(holds_of(evaluate(u, s))))
<1>1. /\ IsReading(u) /\ u.graph = w.graph /\ u.rules = w.rules /\ u.at = t
      /\ \A h \in ToSet(u.hazards) : h \in ToSet(w.hazards)
  BY DEF Remains
<1>2. IsSeq(u.graph) /\ IsSeq(u.rules) /\ IsSeq(u.hazards)
  BY <1>1 DEF IsReading, IsWorld
<1>3. PICK v : v = Then(w, t)
  OBVIOUS
<1>4. v.at = t /\ v.graph = w.graph /\ v.rules = w.rules /\ v.hazards = w.hazards
  BY <1>3, ThenIs
<1>5. IsSeq(Trace(u, s))
  BY <1>2, TraceHolds
<1>6. ASSUME NEW l \in ToSet(Trace(u, s)), ~permits_work(l.state)
      PROVE  \E x \in Pairings(w) : /\ Bars(v, s, x) /\ HazardOf(w, x) = <<l.source, l.hazard>>
                                    /\ l.earliest_clear = ClockOf(v, x)
  <2>1. PICK i \in DOMAIN u.hazards, j \in DOMAIN u.rules : l \in ToSet(Lines(u, u.hazards[i], u.rules[j], s))
    BY <1>2, <1>6, TraceHolds
  <2>2. PICK h, rule : h = u.hazards[i] /\ rule = u.rules[j]
    OBVIOUS
  <2>3. l \in ToSet(Lines(u, h, rule, s))
    BY <2>1, <2>2
  <2>4. Lines(u, h, rule, s) # <<>>
    BY <2>3 DEF ToSet
  <2>5. l.state = rule.state /\ l.earliest_clear = hold_clock(h, rule, u.at)
    BY <1>2, <2>3, LinesType
  <2>6. l.source = h.origin /\ l.hazard = h.label
    BY <2>3, LineNames
  <2>7. h \in ToSet(u.hazards)
    BY <2>2 DEF ToSet
  <2>8. PICK k \in DOMAIN w.hazards : h = w.hazards[k]
    BY <1>1, <2>7 DEF ToSet
  <2>9. PICK x : x = <<k, j>>
    OBVIOUS
  <2>10. x \in Pairings(w) /\ x[1] = k /\ x[2] = j
    BY <1>1, <2>9 DEF Pairings
  <2>11. Lines(v, h, rule, s) = Lines(u, h, rule, s)
    BY <1>1, <1>4, SameLines
  <2>12. Bars(v, s, x)
    BY <1>1, <1>4, <1>6, <2>2, <2>4, <2>5, <2>8, <2>10, <2>11 DEF Bars
  <2>13. ClockOf(v, x) = hold_clock(h, rule, t)
    BY <1>1, <1>4, <2>2, <2>8, <2>10 DEF ClockOf
  <2>14. HazardOf(w, x) = <<l.source, l.hazard>>
    BY <2>6, <2>8, <2>10 DEF HazardOf
  <2> QED
    BY <1>1, <2>5, <2>10, <2>12, <2>13, <2>14
<1>7. Surfaces(w, s, t, Blocking(Trace(u, s)))
  <2>1. IsSeq(Blocking(Trace(u, s))) /\ \A l \in ToSet(Blocking(Trace(u, s))) : l \in ToSet(Trace(u, s)) /\ ~permits_work(l.state)
    BY <1>5, Sifted
  <2> QED
    BY <1>3, <1>6, <2>1 DEF Surfaces
<1>8. Surfaces(w, s, t, Blocking(holds_of(evaluate(u, s))))
  <2>1. PICK holds : holds = holds_of(evaluate(u, s))
    OBVIOUS
  <2>2. IsSeq(holds) /\ ToSet(holds) \subseteq ToSet(Trace(u, s))
    <3>1. evaluate(u, s).trace = Trace(u, s)
      BY DEF evaluate, Decided
    <3> QED
      BY <1>5, <2>1, <3>1, HoldsAre
  <2>3. IsSeq(Blocking(holds)) /\ \A l \in ToSet(Blocking(holds)) : l \in ToSet(Trace(u, s)) /\ ~permits_work(l.state)
    BY <2>2, Sifted
  <2> QED
    BY <1>3, <1>6, <2>1, <2>3 DEF Surfaces
<1> QED
  BY <1>7, <1>8

(* What a plan that grows is known for: its wait answers a hold that runs  *)
(* out, and each discharge one that does not.                              *)
UpTo(w, p) == IF p.wait = None THEN w.at ELSE p.wait

Endless(w, s, t, name) ==
  \E x \in Pairings(w) :
    /\ ClockOf(w, x) = None /\ HazardOf(w, x) = name
    /\ \E u \in Int : w.at <= u /\ u <= t /\ Bars(Then(w, u), s, x)

OnAClock(w, s) == \E x \in Pairings(w) : ClockOf(w, x) # None /\ Bars(Then(w, w.at), s, x)

Growing(w, s, p) ==
  /\ p = [wait |-> p.wait, discharges |-> p.discharges, pc |-> p.pc]
  /\ p.wait = None \/ (p.wait \in Int /\ w.at < p.wait)
  /\ Orders(p.discharges)
  /\ NoEnds(w) => /\ \A d \in ToSet(p.discharges) : Endless(w, s, UpTo(w, p), NameOf(d))
                  /\ p.wait # None => OnAClock(w, s)

(* The latest of a plan's wait and the clocks that run.                    *)
ClocksOn(lines) == {line.earliest_clear : line \in ToSet(lines)}

LEMMA LatestWait ==
  ASSUME NEW lines, IsSeq(lines), NEW wait,
         wait = None \/ wait \in Int,
         \A l \in ToSet(lines) : l.earliest_clear = None \/ l.earliest_clear \in Int,
         NEW next, next = LatestOf((ClocksOn(lines) \cup {wait}) \ {None})
  PROVE  /\ next = None => wait = None
         /\ next # None => /\ next \in Int
                           /\ next = wait \/ \E l \in ToSet(lines) : l.earliest_clear = next
         /\ wait # None => next # None /\ wait <= next
<1>1. PICK clock_of : clock_of = [l \in ToSet(lines) |-> l.earliest_clear]
  OBVIOUS
<1>2. PICK clocks : clocks = {clock_of[l] : l \in DOMAIN clock_of}
  OBVIOUS
<1>3. clocks = ClocksOn(lines)
  BY <1>1, <1>2 DEF ClocksOn
<1>4. IsFiniteSet(ToSet(lines))
  <2>1. DOMAIN lines = 1 .. Len(lines) /\ Len(lines) \in Nat
    BY Places
  <2>2. IsFiniteSet(DOMAIN lines)
    BY <2>1, FS_Interval
  <2> QED
    BY <2>2, FiniteImage DEF ToSet
<1>5. IsFiniteSet(clocks)
  <2>1. IsFiniteSet(DOMAIN clock_of)
    BY <1>1, <1>4
  <2> QED
    BY <1>2, <2>1, FiniteImage
<1>6. PICK S : S = (clocks \cup {wait}) \ {None}
  OBVIOUS
<1>7. IsFiniteSet(S)
  <2>1. IsFiniteSet(clocks \cup {wait})
    BY <1>5, FS_AddElement
  <2> QED
    BY <1>6, <2>1, FS_Subset
<1>8. S \subseteq Int
  BY <1>1, <1>2, <1>6
<1>9. next = LatestOf(S)
  BY <1>3, <1>6
<1>10. CASE S = {}
  BY <1>6, <1>9, <1>10 DEF LatestOf
<1>11. CASE S # {}
  <2>1. next = Max(S)
    BY <1>9, <1>11 DEF LatestOf
  <2>2. next \in S /\ \A x \in S : x <= next
    BY <1>7, <1>8, <1>11, <2>1, Greatest
  <2>3. next = wait \/ next \in clocks
    BY <1>6, <2>2
  <2> QED
    BY <1>1, <1>2, <1>6, <1>8, <2>2, <2>3
<1> QED
  BY <1>10, <1>11

LEMMA GrowsKeeps ==
  ASSUME NEW w, IsReading(w), NEW s, NEW p, Growing(w, s, p),
         NEW lines, Surfaces(w, s, UpTo(w, p), lines)
  PROVE  Growing(w, s, Grows(p, lines)) /\ Grows(p, lines).pc = p.pc
<1>1. PICK t : t = UpTo(w, p)
  OBVIOUS
<1>2. t \in Int /\ w.at <= t /\ w.at \in Int
  BY <1>1 DEF UpTo, Growing, IsReading
<1>3. PICK next : next = LatestOf(({line.earliest_clear : line \in ToSet(lines)} \cup {p.wait}) \ {None})
  OBVIOUS
<1>4. PICK found : found = Discharged(p.discharges, Ungated(lines))
  OBVIOUS
<1>5. PICK wait, ds, pc : wait = p.wait /\ ds = p.discharges /\ pc = p.pc /\ p = [wait |-> wait, discharges |-> ds, pc |-> pc]
  BY DEF Growing
<1>6. PICK q : q = Grows(p, lines)
  OBVIOUS
<1>7. q = [wait |-> next, discharges |-> found, pc |-> pc]
  BY <1>3, <1>4, <1>5, <1>6 DEF Grows
<1>8. q.wait = next /\ q.discharges = found /\ q.pc = pc
  BY <1>7
<1>9. IsSeq(lines) /\ \A l \in ToSet(lines) :
         \E x \in Pairings(w) : /\ Bars(Then(w, t), s, x) /\ HazardOf(w, x) = <<l.source, l.hazard>>
                                /\ l.earliest_clear = ClockOf(Then(w, t), x)
  BY <1>1 DEF Surfaces
<1>10. \A l \in ToSet(lines) : l.earliest_clear = None \/ (l.earliest_clear \in Int /\ t < l.earliest_clear)
  BY <1>2, ThenIs, <1>9, AheadOf DEF IsReading
<1>11. /\ next = None => wait = None
       /\ next # None => /\ next \in Int
                         /\ next = wait \/ \E l \in ToSet(lines) : l.earliest_clear = next
       /\ wait # None => next # None /\ wait <= next
  <2>1. next = LatestOf((ClocksOn(lines) \cup {wait}) \ {None})
    BY <1>3, <1>5 DEF ClocksOn
  <2>2. wait = None \/ wait \in Int
    BY <1>5 DEF Growing
  <2>3. IsSeq(lines) /\ \A l \in ToSet(lines) : l.earliest_clear = None \/ l.earliest_clear \in Int
    BY <1>9, <1>10
  <2> QED
    BY <2>1, <2>2, <2>3, LatestWait
<1>12. next = None \/ (next \in Int /\ w.at < next)
  BY <1>2, <1>5, <1>10, <1>11 DEF Growing
<1>13. t <= UpTo(w, q)
  BY <1>1, <1>2, <1>5, <1>8, <1>11, <1>12 DEF UpTo
<1>14. IsSeq(Ungated(lines)) /\ \A l \in ToSet(Ungated(lines)) : l \in ToSet(lines) /\ l.earliest_clear = None
  BY <1>9, Sifted
<1>15. /\ Orders(found)
       /\ \A d \in ToSet(found) :
            d \in ToSet(ds) \/ \E l \in ToSet(Ungated(lines)) : NameOf(d) = <<l.source, l.hazard>>
  BY <1>4, <1>5, <1>14, AllDischarges DEF Growing
<1>16. UpTo(w, q) \in Int
  BY <1>2, <1>8, <1>12 DEF UpTo
<1>17. ASSUME NoEnds(w), NEW d \in ToSet(found) PROVE Endless(w, s, UpTo(w, q), NameOf(d))
  <2>1. CASE d \in ToSet(ds)
    <3>1. Endless(w, s, t, NameOf(d))
      BY <1>1, <1>5, <1>17, <2>1 DEF Growing
    <3>2. PICK x \in Pairings(w) : /\ ClockOf(w, x) = None /\ HazardOf(w, x) = NameOf(d)
                                   /\ \E u \in Int : w.at <= u /\ u <= t /\ Bars(Then(w, u), s, x)
      BY <3>1 DEF Endless
    <3>3. PICK u \in Int : w.at <= u /\ u <= t /\ Bars(Then(w, u), s, x)
      BY <3>2
    <3>4. u <= UpTo(w, q)
      BY <1>2, <1>13, <1>16, <3>3
    <3> QED
      BY <3>2, <3>3, <3>4 DEF Endless
  <2>2. CASE \E l \in ToSet(Ungated(lines)) : NameOf(d) = <<l.source, l.hazard>>
    <3>1. PICK l \in ToSet(lines) : l.earliest_clear = None /\ NameOf(d) = <<l.source, l.hazard>>
      BY <1>14, <2>2
    <3>2. PICK x \in Pairings(w) : /\ Bars(Then(w, t), s, x) /\ HazardOf(w, x) = <<l.source, l.hazard>>
                                   /\ l.earliest_clear = ClockOf(Then(w, t), x)
      BY <1>9
    <3>3. ClockOf(w, x) = None
      BY <1>2, <1>17, <3>1, <3>2, SameClock
    <3> QED
      BY <1>2, <1>13, <3>1, <3>2, <3>3 DEF Endless
  <2> QED
    BY <1>15, <2>1, <2>2
<1>18. ASSUME NoEnds(w), next # None PROVE OnAClock(w, s)
  <2>1. CASE wait # None
    BY <1>5, <1>18, <2>1 DEF Growing
  <2>2. CASE wait = None
    BY <1>1, <1>5, <2>2, <1>11, <1>18, <1>9, <1>2, SameClock DEF UpTo, OnAClock
  <2> QED
    BY <2>1, <2>2
<1>19. Growing(w, s, q)
  BY <1>7, <1>8, <1>12, <1>15, <1>17, <1>18 DEF Growing
<1> QED
  BY <1>5, <1>6, <1>8, <1>19

(* The actions of a plan: a wait comes first, and a hazard is discharged   *)
(* once.                                                                   *)
LEMMA PlanIs ==
  ASSUME NEW w, IsReading(w), NEW s, NEW p, Growing(w, s, p), NEW q, q = PlanOf(p)
  PROVE  /\ IsPlan(q) /\ TimeOf(w, q, Len(q)) = UpTo(w, p)
         /\ \A i \in DOMAIN q : /\ q[i].kind = "discharge" => q[i] \in ToSet(p.discharges)
                                /\ q[i].kind = "wait" => i = 1 /\ p.wait # None
         /\ \A i, j \in DOMAIN q :
              q[i].kind = "discharge" /\ q[j].kind = "discharge" /\ NameOf(q[i]) = NameOf(q[j]) => i = j
<1>1. PICK ds, wait : ds = p.discharges /\ wait = p.wait
  OBVIOUS
<1>2. Orders(ds) /\ IsSeq(ds) /\ (wait = None \/ wait \in Int)
  BY <1>1 DEF Growing, Orders
<1>3. PICK m \in Nat : m = Len(ds) /\ DOMAIN ds = 1 .. m
  BY <1>2, Places
<1>4. /\ \A i \in 1 .. m : ds[i].kind = "discharge" /\ ds[i] \in ToSet(ds)
      /\ \A i, j \in 1 .. m : NameOf(ds[i]) = NameOf(ds[j]) => i = j
  BY <1>2, <1>3 DEF Orders, ToSet
<1>5. CASE wait = None
  <2>1. q = <<>> \o ds
    BY <1>1, <1>5 DEF PlanOf
  <2>2. ds \in Seq(ToSet(ds))
    BY <1>2 DEF IsSeq
  <2>3. q = ds
    BY <2>1, <2>2
  <2>4. IsPlan(q)
    BY <1>2, <1>3, <1>4, <2>3 DEF IsPlan
  <2>5. TimeOf(w, q, Len(q)) = UpTo(w, p)
    <3>1. m > 0 => q[1].kind # "wait"
      BY <1>4, <2>3
    <3> QED
      BY <1>1, <1>3, <1>5, <2>3, <3>1 DEF TimeOf, UpTo
  <2> QED
    BY <1>1, <1>3, <1>4, <2>3, <2>4, <2>5
<1>6. CASE wait # None
  <2>1. PICK a : a = Wait(wait)
    OBVIOUS
  <2>2. a.kind = "wait" /\ a.until = wait /\ wait \in Int
    BY <1>2, <1>6, <2>1 DEF Wait
  <2>3. q = <<a>> \o ds
    BY <1>1, <1>6, <2>1 DEF PlanOf
  <2>4. ds \in Seq(ToSet(ds) \cup {a}) /\ <<a>> \in Seq(ToSet(ds) \cup {a})
    <3>1. ds \in Seq(ToSet(ds))
      BY <1>2 DEF IsSeq
    <3> QED
      BY <3>1
  <2>5. /\ q \in Seq(ToSet(ds) \cup {a}) /\ Len(q) = m + 1 /\ DOMAIN q = 1 .. m + 1
        /\ q[1] = a /\ \A i \in 2 .. m + 1 : q[i] = ds[i - 1]
    BY <1>3, <2>3, <2>4
  <2>6. \A i \in DOMAIN q : i = 1 \/ (i \in 2 .. m + 1 /\ i - 1 \in 1 .. m)
    BY <2>5
  <2>7. IsSeq(q)
    <3>1. \A i \in DOMAIN q : q[i] \in ToSet(q)
      BY DEF ToSet
    <3>2. q \in Seq(ToSet(q))
      BY <2>5, <3>1
    <3> QED
      BY <3>2 DEF IsSeq
  <2>8. \A i \in DOMAIN q : i # 1 => q[i].kind = "discharge" /\ q[i] \in ToSet(ds)
    BY <1>4, <2>5, <2>6
  <2>9. IsPlan(q)
    BY <2>2, <2>5, <2>7, <2>8 DEF IsPlan
  <2>10. TimeOf(w, q, Len(q)) = UpTo(w, p)
    BY <1>1, <1>6, <2>2, <2>5 DEF TimeOf, UpTo
  <2>11. ASSUME NEW i \in DOMAIN q, NEW j \in DOMAIN q,
                q[i].kind = "discharge", q[j].kind = "discharge", NameOf(q[i]) = NameOf(q[j])
         PROVE  i = j
    <3>1. i # 1 /\ j # 1
      BY <2>2, <2>5, <2>11
    <3>2. i - 1 \in 1 .. m /\ j - 1 \in 1 .. m /\ q[i] = ds[i - 1] /\ q[j] = ds[j - 1]
      BY <2>5, <2>6, <3>1
    <3>3. i - 1 = j - 1
      BY <1>4, <2>11, <3>2
    <3> QED
      BY <2>5, <3>3
  <2> QED
    BY <1>1, <1>6, <2>2, <2>5, <2>8, <2>9, <2>10, <2>11
<1> QED
  BY <1>5, <1>6

(* A pass knows as much as the one before it, and looks before it opens.   *)
Opens(w, s, p) == p.pc = "opens" => Permits(variant_for(w, PlanOf(p)), s)

LEMMA PassKeeps ==
  ASSUME NEW w, IsReading(w), NEW s, NEW p, Growing(w, s, p), Opens(w, s, p)
  PROVE  Growing(w, s, GrowPass(w, s, p)) /\ Opens(w, s, GrowPass(w, s, p))
<1>1. PICK q : q = PlanOf(p)
  OBVIOUS
<1>2. PICK u : u = variant_for(w, q)
  OBVIOUS
<1>3. PICK t, N : t = UpTo(w, p) /\ N = NamesIn(q, Len(q))
  OBVIOUS
<1>4. IsPlan(q) /\ TimeOf(w, q, Len(q)) = t
  BY <1>1, <1>3, PlanIs
<1>5. Remains(u, w, t, N) /\ t \in Int
  BY <1>2, <1>3, <1>4, PlanWorld
<1>6. IsReading(u)
  BY <1>5 DEF Remains
<1>7. PICK after : after = evaluate(u, s)
  OBVIOUS
<1>8. permits_work(after.state) <=> Permits(u, s)
  <2>1. \A j \in DOMAIN u.rules : u.rules[j].state \in States
    BY <1>6 DEF IsReading, IsWorld, ToSet
  <2> QED
    BY <1>6, <1>7, <2>1, PermitsExact DEF IsReading, IsWorld
<1>9. PICK lines : lines = Blocking(after.trace)
  OBVIOUS
<1>10. Surfaces(w, s, t, lines)
  <2>1. after.trace = Trace(u, s)
    BY <1>7 DEF evaluate, Decided
  <2> QED
    BY <1>5, <1>9, <2>1, Surfacing
<1>11. PICK wait, ds, pc : wait = p.wait /\ ds = p.discharges /\ pc = p.pc /\ p = [wait |-> wait, discharges |-> ds, pc |-> pc]
  BY DEF Growing
<1>12. ASSUME NEW c, NEW r, r = [p EXCEPT !.pc = c]
       PROVE  Growing(w, s, r) /\ r.pc = c /\ PlanOf(r) = q
  BY <1>11, <1>12, <1>1 DEF UpTo, PlanOf, Growing
<1>13. CASE p.pc # "grow"
  BY <1>13 DEF GrowPass
<1>14. CASE p.pc = "grow"
  <2>1. GrowPass(w, s, p) = Grown(p, after)
    BY <1>1, <1>2, <1>7, <1>14 DEF GrowPass
  <2>2. CASE permits_work(after.state)
    BY <2>1, <2>2, <1>12, <1>2, <1>8 DEF Grown, Opens
  <2>3. CASE ~permits_work(after.state)
    <3>1. PICK more : more = Grows(p, lines)
      OBVIOUS
    <3>2. GrowPass(w, s, p) = OrStuck(p, more)
      BY <1>9, <2>1, <2>3, <3>1 DEF Grown
    <3>3. Growing(w, s, more) /\ more.pc = "grow"
      BY <1>3, <1>10, <1>14, <3>1, GrowsKeeps
    <3>4. CASE more = p
      <4>1. PICK r : r = [p EXCEPT !.pc = "stuck"]
        OBVIOUS
      <4>2. GrowPass(w, s, p) = r
        BY <3>2, <3>4, <4>1 DEF OrStuck
      <4>3. Growing(w, s, r) /\ r.pc = "stuck"
        BY <1>12, <4>1
      <4> QED
        BY <4>2, <4>3 DEF Opens
    <3>5. CASE more # p
      <4>1. GrowPass(w, s, p) = more
        BY <3>2, <3>5 DEF OrStuck
      <4> QED
        BY <3>3, <4>1 DEF Opens
    <3> QED
      BY <3>4, <3>5
  <2> QED
    BY <2>2, <2>3
<1> QED
  BY <1>13, <1>14

LEMMA FirstPlan ==
  ASSUME NEW w, IsReading(w), NEW s, NEW holds, holds = holds_of(evaluate(w, s))
  PROVE  LET p == Grows(NoPlan, Blocking(holds)) IN Growing(w, s, p) /\ Opens(w, s, p)
<1>1. NoPlan.wait = None /\ NoPlan.discharges = <<>> /\ NoPlan.pc = "grow"
  BY DEF NoPlan
<1>2. Growing(w, s, NoPlan)
  BY <1>1 DEF Orders, IsSeq, ToSet, NoPlan, Growing
<1>3. UpTo(w, NoPlan) = w.at /\ w.at \in Int
  BY <1>1 DEF UpTo, IsReading
<1>4. Remains(w, w, w.at, {})
  BY DEF Remains
<1>5. Surfaces(w, s, w.at, Blocking(holds))
  BY <1>3, <1>4, Surfacing
<1>6. PICK lines : lines = Blocking(holds)
  OBVIOUS
<1>7. Growing(w, s, Grows(NoPlan, lines)) /\ Grows(NoPlan, lines).pc = "grow"
  BY <1>1, <1>2, <1>3, <1>5, <1>6, GrowsKeeps
<1> QED
  BY <1>6, <1>7 DEF Opens

IsGrown(f, w, s, first) == f = [n \in 0 .. SettleCap |-> IF n = 0 THEN first ELSE GrowPass(w, s, f[n - 1])]

LEMMA PlansFound ==
  ASSUME NEW w, IsReading(w), NEW s, NEW holds, holds = holds_of(evaluate(w, s)),
         NEW q, q = combined_plan(w, s, holds), q # <<>>
  PROVE  \E p : Growing(w, s, p) /\ Permits(variant_for(w, q), s) /\ q = PlanOf(p)
<1>1. PICK m \in Nat : m = SettleCap
  BY SettleAssumption
<1>2. PICK first : first = Grows(NoPlan, Blocking(holds))
  OBVIOUS
<1>3. \E f : IsGrown(f, w, s, first)
  <2> DEFINE Chain(k, f) == /\ f = [n \in 0 .. k |-> f[n]] /\ f[0] = first
                            /\ \A n \in 1 .. k : f[n] = GrowPass(w, s, f[n - 1])
  <2>1. PICK P : P = {k \in 0 .. m : \E f : Chain(k, f)}
    OBVIOUS
  <2>2. 0 \in P
    <3>1. PICK f : f = [n \in 0 .. 0 |-> first]
      OBVIOUS
    <3>2. Chain(0, f)
      BY <3>1
    <3> QED
      BY <2>1, <3>2
  <2>3. ASSUME NEW k \in 1 .. m, k - 1 \in P PROVE k \in P
    <3>1. PICK f : Chain(k - 1, f)
      BY <2>1, <2>3
    <3>2. PICK x : x = GrowPass(w, s, f[k - 1])
      OBVIOUS
    <3>3. PICK g : g = [n \in 0 .. k |-> IF n = k THEN x ELSE f[n]]
      OBVIOUS
    <3>4. DOMAIN g = 0 .. k /\ g = [n \in 0 .. k |-> g[n]]
      BY <3>3
    <3>5. g[k] = x /\ \A n \in 0 .. k - 1 : g[n] = f[n]
      BY <3>3
    <3>6. g[0] = first
      BY <3>1, <3>5
    <3>7. ASSUME NEW n \in 1 .. k PROVE g[n] = GrowPass(w, s, g[n - 1])
      <4>1. n - 1 \in 0 .. k - 1 /\ g[n - 1] = f[n - 1]
        BY <3>5
      <4>2. CASE n = k
        BY <3>2, <3>5, <4>1, <4>2
      <4>3. CASE n # k
        <5>1. n \in 1 .. k - 1 /\ g[n] = f[n]
          BY <3>5, <4>3
        <5> QED
          BY <3>1, <4>1, <5>1
      <4> QED
        BY <4>2, <4>3
    <3>8. Chain(k, g)
      BY <3>4, <3>6, <3>7
    <3> HIDE DEF Chain
    <3> QED
      BY <2>1, <3>8
  <2>4. m \in P
    <3> HIDE DEF Chain
    <3>1. \A n \in 0 .. m : n \in P
      BY <2>2, <2>3, Climb
    <3> QED
      BY <3>1
  <2>5. PICK f : Chain(m, f)
    BY <2>1, <2>4
  <2>6. PICK k : k = [n \in 0 .. m |-> IF n = 0 THEN first ELSE GrowPass(w, s, f[n - 1])]
    OBVIOUS
  <2>7. \A n \in 0 .. m : f[n] = k[n]
    <3>1. ASSUME NEW n \in 0 .. m PROVE f[n] = k[n]
      <4>1. k[n] = IF n = 0 THEN first ELSE GrowPass(w, s, f[n - 1])
        BY <2>6
      <4>2. n = 0 \/ n \in 1 .. m
        OBVIOUS
      <4> QED
        BY <2>5, <4>1, <4>2
    <3> QED
      BY <3>1
  <2>8. f = k
    <3>1. k = [n \in 0 .. m |-> k[n]]
      BY <2>6
    <3> QED
      BY <2>5, <2>7, <3>1
  <2> QED
    BY <1>1, <2>6, <2>8 DEF IsGrown
<1>4. PICK grown : grown = CHOOSE f : IsGrown(f, w, s, first)
  OBVIOUS
<1>5. IsGrown(grown, w, s, first)
  BY <1>3, <1>4
<1>6. PICK k : k = [n \in 0 .. m |-> IF n = 0 THEN first ELSE GrowPass(w, s, grown[n - 1])]
  OBVIOUS
<1>7. grown = k
  BY <1>1, <1>5, <1>6 DEF IsGrown
<1>8. k[0] = first /\ \A n \in 1 .. m : k[n] = GrowPass(w, s, grown[n - 1])
  BY <1>6
<1>9. PICK P : P = {n \in 0 .. m : Growing(w, s, grown[n]) /\ Opens(w, s, grown[n])}
  OBVIOUS
<1>10. 0 \in P
  BY <1>2, <1>7, <1>8, <1>9, FirstPlan
<1>11. ASSUME NEW n \in 1 .. m, n - 1 \in P PROVE n \in P
  <2>1. PICK p : p = grown[n - 1]
    OBVIOUS
  <2>2. Growing(w, s, p) /\ Opens(w, s, p) /\ grown[n] = GrowPass(w, s, p)
    BY <1>7, <1>8, <1>9, <1>11, <2>1
  <2> QED
    BY <1>9, <2>2, PassKeeps
<1>12. \A n \in 0 .. m : n \in P
  BY <1>10, <1>11, Climb
<1>13. PICK p : p = grown[m]
  OBVIOUS
<1>14. Growing(w, s, p) /\ Opens(w, s, p)
  BY <1>9, <1>12, <1>13
<1>15. q = IF Len(Blocking(holds)) < 2 THEN <<>> ELSE PlanThatOpens(p)
  BY <1>1, <1>2, <1>4, <1>13 DEF combined_plan, IsGrown
<1>16. q = PlanOf(p) /\ p.pc = "opens"
  BY <1>15 DEF PlanThatOpens
<1> QED
  BY <1>14, <1>16 DEF Opens

(* A line whose hazard a plan leaves alone keeps its space shut.           *)
LEMMA StillBarred ==
  ASSUME NEW w, IsReading(w), NEW t \in Int, NEW v, NEW N, Remains(v, w, t, N), NEW s,
         NEW x \in Pairings(w), Bars(Then(w, t), s, x), HazardOf(w, x) \notin N
  PROVE  ~Permits(v, s)
<1>1. PICK u : u = Then(w, t)
  OBVIOUS
<1>2. u.at = t /\ u.graph = w.graph /\ u.rules = w.rules /\ u.hazards = w.hazards
  BY <1>1, ThenIs
<1>3. PICK h, rule : h = w.hazards[x[1]] /\ rule = w.rules[x[2]]
  OBVIOUS
<1>4. h \in ToSet(w.hazards) /\ x[2] \in DOMAIN w.rules /\ <<h.origin, h.label>> \notin N
  BY <1>3 DEF Pairings, ToSet, HazardOf
<1>5. v.graph = w.graph /\ v.rules = w.rules /\ v.at = t /\ h \in ToSet(v.hazards)
  BY <1>4 DEF Remains
<1>6. PICK i \in DOMAIN v.hazards : h = v.hazards[i]
  BY <1>5 DEF ToSet
<1>7. ~permits_work(rule.state) /\ Lines(u, h, rule, s) # <<>>
  BY <1>1, <1>2, <1>3 DEF Bars
<1>8. Lines(v, h, rule, s) = Lines(u, h, rule, s)
  BY <1>2, <1>5, SameLines
<1> QED
  BY <1>3, <1>4, <1>5, <1>6, <1>7, <1>8 DEF Permits

LEMMA Without ==
  ASSUME NEW q, IsSeq(q), NEW i \in DOMAIN q, NEW r, r = RemoveAt(q, i)
  PROVE  /\ IsSeq(r) /\ Len(r) = Len(q) - 1
         /\ \A j \in DOMAIN r : /\ j \in Nat /\ j < i => j \in DOMAIN q /\ r[j] = q[j]
                                /\ ~(j < i) => j + 1 \in DOMAIN q /\ r[j] = q[j + 1]
<1>1. PICK m \in Nat : m = Len(q) /\ DOMAIN q = 1 .. m
  BY Places
<1>2. PICK E : E = ToSet(q) /\ q \in Seq(E)
  BY DEF IsSeq
<1>3. PICK a, b : a = SubSeq(q, 1, i - 1) /\ b = SubSeq(q, i + 1, m)
  OBVIOUS
<1>4. /\ a \in Seq(E) /\ Len(a) = i - 1 /\ \A j \in 1 .. i - 1 : a[j] = q[j]
      /\ b \in Seq(E) /\ Len(b) = m - i /\ \A j \in 1 .. m - i : b[j] = q[j + i]
  <2>1. i \in 1 .. m
    BY <1>1
  <2>2. \A j \in 1 .. m : q[j] \in E
    BY <1>1, <1>2
  <2>3. a = [j \in 1 .. i - 1 |-> q[j]]
    BY <1>3, <2>1
  <2>4. b = [j \in 1 .. m - i |-> q[j + i]]
    <3>1. SubSeq(q, i + 1, m) = [j \in 1 .. (1 + m - (i + 1)) |-> q[(i + 1) + j - 1]]
      BY <2>1, <1>1
    <3> QED
      BY <1>3, <2>1, <3>1
  <2>5. \A j \in 1 .. i - 1 : j \in 1 .. m
    BY <2>1
  <2>6. \A j \in 1 .. m - i : j + i \in 1 .. m
    BY <2>1
  <2>7. PICK k, l \in Nat : k = i - 1 /\ l = m - i
    BY <2>1
  <2>8. a = [j \in 1 .. k |-> q[j]] /\ \A j \in 1 .. k : q[j] \in E
    BY <2>2, <2>3, <2>5, <2>7
  <2>9. a \in Seq(E) /\ Len(a) = k /\ \A j \in 1 .. k : a[j] = q[j]
    BY <2>8
  <2>10. b = [j \in 1 .. l |-> q[j + i]] /\ \A j \in 1 .. l : q[j + i] \in E
    BY <2>2, <2>4, <2>6, <2>7
  <2>11. b \in Seq(E) /\ Len(b) = l /\ \A j \in 1 .. l : b[j] = q[j + i]
    BY <2>10
  <2> QED
    BY <2>7, <2>9, <2>11
<1>5. r = a \o b
  BY <1>1, <1>3 DEF RemoveAt
<1>6. i \in 1 .. m
  BY <1>1
<1>7. r \in Seq(E) /\ Len(r) = m - 1 /\ DOMAIN r = 1 .. m - 1
  <2>1. a \in Seq(E) /\ b \in Seq(E) /\ Len(a) = i - 1 /\ Len(b) = m - i
    BY <1>4
  <2>2. a \o b \in Seq(E) /\ Len(a \o b) = Len(a) + Len(b)
    BY <2>1
  <2>3. Len(r) = m - 1
    BY <1>5, <1>6, <2>1, <2>2
  <2> QED
    BY <1>5, <2>2, <2>3
<1>8. \A j \in 1 .. m - 1 : r[j] = IF j <= i - 1 THEN a[j] ELSE b[j - (i - 1)]
  <2>1. a \in Seq(E) /\ b \in Seq(E) /\ Len(a) = i - 1 /\ Len(b) = m - i
    BY <1>4
  <2>2. Len(a) + Len(b) = m - 1 /\ i - 1 \in Nat /\ m - i \in Nat
    BY <1>6, <2>1
  <2>3. \A j \in 1 .. Len(a) + Len(b) : r[j] = IF j <= Len(a) THEN a[j] ELSE b[j - Len(a)]
    BY <1>5, <2>1, <2>2
  <2> QED
    BY <2>1, <2>2, <2>3
<1>9. IsSeq(r)
  <2>1. \A j \in 1 .. m - 1 : r[j] \in ToSet(r)
    BY <1>7 DEF ToSet
  <2>2. r \in Seq(ToSet(r))
    BY <1>7, <2>1
  <2> QED
    BY <2>2 DEF IsSeq
<1>10. ASSUME NEW j \in 1 .. m - 1
       PROVE  /\ j < i => j \in 1 .. m /\ r[j] = q[j]
              /\ ~(j < i) => j + 1 \in 1 .. m /\ r[j] = q[j + 1]
  <2>1. CASE j < i
    <3>1. j \in 1 .. i - 1 /\ j <= i - 1
      BY <1>6, <2>1
    <3> QED
      BY <1>4, <1>6, <1>8, <3>1
  <2>2. CASE ~(j < i)
    <3>1. j - (i - 1) \in 1 .. m - i /\ ~(j <= i - 1) /\ (j - (i - 1)) + i = j + 1
      BY <1>6, <2>2
    <3>2. r[j] = b[j - (i - 1)]
      BY <1>8, <3>1
    <3>3. b[j - (i - 1)] = q[(j - (i - 1)) + i]
      BY <1>4, <3>1
    <3> QED
      BY <1>6, <2>2, <3>1, <3>2, <3>3
  <2> QED
    BY <2>1, <2>2
<1> QED
  BY <1>1, <1>7, <1>9, <1>10

(* Each action of a plan answers a hold that no other one answers.         *)
LEMMA EachIsNeeded ==
  ASSUME NEW w, IsReading(w), NoEnds(w), NEW s, NEW p, Growing(w, s, p),
         NEW q, q = PlanOf(p), NEW i \in DOMAIN q
  PROVE  (q[i].kind = "wait" /\ HeldBothWays(w, s)) \/ ~Permits(variant_for(w, RemoveAt(q, i)), s)
<1>1. PICK r : r = RemoveAt(q, i)
  OBVIOUS
<1>2. /\ IsPlan(q) /\ TimeOf(w, q, Len(q)) = UpTo(w, p)
      /\ \A j \in DOMAIN q : /\ q[j].kind = "discharge" => q[j] \in ToSet(p.discharges)
                             /\ q[j].kind = "wait" => j = 1 /\ p.wait # None
      /\ \A j, k \in DOMAIN q :
           q[j].kind = "discharge" /\ q[k].kind = "discharge" /\ NameOf(q[j]) = NameOf(q[k]) => j = k
  BY PlanIs
<1>3. IsSeq(q)
  BY <1>2 DEF IsPlan
<1>4. PICK m \in Nat : m = Len(q) /\ DOMAIN q = 1 .. m
  BY <1>3, Places
<1>5. /\ IsSeq(r) /\ Len(r) = Len(q) - 1
      /\ \A j \in DOMAIN r : /\ j \in Nat /\ j < i => j \in DOMAIN q /\ r[j] = q[j]
                             /\ ~(j < i) => j + 1 \in DOMAIN q /\ r[j] = q[j + 1]
  BY <1>1, <1>3, Without
<1>6. DOMAIN r = 1 .. m - 1 /\ i \in 1 .. m /\ Len(r) = m - 1
  BY <1>4, <1>5, Places
<1>7. \A j \in DOMAIN r : \E k \in DOMAIN q : r[j] = q[k] /\ k # i /\ (k = j \/ k = j + 1) /\ (k = 1 => j = 1)
  <2>1. SUFFICES ASSUME NEW j \in DOMAIN r
                 PROVE  \E k \in DOMAIN q : r[j] = q[k] /\ k # i /\ (k = j \/ k = j + 1) /\ (k = 1 => j = 1)
    OBVIOUS
  <2>2. j \in Nat /\ j >= 1
    BY <1>6
  <2>3. CASE j < i
    BY <1>4, <1>5, <1>6, <2>2, <2>3
  <2>4. CASE ~(j < i)
    <3>1. j + 1 \in DOMAIN q /\ r[j] = q[j + 1] /\ j + 1 # i /\ j + 1 # 1
      BY <1>4, <1>5, <1>6, <2>2, <2>4
    <3> QED
      BY <3>1
  <2> QED
    BY <2>3, <2>4
<1>8. IsPlan(r)
  <2>1. SUFFICES ASSUME NEW j \in DOMAIN r
                 PROVE  r[j].kind = "discharge" \/ (j = 1 /\ r[j].kind = "wait" /\ r[j].until \in Int)
    BY <1>5 DEF IsPlan
  <2>2. PICK k \in DOMAIN q : r[j] = q[k] /\ (k = 1 => j = 1)
    BY <1>7
  <2>3. q[k].kind = "discharge" \/ (k = 1 /\ q[k].kind = "wait" /\ q[k].until \in Int)
    BY <1>2 DEF IsPlan
  <2> QED
    BY <2>2, <2>3
<1>9. PICK v : v = variant_for(w, r)
  OBVIOUS
<1>10. PICK t, N : t = TimeOf(w, r, Len(r)) /\ N = NamesIn(r, Len(r))
  OBVIOUS
<1>11. Remains(v, w, t, N) /\ t \in Int
  BY <1>8, <1>9, <1>10, PlanWorld
<1>12. \A name \in N : \E k \in DOMAIN q : k # i /\ q[k].kind = "discharge" /\ NameOf(q[k]) = name
  BY <1>10, <1>6, <1>7 DEF NamesIn, NameOf
<1>13. w.at \in Int /\ UpTo(w, p) \in Int /\ w.at <= UpTo(w, p)
  BY DEF Growing, UpTo, IsReading
<1>14. q[i].kind = "discharge" \/ (i = 1 /\ q[i].kind = "wait" /\ q[i].until \in Int)
  BY <1>2 DEF IsPlan
<1>15. CASE q[i].kind = "discharge"
  <2>1. t = UpTo(w, p)
    <3>1. CASE i = 1
      <4>1. \A j \in DOMAIN q : q[j].kind # "wait"
        BY <1>2, <1>15, <3>1
      <4>2. \A j \in DOMAIN r : r[j].kind # "wait"
        BY <1>7, <4>1
      <4>3. Len(r) > 0 => 1 \in DOMAIN r
        BY <1>6
      <4>4. t = w.at
        BY <1>10, <4>2, <4>3 DEF TimeOf
      <4>5. TimeOf(w, q, Len(q)) = w.at
        BY <1>15, <3>1 DEF TimeOf
      <4> QED
        BY <1>2, <4>4, <4>5
    <3>2. CASE i # 1
      BY <1>6, <3>2, <1>5, <1>4, <1>2, <1>10 DEF TimeOf
    <3> QED
      BY <3>1, <3>2
  <2>2. Endless(w, s, t, NameOf(q[i]))
    BY <1>2, <1>15, <2>1 DEF Growing
  <2>3. PICK x \in Pairings(w) : /\ ClockOf(w, x) = None /\ HazardOf(w, x) = NameOf(q[i])
                                 /\ \E u \in Int : w.at <= u /\ u <= t /\ Bars(Then(w, u), s, x)
    BY <2>2 DEF Endless
  <2>4. PICK u \in Int : w.at <= u /\ u <= t /\ Bars(Then(w, u), s, x)
    BY <2>3
  <2>5. Bars(Then(w, t), s, x)
    <3>1. PICK z : z = Then(w, u)
      OBVIOUS
    <3>2. /\ IsReading(z) /\ z.at = u /\ z.hazards = w.hazards /\ Pairings(z) = Pairings(w)
          /\ Then(z, t) = Then(w, t)
      BY <1>11, <3>1, ThenIs
    <3>3. NoEnds(z)
      <4>1. SUFFICES ASSUME NEW h \in ToSet(w.hazards) PROVE h.ended = None \/ h.ended <= u
        BY <3>2 DEF NoEnds
      <4>2. h.ended = None \/ h.ended <= w.at
        BY DEF NoEnds
      <4>3. h.ended = None \/ h.ended \in Int
        BY DEF IsReading, IsWorld
      <4> QED
        BY <1>13, <2>4, <4>2, <4>3
    <3>4. ClockOf(z, x) = None
      BY <2>3, <2>4, <3>1, SameClock
    <3>5. Bars(Then(z, t), s, x)
      BY <1>11, <2>4, <3>1, <3>2, <3>3, <3>4, Stands
    <3> QED
      BY <3>2, <3>5
  <2>6. HazardOf(w, x) \notin N
    BY <1>2, <1>12, <1>15, <2>3
  <2> QED
    BY <1>1, <1>9, <1>11, <2>5, <2>6, StillBarred
<1>16. CASE i = 1 /\ q[i].kind = "wait"
  <2>1. p.wait # None
    BY <1>2, <1>16
  <2>2. t = w.at
    <3>1. \A j \in DOMAIN r : r[j].kind # "wait"
      BY <1>2, <1>7, <1>16
    <3>2. Len(r) > 0 => 1 \in DOMAIN r
      BY <1>6
    <3> QED
      BY <1>10, <3>1, <3>2 DEF TimeOf
  <2>3. PICK x \in Pairings(w) : ClockOf(w, x) # None /\ Bars(Then(w, w.at), s, x)
    BY <2>1 DEF Growing, OnAClock
  <2>4. CASE HazardOf(w, x) \notin N
    BY <1>1, <1>9, <1>11, <2>2, <2>3, <2>4, StillBarred
  <2>5. CASE HazardOf(w, x) \in N
    <3>1. PICK k \in DOMAIN q : q[k].kind = "discharge" /\ NameOf(q[k]) = HazardOf(w, x)
      BY <1>12, <2>5
    <3>2. Endless(w, s, UpTo(w, p), HazardOf(w, x))
      BY <1>2, <3>1 DEF Growing
    <3>3. PICK y \in Pairings(w) : /\ ClockOf(w, y) = None /\ HazardOf(w, y) = HazardOf(w, x)
                                   /\ \E u \in Int : w.at <= u /\ u <= UpTo(w, p) /\ Bars(Then(w, u), s, y)
      BY <3>2 DEF Endless
    <3>4. PICK u \in Int : Bars(Then(w, u), s, y)
      BY <3>3
    <3>5. ASSUME NEW z \in Pairings(w), NEW a \in Int, Bars(Then(w, a), s, z)
          PROVE  z[1] \in DOMAIN w.hazards /\ z[2] \in DOMAIN w.rules /\ Refusing(w, z[1], z[2], s)
      <4>1. z[1] \in DOMAIN w.hazards /\ z[2] \in DOMAIN w.rules
        BY DEF Pairings
      <4>2. PICK b : b = Then(w, a)
        OBVIOUS
      <4>3. b.graph = w.graph /\ b.rules = w.rules /\ b.hazards = w.hazards /\ IsReading(b)
        BY <4>2, ThenIs
      <4>4. PICK h, rule : h = w.hazards[z[1]] /\ rule = w.rules[z[2]]
        OBVIOUS
      <4>5. ~permits_work(rule.state) /\ Lines(b, h, rule, s) # <<>>
        BY <3>5, <4>2, <4>3, <4>4 DEF Bars
      <4>6. rule.hazard = h.kind /\ PathsTo(b, h, rule, s) # <<>>
        BY <4>3, <4>5, LinesType DEF IsReading, IsWorld, Speaks
      <4>7. PathsTo(b, h, rule, s) = PathsTo(w, h, rule, s)
        BY <4>3 DEF PathsTo
      <4> QED
        BY <4>1, <4>4, <4>5, <4>6, <4>7 DEF Refusing
    <3>6. x[1] \in DOMAIN w.hazards /\ x[2] \in DOMAIN w.rules /\ Refusing(w, x[1], x[2], s)
      BY <1>13, <2>3, <3>5
    <3>7. y[1] \in DOMAIN w.hazards /\ y[2] \in DOMAIN w.rules /\ Refusing(w, y[1], y[2], s)
      BY <3>4, <3>5
    <3>8. w.hazards[y[1]].origin = w.hazards[x[1]].origin /\ w.hazards[y[1]].label = w.hazards[x[1]].label
      BY <3>3 DEF HazardOf
    <3>9. HeldBothWays(w, s)
      BY <2>3, <3>3, <3>6, <3>7, <3>8 DEF HeldBothWays, ClockOf
    <3> QED
      BY <1>16, <3>9
  <2> QED
    BY <2>4, <2>5
<1> QED
  BY <1>14, <1>15, <1>16

LEMMA PlanServed ==
  ASSUME NEW w, NEW s
  PROVE  LET board == assess(w, s)
         IN board.combined # <<>> => board.combined = combined_plan(w, s, holds_of(evaluate(w, s)))
<1>1. PICK decision : decision = evaluate(w, s)
  OBVIOUS
<1>2. PICK holds : holds = holds_of(decision)
  OBVIOUS
<1>3. PICK a : a = [subject |-> s, state |-> decision.state, booked |-> Load(w, w.at, s),
                    holds |-> holds, options |-> {}, combined |-> <<>>]
  OBVIOUS
<1>4. a.subject = s /\ a.holds = holds /\ a.combined = <<>>
  BY <1>3
<1>5. CASE permits_work(decision.state)
  <2>1. assess(w, s) = a
    BY <1>1, <1>2, <1>3, <1>5 DEF assess, Assessed
  <2> QED
    BY <1>4, <2>1
<1>6. CASE ~permits_work(decision.state)
  BY <1>1, <1>2, <1>3, <1>6, <1>4 DEF assess, Assessed, Offers
<1> QED
  BY <1>5, <1>6

-----------------------------------------------------------------------------
(* What a board says is of the hull and the instant as they are: nobody    *)
(* acts on a board before it is read.                                      *)
BoardsInv ==
  /\ taken = NoReply => hull \in Hulls /\ now \in Instants
  /\ reply.kind # "none" => taken = NoReply
  /\ Served("issues") => reply.body = derived_issues(hull, now, hull.activities)
  /\ Served("conflicts") => \E listed \in Fit(Pairs) : reply.body = Conflicts(listed, Pairs)
  /\ Served("mitigations") => \E s \in Register : reply.body = assess(World, s)
  /\ Served("leverage") => reply.body = leverage(World)
  /\ TakenOpens

LEMMA InitBoards ==
  ASSUME BoardsInit
  PROVE  BoardsInv
BY DEF BoardsInit, BoardsInv, NoReply, Served, TakenOpens

LEMMA AskedBoards ==
  ASSUME BoardsInv, taken = NoReply, NEW kind, NEW body, Asked(kind, body),
         kind = "issues" => body = derived_issues(hull, now, hull.activities),
         kind = "conflicts" => \E listed \in Fit(Pairs) : body = Conflicts(listed, Pairs),
         kind = "mitigations" => \E s \in Register : body = assess(World, s),
         kind = "leverage" => body = leverage(World)
  PROVE  BoardsInv'
<1>1. reply' = [kind |-> kind, body |-> body] /\ hull' = hull /\ now' = now /\ taken' = taken
  BY DEF Asked
<1>2. reply'.kind = kind /\ reply'.body = body
  BY <1>1
<1>3. derived_issues(hull, now, hull.activities)' = derived_issues(hull, now, hull.activities)
  BY <1>1
<1>4. \A listed : Fit(Pairs)' = Fit(Pairs) /\ Conflicts(listed, Pairs)' = Conflicts(listed, Pairs)
  BY <1>1 DEF Fit, Pairs, Conflicts, Live, Coupled, Today
<1>5. Register' = Register /\ World' = World
  BY <1>1 DEF Register, World
<1>6. TakenOpens'
  BY <1>1 DEF TakenOpens
<1>7. taken' = NoReply /\ hull' \in Hulls /\ now' \in Instants
  BY <1>1 DEF BoardsInv, NoReply
<1>8. kind = "mitigations" => \E s \in Register' : reply'.body = assess(World', s)
  BY <1>2, <1>5
<1>9. NoReply' = NoReply
  BY DEF NoReply
<1>10. (Served("mitigations") => \E s \in Register : reply.body = assess(World, s))'
  BY <1>2, <1>8 DEF Served
<1>11. (Served("conflicts") => \E listed \in Fit(Pairs) : reply.body = Conflicts(listed, Pairs))'
  BY <1>2, <1>4 DEF Served
<1>12. (Served("issues") => reply.body = derived_issues(hull, now, hull.activities))'
  BY <1>1, <1>2, <1>3 DEF Served
<1>13. (Served("leverage") => reply.body = leverage(World))'
  BY <1>2, <1>5 DEF Served
<1> QED
  BY <1>6, <1>7, <1>9, <1>10, <1>11, <1>12, <1>13 DEF BoardsInv

(* Whoever takes an option finds its space open.                           *)
LEMMA BoardWorld ==
  ASSUME BoardsInv, reply.kind # "none"
  PROVE  taken = NoReply /\ hull \in Hulls /\ now \in Instants /\ now \in Int /\ IsReading(World)
         /\ World.at = now /\ \A h \in ToSet(World.hazards) : h \in ToSet(hull.hazards)
<1>1. taken = NoReply /\ hull \in Hulls /\ now \in Instants
  BY DEF BoardsInv
<1>2. now \in Int
  BY <1>1, BoardsAssumption
<1>3. PICK w : w = mitigation_inputs(hull, now)
  OBVIOUS
<1>4. PICK rules : rules = bound_to(hull.rules, AnyWork, now)
  OBVIOUS
<1>5. /\ w.at = now /\ {"at", "graph", "rules", "hazards"} \subseteq DOMAIN w
      /\ w.hazards = bearing_on(hull.hazards, now, longest_end_anchored_hold(rules))
  BY <1>3, <1>4 DEF mitigation_inputs, engine_inputs
<1>6. ToSet(w.hazards) \subseteq ToSet(hull.hazards)
  BY <1>1, <1>5, Bearing, HullsAssumption
<1>7. IsWorld(w)
  BY <1>1, <1>3, HullWorlds
<1> QED
  BY <1>1, <1>2, <1>3, <1>5, <1>6, <1>7 DEF IsReading, World

LEMMA TakeWaitOpens ==
  ASSUME BoardsInv, TakeWait
  PROVE  TakenOpens'
<1>1. reply.kind = "mitigations" /\ reply.kind # "none"
  BY DEF TakeWait
<1>2. PICK s \in Register : reply.body = assess(World, s)
  BY <1>1 DEF BoardsInv, Served
<1>3. PICK o \in reply.body.options :
        /\ o.action.kind = "wait" /\ now' = o.action.until /\ hull' = hull
        /\ taken' = [space |-> reply.body.subject, action |-> o.action]
  BY DEF TakeWait
<1>4. PICK w : w = World
  OBVIOUS
<1>5. /\ hull \in Hulls /\ now \in Int /\ IsReading(w) /\ w.at = now
  BY <1>1, <1>4, BoardWorld
<1>6. /\ reply.body.subject = s /\ ~permits_work(evaluate(w, s).state)
      /\ o.action \in Opening(w, s, evaluate(w, s))
  BY <1>2, <1>3, <1>4, Options
<1>7. PICK until : until = first_settled(w, s, blocking_expiry(evaluate(w, s)))
  OBVIOUS
<1>8. o.action \in candidates(w, s, evaluate(w, s)) /\ Permits(apply(w, o.action), s)
  BY <1>6 DEF Opening
<1>9. o.action = Wait(until) /\ until # None /\ now' = until
  <2>1. o.action = Wait(until) /\ until # None
    BY <1>3, <1>7, <1>8, WaitOffered
  <2> QED
    BY <1>3, <2>1 DEF Wait
<1>10. ~Permits(w, s)
  <2>1. \A j \in DOMAIN w.rules : w.rules[j].state \in States
    BY <1>5 DEF IsReading, IsWorld, ToSet
  <2> QED
    BY <1>5, <1>6, <2>1, PermitsExact DEF IsReading, IsWorld
<1>11. until \in Int /\ now < until /\ Permits(Then(w, until), s)
  BY <1>5, <1>7, <1>9, <1>10, WaitSettled
<1>12. ASSUME ~Dated PROVE Permits(mitigation_inputs(hull, until), s)
  BY <1>4, <1>5, <1>11, <1>12, WaitOpens DEF Dated, World
<1>13. ~Dated' => Permits(World', s)
  BY <1>3, <1>9, <1>12 DEF Dated, World
<1>14. taken'.space = s
  BY <1>3, <1>6
<1> QED
  BY <1>13, <1>14 DEF TakenOpens

LEMMA TakeDischargeOpens ==
  ASSUME BoardsInv, TakeDischarge
  PROVE  TakenOpens'
<1>1. reply.kind = "mitigations" /\ reply.kind # "none"
  BY DEF TakeDischarge
<1>2. PICK s \in Register : reply.body = assess(World, s)
  BY <1>1 DEF BoardsInv, Served
<1>3. PICK o \in reply.body.options :
        /\ o.action.kind = "discharge" /\ now' = now
        /\ hull' = Ended(hull, <<o.action.origin, o.action.hazard>>, now)
        /\ taken' = [space |-> reply.body.subject, action |-> o.action]
  BY DEF TakeDischarge, Ended
<1>4. PICK w : w = World
  OBVIOUS
<1>5. hull \in Hulls /\ now \in Instants
  BY <1>1, BoardWorld
<1>6. /\ reply.body.subject = s /\ o.action \in Opening(w, s, evaluate(w, s))
  BY <1>2, <1>3, <1>4, Options
<1>7. Permits(apply(w, o.action), s)
  BY <1>6 DEF Opening
<1>8. hull'.rules = hull.rules
  BY <1>3, <1>5, HullsAssumption DEF Ended
<1>9. ASSUME ~HoldsAfterEnd PROVE Permits(World', s)
  BY <1>9, <1>3, <1>4, <1>5, <1>7, DischargeOpens DEF HoldsAfterEnd, World
<1>10. HoldsAfterEnd' <=> HoldsAfterEnd
  BY <1>8 DEF HoldsAfterEnd
<1>11. taken'.space = s /\ taken'.action.kind = "discharge"
  BY <1>3, <1>6
<1>12. "discharge" # "wait"
  OBVIOUS
<1> QED
  BY <1>9, <1>10, <1>11, <1>12 DEF TakenOpens

LEMMA TakenBoards ==
  ASSUME BoardsInv, TakeDischarge \/ TakeWait
  PROVE  BoardsInv'
<1>1. reply' = NoReply /\ \E space, action : taken' = [space |-> space, action |-> action]
  BY DEF TakeDischarge, TakeWait
<1>2. taken' # NoReply
  BY <1>1 DEF NoReply
<1>3. reply'.kind = "none"
  BY <1>1 DEF NoReply
<1>4. TakenOpens'
  BY TakeWaitOpens, TakeDischargeOpens
<1> QED
  BY <1>2, <1>3, <1>4 DEF BoardsInv, Served

LEMMA StepBoards ==
  ASSUME BoardsInv, [BoardsNext]_boards_vars
  PROVE  BoardsInv'
<1>1. CASE taken = NoReply /\ Read
  <2>1. \/ \E kind \in {"deck_states", "readiness", "stranded", "compartment", "package"} :
             \E body : Asked(kind, body)
        \/ Asked("leverage", leverage(World))
        \/ \E s \in Register : Asked("mitigations", assess(World, s))
        \/ Asked("issues", derived_issues(hull, now, hull.activities))
        \/ \E listed \in Fit(Pairs) : Asked("conflicts", Conflicts(listed, Pairs))
    BY <1>1 DEF Read, deck_states, readiness, stranded, leverage_board, issues, work_conflicts,
                mitigations, compartment_state, get_package
  <2>2. ASSUME NEW kind \in {"deck_states", "readiness", "stranded", "compartment", "package"},
               NEW body, Asked(kind, body)
        PROVE  BoardsInv'
    <3>1. kind # "issues" /\ kind # "conflicts" /\ kind # "mitigations" /\ kind # "leverage"
      OBVIOUS
    <3> QED
      BY <1>1, <2>2, <3>1, AskedBoards
  <2>3. CASE Asked("issues", derived_issues(hull, now, hull.activities))
    <3>1. "issues" # "conflicts" /\ "issues" # "mitigations" /\ "issues" # "leverage"
      OBVIOUS
    <3> QED
      BY <1>1, <2>3, <3>1, AskedBoards
  <2>4. ASSUME NEW listed \in Fit(Pairs), Asked("conflicts", Conflicts(listed, Pairs))
        PROVE  BoardsInv'
    <3>1. "issues" # "conflicts" /\ "conflicts" # "mitigations" /\ "conflicts" # "leverage"
      OBVIOUS
    <3> QED
      BY <1>1, <2>4, <3>1, AskedBoards
  <2>5. ASSUME NEW s \in Register, Asked("mitigations", assess(World, s))
        PROVE  BoardsInv'
    <3>1. "issues" # "mitigations" /\ "conflicts" # "mitigations" /\ "mitigations" # "leverage"
      OBVIOUS
    <3> QED
      BY <1>1, <2>5, <3>1, AskedBoards
  <2>6. CASE Asked("leverage", leverage(World))
    <3>1. "issues" # "leverage" /\ "conflicts" # "leverage" /\ "mitigations" # "leverage"
      OBVIOUS
    <3> QED
      BY <1>1, <2>6, <3>1, AskedBoards
  <2> QED
    BY <2>1, <2>2, <2>3, <2>4, <2>5, <2>6
<1>2. CASE TakeDischarge \/ TakeWait
  BY <1>2, TakenBoards
<1>3. CASE UNCHANGED boards_vars
  BY <1>3 DEF boards_vars, BoardsInv, Served, derived_issues, Fit, Pairs, Conflicts, Live, Coupled, Today,
              Register, World, TakenOpens, Dated, HoldsAfterEnd
<1> QED
  BY <1>1, <1>2, <1>3 DEF BoardsNext

THEOREM BoardsServed == BoardsSpec => []BoardsInv
BY InitBoards, StepBoards, PTL DEF BoardsSpec

(* A wait served is the first instant the space opens by itself, and where *)
(* none is served it never does; whoever takes an option finds its space   *)
(* open: for every hull, order of hazards and number of passes             *)
(* (settled_wait, candidates, assess).                                     *)
THEOREM OptionsAlwaysOpen == BoardsSpec => []OptionsOpen
<1>1. ASSUME BoardsInv PROVE OptionsOpen
  <2>1. SUFFICES ASSUME Served("mitigations") PROVE WaitsAreExact
    BY <1>1 DEF OptionsOpen, BoardsInv, WaitsAreExact
  <2>2. reply.kind # "none"
    BY <2>1 DEF Served
  <2>3. PICK s \in Register : reply.body = assess(World, s)
    BY <1>1, <2>1 DEF BoardsInv
  <2>4. PICK w, board : w = World /\ board = reply.body
    OBVIOUS
  <2>5. /\ now \in Int /\ IsReading(w) /\ w.at = now
        /\ \A h \in ToSet(w.hazards) : h \in ToSet(hull.hazards)
    BY <1>1, <2>2, <2>4, BoardWorld
  <2>6. board = assess(w, s) /\ board.subject = s
    BY <2>3, <2>4, Options
  <2>7. PICK waits : waits = {o.action.until : o \in {x \in board.options : x.action.kind = "wait"}}
    OBVIOUS
  <2>8. SUFFICES ASSUME ~permits_work(board.state)
                 PROVE  /\ Cardinality(waits) <= 1
                        /\ \A until \in waits : Permits(Then(w, until), s)
                        /\ \/ EndsAhead \/ Cardinality(ExpiriesOf(w)) > SettleCap
                           \/ \A t \in {x \in Instants : x >= now} :
                                Permits(Then(w, t), s) => \E until \in waits : until <= t
    BY <2>4, <2>6, <2>7 DEF WaitsAreExact, Then
  <2>9. PICK until : until = first_settled(w, s, blocking_expiry(evaluate(w, s)))
    OBVIOUS
  <2>10. ~Permits(w, s)
    <3>1. \A j \in DOMAIN w.rules : w.rules[j].state \in States
      BY <2>5 DEF IsReading, IsWorld, ToSet
    <3>2. ~permits_work(evaluate(w, s).state)
      BY <2>6, <2>8, Options
    <3> QED
      BY <2>5, <3>1, <3>2, PermitsExact DEF IsReading, IsWorld
  <2>11. /\ until # None => until \in Int /\ w.at < until /\ Permits(Then(w, until), s)
         /\ NoEnds(w) => Cardinality(ExpiriesOf(w)) > SettleCap \/ ShutFor(w, s, until)
    BY <2>5, <2>9, <2>10, WaitSettled
  <2>12. \A x \in waits : x = until /\ until # None
    <3>1. SUFFICES ASSUME NEW o \in board.options, o.action.kind = "wait"
                   PROVE  o.action.until = until /\ until # None
      BY <2>7
    <3>2. o.action \in candidates(w, s, evaluate(w, s))
      BY <2>6, Options DEF Opening
    <3>3. o.action = Wait(until) /\ until # None
      BY <2>9, <3>1, <3>2, WaitOffered
    <3> QED
      BY <3>3 DEF Wait
  <2>13. Cardinality(waits) <= 1
    <3>1. waits \in SUBSET {until}
      BY <2>12
    <3>2. IsFiniteSet({until}) /\ Cardinality({until}) = 1
      BY FS_Singleton
    <3> QED
      BY <3>1, <3>2, FS_Subset
  <2>14. until # None => until \in waits
    <3>1. SUFFICES ASSUME until # None PROVE until \in waits
      OBVIOUS
    <3>2. PICK a : a = Wait(until)
      OBVIOUS
    <3>3. a.kind = "wait" /\ a.until = until
      BY <3>2 DEF Wait
    <3>4. a \in candidates(w, s, evaluate(w, s))
      BY <2>9, <3>1, <3>2 DEF candidates, Waits
    <3>5. Permits(apply(w, a), s)
      BY <2>11, <3>1, <3>3 DEF apply, Then
    <3>6. PICK o \in board.options : o.action = a
      BY <2>6, <2>8, <3>4, <3>5, Options DEF Opening
    <3> QED
      BY <2>7, <3>3, <3>6
  <2>15. ASSUME ~EndsAhead PROVE NoEnds(w)
    <3>1. ASSUME NEW h \in ToSet(w.hazards) PROVE h.ended = None \/ h.ended <= w.at
      <4>1. PICK i \in DOMAIN hull.hazards : h = hull.hazards[i]
        BY <2>5 DEF ToSet
      <4>2. h.ended = None \/ ~(h.ended > now)
        BY <2>15, <4>1 DEF EndsAhead
      <4>3. h.ended = None \/ h.ended \in Int
        BY <2>5 DEF IsReading, IsWorld
      <4> QED
        BY <2>5, <4>2, <4>3
    <3> QED
      BY <3>1 DEF NoEnds
  <2>16. ASSUME ~EndsAhead, ~(Cardinality(ExpiriesOf(w)) > SettleCap),
                NEW t \in Instants, t >= now, Permits(Then(w, t), s)
         PROVE  \E x \in waits : x <= t
    <3>1. ShutFor(w, s, until) /\ t \in Int /\ w.at <= t
      BY <2>5, <2>11, <2>15, <2>16, BoardsAssumption
    <3>2. until # None /\ ~(t < until)
      BY <2>16, <3>1 DEF ShutFor
    <3> QED
      BY <2>11, <2>14, <3>1, <3>2
  <2> QED
    BY <2>11, <2>12, <2>13, <2>16
<1> QED
  BY <1>1, BoardsServed, PTL

(* For every hull, instant and graph: what an option or a lever is said to *)
(* free and to shut is what asking every space of the hull would show, and *)
(* what opens a space is among the levers, with the same effect            *)
(* (cascade_from, reach, affected_by, baseline, key, leverage).            *)
THEOREM LeverageAlwaysWhole == BoardsSpec => []LeverageIsWhole
<1>1. ASSUME BoardsInv PROVE LeverageIsWhole
  <2>1. SUFFICES ASSUME Served("mitigations") \/ Served("leverage") PROVE LeverageIsWhole
    BY DEF LeverageIsWhole, EffectsAreWhole, LeverageMissesNothing
  <2>2. reply.kind # "none"
    BY <2>1 DEF Served
  <2>3. PICK w : w = World
    OBVIOUS
  <2>4. IsReading(w) /\ HasHops(w) /\ w.spaces = Register
    <3>1. hull \in Hulls
      BY <1>1, <2>2, BoardWorld
    <3>2. w = mitigation_inputs(hull, now)
      BY <2>3 DEF World
    <3>3. w.spaces = Register
      BY <3>2 DEF mitigation_inputs, Register
    <3> QED
      BY <1>1, <2>2, <2>3, <3>1, <3>2, <3>3, BoardWorld, WorldHops
  <2>5. ASSUME NEW o, IsAction(o.action), o.effect = effect_of(w, baseline(w), <<o.action>>)
        PROVE  LET after == Done(w, o.action)
               IN /\ o.effect.frees  = {s \in Register : ~Permits(w, s) /\ Permits(after, s)}
                  /\ o.effect.closes = {s \in Register : Permits(w, s) /\ ~Permits(after, s)}
    <3>1. IsWhole(o.effect, w, apply(w, o.action)) /\ Done(w, o.action) = apply(w, o.action)
      BY <2>4, <2>5, EffectIsWhole, DoneIsApply
    <3> QED
      BY <2>4, <3>1 DEF IsWhole
  <2>6. ASSUME Served("mitigations"), NEW o \in reply.body.options
        PROVE  IsAction(o.action) /\ o.effect = effect_of(w, baseline(w), <<o.action>>)
    <3>1. PICK s \in Register : reply.body = assess(w, s)
      BY <1>1, <2>3, <2>6 DEF BoardsInv
    <3>2. o.action \in candidates(w, s, evaluate(w, s)) /\ o.effect = effect_of(w, baseline(w), <<o.action>>)
      BY <2>6, <3>1, OptionEffects DEF Opening
    <3> QED
      BY <3>2, CandidatesAreActions
  <2>7. ASSUME Served("leverage"), NEW o \in reply.body
        PROVE  IsAction(o.action) /\ o.effect = effect_of(w, baseline(w), <<o.action>>)
    <3>1. reply.body = leverage(w)
      BY <1>1, <2>3, <2>7 DEF BoardsInv
    <3> QED
      BY <2>7, <3>1, LeverageIs
  <2>8. EffectsAreWhole
    BY <2>3, <2>5, <2>6, <2>7 DEF EffectsAreWhole
  <2>9. ASSUME Served("leverage"), NEW s \in Register, NEW o \in assess(w, s).options
        PROVE  \E l \in reply.body : l.effect = o.effect /\ Done(w, l.action) = Done(w, o.action)
    <3>1. PICK a : a = o.action
      OBVIOUS
    <3>2. /\ a \in candidates(w, s, evaluate(w, s)) /\ Permits(apply(w, a), s)
          /\ o.effect = effect_of(w, baseline(w), <<a>>) /\ ~permits_work(evaluate(w, s).state)
      BY <2>9, <3>1, OptionEffects DEF Opening
    <3>3. ~Permits(w, s)
      <4>1. \A j \in DOMAIN w.rules : w.rules[j].state \in States
        BY <2>4 DEF IsReading, IsWorld, ToSet
      <4> QED
        BY <2>4, <3>2, <4>1, PermitsExact DEF IsReading, IsWorld
    <3>4. a \in Tried(w) /\ IsAction(a)
      BY <2>4, <3>2, <3>3, CandidatesAreActions DEF Tried
    <3>5. s \in effect_of(w, baseline(w), <<a>>).frees
      <4>1. IsWhole(effect_of(w, baseline(w), <<a>>), w, apply(w, a))
        BY <2>4, <3>4, EffectIsWhole
      <4> QED
        BY <2>4, <3>2, <3>3, <4>1 DEF IsWhole
    <3>6. reply.body = leverage(w)
      BY <1>1, <2>3, <2>9 DEF BoardsInv
    <3>7. PICK l \in leverage(w) : IsAction(l.action) /\ key(l.action) = key(a)
      BY <3>4, <3>5, LeverageIs
    <3>8. l.effect = effect_of(w, baseline(w), <<l.action>>)
      BY LeverageIs
    <3>9. l.effect = o.effect
      BY <3>2, <3>4, <3>7, <3>8, SameEffect
    <3>10. Done(w, l.action) = Done(w, a)
      <4>1. apply(w, l.action) = apply(w, a)
        BY <3>4, <3>7, SameKey
      <4> QED
        BY <3>4, <3>7, <4>1, DoneIsApply
    <3> QED
      BY <3>1, <3>6, <3>9, <3>10
  <2>10. LeverageMissesNothing
    BY <2>3, <2>9 DEF LeverageMissesNothing
  <2> QED
    BY <2>8, <2>10 DEF LeverageIsWhole
<1> QED
  BY <1>1, BoardsServed, PTL

(* A plan served opens its space when all of it is done, and leaves it     *)
(* shut when one action is left out, however far it grew, for every hull   *)
(* and instant: but for an end already recorded ahead, and the wait when a *)
(* hazard holds the space both ways (combined_plan).                       *)
THEOREM PlansAlwaysNeeded == BoardsSpec => []PlansAreNeeded
<1>1. ASSUME BoardsInv PROVE PlansAreNeeded
  <2>1. SUFFICES ASSUME Served("mitigations"), reply.body.combined # <<>> PROVE PlansAreNeeded
    BY DEF PlansAreNeeded
  <2>2. reply.kind # "none"
    BY <2>1 DEF Served
  <2>3. PICK s \in Register : reply.body = assess(World, s)
    BY <1>1, <2>1 DEF BoardsInv
  <2>4. PICK w, plan : w = World /\ plan = reply.body.combined
    OBVIOUS
  <2>5. /\ now \in Int /\ IsReading(w) /\ w.at = now
        /\ \A h \in ToSet(w.hazards) : h \in ToSet(hull.hazards)
    BY <1>1, <2>2, <2>4, BoardWorld
  <2>6. reply.body.subject = s
    BY <2>3, Options
  <2>7. PICK holds : holds = holds_of(evaluate(w, s))
    OBVIOUS
  <2>8. plan = combined_plan(w, s, holds) /\ plan # <<>>
    BY <2>1, <2>3, <2>4, <2>7, PlanServed
  <2>9. PICK p : Growing(w, s, p) /\ Permits(variant_for(w, plan), s) /\ plan = PlanOf(p)
    BY <2>5, <2>7, <2>8, PlansFound
  <2>10. IsPlan(plan)
    BY <2>5, <2>9, PlanIs
  <2>11. IsSeq(plan) /\ \A i \in DOMAIN plan : IsAction(plan[i])
    BY <2>10 DEF IsPlan, IsAction
  <2>12. Permits(AllDone(w, plan), s)
    <3>1. AllDone(w, plan) = variant_for(w, plan)
      BY <2>11, AllDoneIs
    <3> QED
      BY <2>9, <3>1
  <2>13. ASSUME ~EndsAhead PROVE NoEnds(w)
    <3>1. ASSUME NEW h \in ToSet(w.hazards) PROVE h.ended = None \/ h.ended <= w.at
      <4>1. PICK i \in DOMAIN hull.hazards : h = hull.hazards[i]
        BY <2>5 DEF ToSet
      <4>2. h.ended = None \/ ~(h.ended > now)
        BY <2>13, <4>1 DEF EndsAhead
      <4>3. h.ended = None \/ h.ended \in Int
        BY <2>5 DEF IsReading, IsWorld
      <4> QED
        BY <2>5, <4>2, <4>3
    <3> QED
      BY <3>1 DEF NoEnds
  <2>14. ASSUME ~EndsAhead, NEW i \in DOMAIN plan
         PROVE  (plan[i].kind = "wait" /\ HeldBothWays(w, s)) \/ ~Permits(AllDone(w, RemoveAt(plan, i)), s)
    <3>1. PICK r : r = RemoveAt(plan, i)
      OBVIOUS
    <3>2. (plan[i].kind = "wait" /\ HeldBothWays(w, s)) \/ ~Permits(variant_for(w, r), s)
      BY <2>5, <2>9, <2>13, <2>14, <3>1, EachIsNeeded
    <3>3. AllDone(w, r) = variant_for(w, r)
      <4>1. IsSeq(r)
        BY <2>11, <3>1, Without
      <4>2. \A j \in DOMAIN r : IsAction(r[j])
        <5>1. SUFFICES ASSUME NEW j \in DOMAIN r PROVE IsAction(r[j])
          OBVIOUS
        <5>2. \/ j \in DOMAIN plan /\ r[j] = plan[j]
              \/ j + 1 \in DOMAIN plan /\ r[j] = plan[j + 1]
          BY <2>11, <3>1, Without
        <5> QED
          BY <2>11, <5>2
      <4> QED
        BY <4>1, <4>2, AllDoneIs
    <3> QED
      BY <3>1, <3>2, <3>3
  <2> QED
    BY <2>4, <2>6, <2>12, <2>14 DEF PlansAreNeeded
<1> QED
  BY <1>1, BoardsServed, PTL

(* Held is refused, with work booked.                                      *)
LEMMA HeldIs ==
  ASSUME NEW h, NEW t, NEW s, readiness_of(SpaceReadiness(h, t, s)) = "held"
  PROVE  ~permits_work(decide(h, t, s).state) /\ Load(mitigation_inputs(h, t), t, s) > 0
<1>1. PICK r : r = SpaceReadiness(h, t, s)
  OBVIOUS
<1>2. r.permits = permits_work(decide(h, t, s).state) /\ r.remaining = Load(mitigation_inputs(h, t), t, s)
  BY <1>1 DEF SpaceReadiness
<1>3. readiness_of(r) = Readiness(r.permits, r.remaining > 0)
  BY DEF readiness_of
<1>4. \A p, b \in BOOLEAN : Readiness(p, b) = "held" => ~p /\ b
  BY DEF Readiness
<1>5. permits_work(decide(h, t, s).state) \in BOOLEAN /\ (r.remaining > 0) \in BOOLEAN
  BY DEF permits_work
<1> QED
  BY <1>1, <1>2, <1>3, <1>4, <1>5

(* For every hull, instant and order of the hazards: a space the readiness *)
(* board counts as held is on the issue board under one name, and work     *)
(* planned over the instant is there when its space is refused (decide,    *)
(* space_issue, executability, derive).                                    *)
THEOREM BoardsAlwaysAgree == BoardsSpec => []BoardsAgree
<1>1. ASSUME BoardsInv PROVE BoardsAgree
  <2>1. SUFFICES ASSUME Served("issues") PROVE BoardsAgree
    BY DEF BoardsAgree
  <2>2. hull \in Hulls /\ now \in Instants /\ now \in Int
    <3>1. "issues" # "none"
      OBVIOUS
    <3>2. hull \in Hulls /\ now \in Instants
      BY <1>1, <2>1, <3>1 DEF BoardsInv, Served
    <3> QED
      BY <3>2, BoardsAssumption
  <2>3. PICK w : w = mitigation_inputs(hull, now)
    OBVIOUS
  <2>4. /\ IsWorld(w) /\ w.at = now /\ w.spaces = Register
        /\ {"graph", "rules", "hazards", "at"} \subseteq DOMAIN w
    <3>1. IsWorld(w)
      BY <2>2, <2>3, HullWorlds
    <3>2. w.at = now /\ w.spaces = Register /\ {"graph", "rules", "hazards", "at"} \subseteq DOMAIN w
      BY <2>3 DEF mitigation_inputs, engine_inputs, Register
    <3> QED
      BY <3>1, <3>2
  <2>5. PICK rows : rows = {r \in hull.activities : ~r.milestone}
    OBVIOUS
  <2>6. PICK stuck : stuck = stranded_hours(hull.packages).items
    OBVIOUS
  <2>7. PICK edges, board : board = reply.body /\ edges = hull.edges /\ board = derive(w, rows, stuck, edges)
    BY <1>1, <2>1, <2>3, <2>5, <2>6 DEF BoardsInv, derived_issues
  <2>8. PICK keys : keys = {i.key : i \in board}
    OBVIOUS
  <2>9. /\ \A s \in w.spaces : Load(w, w.at, s) > 0 /\ ~permits_work(evaluate(w, s).state) =>
             <<"held", s>> \in keys \/ <<"compound", s>> \in keys
        /\ \A s : ~(<<"held", s>> \in keys /\ <<"compound", s>> \in keys)
        /\ \A r \in rows : r.remaining > 0 /\ ~executability(w, r.space, r.window) =>
             <<"not_executable", r.code>> \in keys
    BY <2>7, <2>8, IssueKeys
  <2>10. ASSUME NEW s \in Register, readiness_of(SpaceReadiness(hull, now, s)) = "held"
         PROVE  <<"held", s>> \in keys \/ <<"compound", s>> \in keys
    <3>1. Load(w, w.at, s) > 0 /\ ~permits_work(evaluate(w, s).state)
      BY <2>2, <2>3, <2>4, <2>10, HeldIs, HeldIsRefused
    <3> QED
      BY <2>4, <2>9, <3>1
  <2>11. ASSUME NEW r \in hull.activities, ~r.milestone, r.remaining > 0, r.space # None,
                r.window # None, r.window.start <= now, now < r.window.end, ~Permits(w, r.space)
         PROVE  <<"not_executable", r.code>> \in keys
    <3>1. r.window.start \in Int /\ r.window.end \in Int
      BY <2>2, <2>11, HullsAssumption
    <3>2. ~executability(w, r.space, r.window)
      BY <2>2, <2>4, <2>11, <3>1, RefusedWithin
    <3> QED
      BY <2>5, <2>9, <2>11, <3>2
  <2> QED
    BY <2>3, <2>7, <2>8, <2>9, <2>10, <2>11 DEF BoardsAgree, World
<1> QED
  BY <1>1, BoardsServed, PTL

-----------------------------------------------------------------------------
(* Conflicts.  A finite set put in a row is in it.                         *)
LEMMA Listing ==
  ASSUME NEW S, IsFiniteSet(S)
  PROVE  IsSeq(SetToSeq(S)) /\ ToSet(SetToSeq(S)) \subseteq S
<1>1. PICK n : n = Cardinality(S) /\ n \in Nat
  BY FS_CardinalityType
<1>2. \E f \in [1 .. n -> S] : IsInjective(f)
  BY <1>1, FS_CardinalityType DEF ExistsBijection, Bijection, Injection
<1>3. PICK f : f = SetToSeq(S) /\ f \in [1 .. n -> S]
  BY <1>1, <1>2 DEF SetToSeq
<1>4. f = [i \in 1 .. n |-> f[i]] /\ \A i \in 1 .. n : f[i] \in ToSet(f)
  BY <1>3 DEF ToSet
<1>5. f \in Seq(ToSet(f))
  BY <1>1, <1>4
<1>6. ToSet(f) \subseteq S
  BY <1>3 DEF ToSet
<1> QED
  BY <1>3, <1>5, <1>6 DEF IsSeq

(* The pairs of a day are of a hot row and a flammable one, of the day     *)
(* both, that a path or a space joins.                                     *)
LEMMA ConflictsFound ==
  ASSUME NEW graph, NEW rows, IsSeq(rows), NEW day, NEW cap \in Nat,
         NEW x \in ToSet(hot_vs_flammable(graph, rows, day, cap).pairs)
  PROVE  \E h, f \in ToSet(rows) :
           /\ in_day(h, day) /\ h.ignition_source /\ in_day(f, day) /\ f.flammable_atmosphere
           /\ Joined(graph, h, f) /\ x = <<h.code, f.code>>
<1>1. PICK live : live = Chosen(rows, LAMBDA r : in_day(r, day))
  OBVIOUS
<1>2. PICK hot : hot = Chosen(live, LAMBDA r : r.ignition_source)
  OBVIOUS
<1>3. PICK flam : flam = Chosen(live, LAMBDA r : r.flammable_atmosphere)
  OBVIOUS
<1>4. IsSeq(live) /\ \A r \in ToSet(live) : r \in ToSet(rows) /\ in_day(r, day)
  <2>1. live = At(rows, {i \in DOMAIN rows : in_day(rows[i], day)})
    BY <1>1 DEF Chosen, At
  <2> QED
    BY <2>1, Picked DEF ToSet
<1>5. IsSeq(hot) /\ \A r \in ToSet(hot) : r \in ToSet(live) /\ r.ignition_source
  <2>1. hot = At(live, {i \in DOMAIN live : live[i].ignition_source})
    BY <1>2 DEF Chosen, At
  <2> QED
    BY <1>4, <2>1, Picked DEF ToSet
<1>6. IsSeq(flam) /\ \A r \in ToSet(flam) : r \in ToSet(live) /\ r.flammable_atmosphere
  <2>1. flam = At(live, {i \in DOMAIN live : live[i].flammable_atmosphere})
    BY <1>3 DEF Chosen, At
  <2> QED
    BY <1>4, <2>1, Picked DEF ToSet
<1> DEFINE row(i) == [j \in DOMAIN flam |-> Conflict(graph, hot[i], flam[j])]
           rowed == [i \in DOMAIN hot |-> FlattenSeq(row(i))]
<1>7. \A h, f : /\ IsSeq(Conflict(graph, h, f))
                /\ \A y \in ToSet(Conflict(graph, h, f)) : Joined(graph, h, f) /\ y = <<h.code, f.code>>
  BY DEF Conflict, IsSeq, ToSet
<1>8. ASSUME NEW i \in DOMAIN hot
      PROVE  /\ IsSeq(FlattenSeq(row(i)))
             /\ \A y \in ToSet(FlattenSeq(row(i))) :
                  \E f \in ToSet(flam) : Joined(graph, hot[i], f) /\ y = <<hot[i].code, f.code>>
  <2>1. PICK cells : cells = row(i)
    OBVIOUS
  <2>2. /\ DOMAIN cells = DOMAIN flam /\ cells = [j \in DOMAIN flam |-> cells[j]]
        /\ \A j \in DOMAIN flam : cells[j] = Conflict(graph, hot[i], flam[j])
    BY <2>1
  <2>3. IsSeq(cells)
    BY <1>6, <2>2, OverPlaces
  <2>4. \A j \in DOMAIN cells : IsSeq(cells[j])
    BY <1>7, <2>2
  <2>5. /\ IsSeq(FlattenSeq(cells))
        /\ ToSet(FlattenSeq(cells)) = UNION {ToSet(cells[j]) : j \in DOMAIN cells}
    BY <2>3, <2>4, Flat
  <2>6. ASSUME NEW y \in ToSet(FlattenSeq(cells))
        PROVE  \E f \in ToSet(flam) : Joined(graph, hot[i], f) /\ y = <<hot[i].code, f.code>>
    <3>1. PICK j \in DOMAIN flam : y \in ToSet(Conflict(graph, hot[i], flam[j]))
      BY <2>2, <2>5
    <3>2. flam[j] \in ToSet(flam)
      BY DEF ToSet
    <3> QED
      BY <1>7, <3>1, <3>2
  <2> QED
    BY <2>1, <2>5, <2>6
<1> HIDE DEF row
<1>9. /\ DOMAIN rowed = DOMAIN hot /\ rowed = [i \in DOMAIN hot |-> rowed[i]]
      /\ \A i \in DOMAIN hot : rowed[i] = FlattenSeq(row(i))
  OBVIOUS
<1>10. hot_vs_flammable(graph, rows, day, cap).pairs
         = SubSeq(FlattenSeq(rowed), 1, EarlierOf(cap, Len(FlattenSeq(rowed))))
  BY <1>1, <1>2, <1>3 DEF hot_vs_flammable, row
<1> HIDE DEF rowed
<1>11. IsSeq(rowed)
  BY <1>5, <1>9, OverPlaces
<1>12. PICK all : all = FlattenSeq(rowed)
  OBVIOUS
<1>13. IsSeq(all) /\ ToSet(all) = UNION {ToSet(rowed[i]) : i \in DOMAIN rowed}
  BY <1>8, <1>9, <1>11, <1>12, Flat
<1>14. x \in ToSet(all)
  <2>1. PICK n : n = EarlierOf(cap, Len(all))
    OBVIOUS
  <2>2. Len(all) \in Nat /\ DOMAIN all = 1 .. Len(all)
    BY <1>13, Places
  <2>3. n \in Nat /\ n <= Len(all)
    <3>1. \A a, b \in Nat : EarlierOf(a, b) \in Nat /\ EarlierOf(a, b) <= b
      BY DEF EarlierOf
    <3> QED
      BY <2>1, <2>2, <3>1
  <2>4. x \in ToSet(SubSeq(all, 1, n))
    BY <1>10, <1>12, <2>1
  <2>5. PICK k \in DOMAIN SubSeq(all, 1, n) : x = SubSeq(all, 1, n)[k]
    BY <2>4 DEF ToSet
  <2>6. all \in Seq(ToSet(all))
    BY <1>13 DEF IsSeq
  <2>7. k \in 1 .. n /\ x = all[k]
    BY <2>2, <2>3, <2>5, <2>6
  <2> QED
    BY <2>2, <2>3, <2>7 DEF ToSet
<1>15. PICK i \in DOMAIN hot : x \in ToSet(FlattenSeq(row(i)))
  BY <1>9, <1>13, <1>14
<1>16. PICK f \in ToSet(flam) : Joined(graph, hot[i], f) /\ x = <<hot[i].code, f.code>>
  BY <1>8, <1>15
<1>17. hot[i] \in ToSet(hot)
  BY DEF ToSet
<1> QED
  BY <1>4, <1>5, <1>6, <1>16, <1>17

(* Pairs are counted: a hull's activities are finitely many.               *)
LEMMA PairsFinite ==
  ASSUME hull \in Hulls
  PROVE  IsFiniteSet(Pairs)
<1>1. IsFiniteSet(hull.activities)
  BY HullsAssumption
<1>2. PICK hot : hot = {a \in Live : a.class = "hot"}
  OBVIOUS
<1>3. PICK flam : flam = {a \in Live : a.class = "flammable"}
  OBVIOUS
<1>4. hot \subseteq hull.activities /\ flam \subseteq hull.activities
  BY <1>2, <1>3 DEF Live
<1>5. IsFiniteSet(hot) /\ IsFiniteSet(flam)
  BY <1>1, <1>4, FS_Subset
<1>6. IsFiniteSet(hot \X flam)
  BY <1>5, FS_Product
<1>7. PICK both : both = {y \in hot \X flam : Coupled(y[1].space, y[2].space)}
  OBVIOUS
<1>8. IsFiniteSet(both)
  BY <1>6, <1>7, FS_Subset
<1>9. PICK name : name = [x \in both |-> <<x[1].code, x[2].code>>]
  OBVIOUS
<1>10. DOMAIN name = both /\ Pairs = {name[x] : x \in DOMAIN name}
  BY <1>2, <1>3, <1>7, <1>9 DEF Pairs
<1> QED
  BY <1>8, <1>10, FiniteImage

(* For every hull, day and cap: a flame one hop across a coupling that     *)
(* carries heat or vapour is among the pairs of the served board or those  *)
(* it counts as left out (work_conflicts, hot_vs_flammable).               *)
THEOREM ConflictsCovered == BoardsSpec => []ConflictsCoverPaths
<1>1. ASSUME BoardsInv PROVE ConflictsCoverPaths
  <2>1. SUFFICES ASSUME Served("conflicts") PROVE ConflictsCoverPaths
    BY DEF ConflictsCoverPaths
  <2>2. hull \in Hulls
    <3>1. "conflicts" # "none"
      OBVIOUS
    <3> QED
      BY <1>1, <2>1, <3>1 DEF BoardsInv, Served
  <2>3. PICK listed \in Fit(Pairs) : reply.body = Conflicts(listed, Pairs)
    BY <1>1, <2>1 DEF BoardsInv
  <2>4. /\ reply.body.pairs = listed /\ listed \subseteq Pairs
        /\ reply.body.dropped = Cardinality(Pairs) - Cardinality(listed)
    BY <2>3 DEF Conflicts, Fit
  <2>5. PICK located : located = {a \in hull.activities : a.space # None /\ ~a.milestone /\ ~a.complete}
    OBVIOUS
  <2>6. PICK row : row = [a \in located |->
                            [code |-> a.code, space |-> a.space, window |-> a.window,
                             remaining |-> a.remaining, ignition_source |-> a.class = "hot",
                             flammable_atmosphere |-> a.class = "flammable"]]
    OBVIOUS
  <2>7. PICK shown : shown = {row[a] : a \in DOMAIN row}
    OBVIOUS
  <2>8. DOMAIN row = located /\ IsFiniteSet(shown)
    <3>1. IsFiniteSet(located)
      BY <2>2, <2>5, HullsAssumption, FS_Subset
    <3> QED
      BY <2>6, <2>7, <3>1, FiniteImage
  <2>9. PICK rows : rows = SetToSeq(shown)
    OBVIOUS
  <2>10. IsSeq(rows) /\ ToSet(rows) \subseteq shown
    BY <2>8, <2>9, Listing
  <2>11. PICK cap : cap = Len(rows) * Len(rows) /\ cap \in Nat
    BY <2>10, Places
  <2>12. PICK graph, day, found :
           /\ graph = hull.graph /\ day = Today
           /\ found = ToSet(hot_vs_flammable(graph, rows, day, cap).pairs)
    OBVIOUS
  <2>13. shown = {[code |-> a.code, space |-> a.space, window |-> a.window,
                   remaining |-> a.remaining, ignition_source |-> a.class = "hot",
                   flammable_atmosphere |-> a.class = "flammable"] : a \in located}
    BY <2>6, <2>7
  <2>14. ConflictsCoverPaths <=> Cardinality(found \ reply.body.pairs) <= reply.body.dropped
    BY <2>1, <2>5, <2>9, <2>11, <2>12, <2>13 DEF ConflictsCoverPaths
  <2>15. ASSUME NEW x \in found PROVE x \in Pairs
    <3>1. PICK h \in ToSet(rows), f \in ToSet(rows) :
            /\ in_day(h, day) /\ h.ignition_source /\ in_day(f, day) /\ f.flammable_atmosphere
            /\ Joined(graph, h, f) /\ x = <<h.code, f.code>>
      <4>1. x \in ToSet(hot_vs_flammable(graph, rows, day, cap).pairs)
        BY <2>12, <2>15
      <4>2. IsSeq(rows) /\ cap \in Nat
        BY <2>10, <2>11
      <4> QED
        BY <4>1, <4>2, ConflictsFound
    <3>2. PICK a \in located, b \in located : h = row[a] /\ f = row[b]
      BY <2>7, <2>8, <2>10, <3>1
    <3>3. /\ h.code = a.code /\ h.space = a.space /\ h.window = a.window /\ h.ignition_source = (a.class = "hot")
          /\ f.code = b.code /\ f.space = b.space /\ f.window = b.window
          /\ f.flammable_atmosphere = (b.class = "flammable")
      BY <2>6, <3>2
    <3>4. a \in Live /\ b \in Live
      BY <2>5, <2>12, <3>1, <3>2, <3>3 DEF Live, in_day
    <3>5. a.class = "hot" /\ b.class = "flammable"
      BY <3>1, <3>3
    <3>6. Coupled(a.space, b.space)
      BY <2>12, <3>1, <3>3 DEF Joined, heat_or_vapour_paths, Coupled
    <3>7. PICK y : y = <<a, b>>
      OBVIOUS
    <3>8. y \in {z \in {c \in Live : c.class = "hot"} \X {c \in Live : c.class = "flammable"} :
                   Coupled(z[1].space, z[2].space)}
      BY <3>4, <3>5, <3>6, <3>7
    <3>9. x = <<y[1].code, y[2].code>>
      BY <3>1, <3>3, <3>7
    <3> QED
      BY <3>8, <3>9 DEF Pairs
  <2>16. PICK all : all = Pairs /\ IsFiniteSet(all) /\ listed \subseteq all /\ found \subseteq all
    BY <2>2, <2>4, <2>15, PairsFinite
  <2>17. /\ IsFiniteSet(all \ listed)
         /\ Cardinality(all \ listed) = Cardinality(all) - Cardinality(all \cap listed)
    BY <2>16, FS_Difference
  <2>18. all \cap listed = listed /\ found \ listed \subseteq all \ listed
    BY <2>16
  <2>19. Cardinality(found \ listed) <= Cardinality(all \ listed)
    BY <2>17, <2>18, FS_Subset
  <2> QED
    BY <2>4, <2>14, <2>16, <2>17, <2>18, <2>19
<1> QED
  BY <1>1, BoardsServed, PTL

-----------------------------------------------------------------------------
(* What a sheet's text compiles to, and what the export of that reads as.  *)
(* Sequences of one element each, end to end.                              *)
LEMMA Singles ==
  ASSUME NEW s, IsSeq(s)
  PROVE  FlattenSeq([i \in DOMAIN s |-> <<s[i]>>]) = s
<1> DEFINE E == ToSet(s)
           ss == [i \in DOMAIN s |-> <<s[i]>>]
<1>1. s \in Seq(E) /\ Len(s) \in Nat /\ DOMAIN s = 1 .. Len(s)
  BY Places DEF IsSeq
<1>2. ss \in Seq(Seq(E)) /\ Len(ss) = Len(s) /\ \A i \in 1 .. Len(s) : ss[i] = <<s[i]>>
  <2>1. \A i \in 1 .. Len(s) : s[i] \in E /\ <<s[i]>> \in Seq(E)
    BY <1>1 DEF ToSet
  <2> HIDE DEF E
  <2> QED
    BY <1>1, <2>1
<1> HIDE DEF E, ss
<1>3. CASE Len(s) = 0
  <2>1. s = <<>> /\ ss = <<>>
    BY <1>1, <1>2, <1>3
  <2> QED
    BY <1>2, <1>3, <2>1 DEF FlattenSeq, ss
<1>4. CASE Len(s) # 0
  <2>1. PICK f : f = CHOOSE g : IsJoin(g, ss, Len(ss))
    OBVIOUS
  <2>2. IsJoin(f, ss, Len(ss)) /\ Len(ss) \in 1 .. Len(ss)
    <3>1. Len(ss) \in Nat /\ Len(ss) # 0
      BY <1>1, <1>2, <1>4
    <3>2. IsJoin(f, ss, Len(ss))
      BY <2>1, <3>1, JoinExists
    <3> QED
      BY <3>1, <3>2
  <2>3. FlattenSeq(ss) = f[Len(ss)]
    BY <1>2, <1>4, <2>1 DEF FlattenSeq, IsJoin
  <2>4. PICK m \in Nat : m = Len(s)
    BY <1>1
  <2> DEFINE P == {n \in 0 .. m : n = 0 \/ f[n] = [i \in 1 .. n |-> s[i]]}
  <2>5. 0 \in P
    OBVIOUS
  <2>6. ASSUME NEW n \in 1 .. m, n - 1 \in P PROVE n \in P
    <3>1. f[n] = IF n = 1 THEN ss[n] ELSE f[n - 1] \o ss[n]
      BY <1>2, <2>2, <2>4 DEF IsJoin
    <3>2. ss[n] = <<s[n]>> /\ s[n] \in E
      BY <1>1, <1>2, <2>4
    <3>3. CASE n = 1
      <4>1. f[n] = <<s[n]>>
        BY <3>1, <3>2, <3>3
      <4> QED
        BY <3>3, <4>1
    <3>4. CASE n # 1
      <4>1. PICK a : a = [i \in 1 .. n - 1 |-> s[i]]
        OBVIOUS
      <4>2. f[n - 1] = a
        BY <2>6, <3>4, <4>1
      <4>3. a \in Seq(E) /\ Len(a) = n - 1
        <5>1. \A i \in 1 .. n - 1 : s[i] \in E
          BY <1>1, <2>4
        <5> QED
          BY <4>1, <5>1
      <4>4. PICK b : b = [i \in 1 .. n |-> s[i]]
        OBVIOUS
      <4>5. b \in Seq(E) /\ Len(b) = n
        <5>1. \A i \in 1 .. n : s[i] \in E
          BY <1>1, <2>4
        <5> QED
          BY <4>4, <5>1
      <4>6. \A i \in 1 .. n : (a \o <<s[n]>>)[i] = b[i]
        BY <3>2, <4>1, <4>3, <4>4
      <4>7. a \o <<s[n]>> \in Seq(E) /\ Len(a \o <<s[n]>>) = n
        BY <3>2, <4>3
      <4>8. a \o <<s[n]>> = b
        BY <4>5, <4>6, <4>7
      <4>9. f[n] = b
        BY <3>1, <3>2, <3>4, <4>2, <4>8
      <4> QED
        BY <4>4, <4>9
    <3> QED
      BY <3>3, <3>4
  <2>7. m \in P
    <3>1. m \in 0 .. m
      OBVIOUS
    <3> HIDE DEF P
    <3> QED
      BY <2>5, <2>6, <3>1, Climb
  <2>8. f[m] = [i \in 1 .. m |-> s[i]]
    BY <1>4, <2>4, <2>7
  <2>9. s = [i \in 1 .. m |-> s[i]]
    BY <1>1, <2>4
  <2> QED
    BY <1>2, <2>3, <2>4, <2>8, <2>9 DEF ss
<1> QED
  BY <1>3, <1>4 DEF ss

-----------------------------------------------------------------------------
(* The yard's midnights.                                                   *)
LEMMA ClockNumbers ==
  ASSUME NEW c \in Clocks
  PROVE  c.standard \in Int /\ (c.daylight # None => c.daylight.offset \in Int)
<1>1. Civil!valid_clock(c)
  BY ClocksAssumption
<1> QED
  BY <1>1 DEF Civil!valid_clock, Civil!offset_problem

LEMMA MidnightOf ==
  ASSUME NEW c \in Clocks, NEW days \in Int
  PROVE  /\ Civil!to_utc(c, days, 0).at \in Int
         /\ SpringsForward(c) => Civil!local(c, Civil!to_utc(c, days, 0).at).days = days
<1> DEFINE wall == days * 1440
           at_ == Civil!to_utc(c, days, 0).at
           force(x) == Civil!in_force(c.daylight, c.standard, x)
<1>1. at_ = Civil!WallRead(c, wall).at
  BY DEF Civil!to_utc, Civil!Day
<1>2. Civil!local(c, at_).days = (at_ + Civil!offset_at(c, at_)) \div 1440
  BY DEF Civil!local, Civil!OnTheWall, Civil!Day
<1>3. \A k \in 0 .. 1439 : (days * 1440 + k) \div 1440 = days
  OBVIOUS
<1>4. CASE c.daylight = None
  BY <1>1, <1>4, ClockNumbers, <1>2, <1>3 DEF Civil!WallRead, Civil!offset_at, at_
<1>5. CASE c.daylight # None
  <2>1. c.standard \in Int /\ c.daylight.offset \in Int
    BY <1>5, ClockNumbers
  <2>2. at_ = IF force(wall - c.daylight.offset) THEN wall - c.daylight.offset ELSE wall - c.standard
    BY <1>1, <1>5 DEF Civil!WallRead, Civil!ReadIn
  <2>3. Civil!offset_at(c, at_) = IF force(at_) THEN c.daylight.offset ELSE c.standard
    BY <1>5 DEF Civil!offset_at
  <2> HIDE DEF at_, force
  <2>4. at_ \in Int
    BY <2>1, <2>2
  <2>5. ASSUME SpringsForward(c) PROVE Civil!local(c, at_).days = days
    <3>1. c.daylight.offset - c.standard \in 1 .. 1439
      BY <1>5, <2>5 DEF SpringsForward, Civil!Day
    <3>2. \E k \in 0 .. 1439 : at_ + Civil!offset_at(c, at_) = days * 1440 + k
      <4>1. CASE force(wall - c.daylight.offset)
        <5>1. at_ = wall - c.daylight.offset
          BY <2>2, <4>1
        <5>2. Civil!offset_at(c, at_) = c.daylight.offset
          BY <2>3, <4>1, <5>1
        <5>3. at_ + Civil!offset_at(c, at_) = days * 1440 + 0
          BY <2>1, <5>1, <5>2
        <5> QED
          BY <5>3
      <4>2. CASE ~force(wall - c.daylight.offset)
        <5>1. at_ = wall - c.standard
          BY <2>2, <4>2
        <5>2. CASE force(at_)
          <6>1. at_ + Civil!offset_at(c, at_) = days * 1440 + (c.daylight.offset - c.standard)
            BY <2>1, <2>3, <5>1, <5>2
          <6> QED
            BY <3>1, <6>1
        <5>3. CASE ~force(at_)
          BY <2>1, <2>3, <5>1, <5>3
        <5> QED
          BY <5>2, <5>3
      <4> QED
        BY <4>1, <4>2
    <3> QED
      BY <1>2, <1>3, <3>2
  <2> QED
    BY <2>4, <2>5 DEF at_
<1> QED
  BY <1>4, <1>5

(* A day is a date.                                                        *)
LEMMA DaysAreDates ==
  ASSUME NEW days \in Int
  PROVE  Civil!civil_from_days(days) \in Dates
BY DEF Civil!DateOf, Dates, Civil!DaysToMarch, Civil!DaysToYear, Civil!DateInMonth,
   Civil!DateInYear, Civil!DateInEra, Civil!DateOnDay, Civil!civil_from_days

(* A date cell that reads is an instant, whose date reads as it again.     *)
LEMMA DateRead ==
  ASSUME NEW c \in Clocks, NEW cell \in Dates \cup {None, Garbled}, NEW d, d = parse_date(cell, c), d # Garbled
  PROVE  /\ d \in Int \cup {None}
         /\ SpringsForward(c) => parse_date(date_cell(d, c), c) = d
<1>1. None # Garbled /\ None \notin Int /\ parse_date(None, c) = None /\ date_cell(None, c) = None
  <2>1. None # Garbled /\ None \notin Int
    <3>1. Cardinality({None, Garbled, NotApplicable}) = 3
      BY BlankAssumption
    <3>2. None # Garbled
      <4>1. SUFFICES ASSUME None = Garbled PROVE FALSE
        OBVIOUS
      <4>2. {None, Garbled, NotApplicable} = {None} \cup {NotApplicable}
        BY <4>1
      <4>3. IsFiniteSet({None}) /\ Cardinality({None}) = 1
        BY FS_Singleton
      <4>4. Cardinality({None} \cup {NotApplicable}) \in {1, 2}
        BY <4>3, FS_AddElement
      <4> QED
        BY <3>1, <4>2, <4>4
    <3> QED
      BY <3>2, BlankAssumption
  <2> QED
    BY <2>1 DEF parse_date, date_cell
<1>2. CASE cell = None
  BY <1>1, <1>2
<1>3. CASE cell \notin {None, Garbled}
  <2>1. PICK days : days = Civil!days_from_civil(cell.year, cell.month, cell.day)
    OBVIOUS
  <2>2. days \in Int
    <3>1. cell.year \in Int /\ cell.month \in Int /\ cell.day \in Int
      BY <1>3 DEF Dates
    <3> QED
      BY <2>1, <3>1 DEF Civil!days_from_civil, Civil!DaysToYear, Civil!DaysToMarch
  <2>3. parse_date(cell, c) = OnCalendar(cell, days, c)
    BY <1>3, <2>1 DEF parse_date
  <2>4. Civil!civil_from_days(days) = cell /\ d = Civil!to_utc(c, days, 0).at
    BY <2>3 DEF OnCalendar
  <2>5. d \in Int /\ (SpringsForward(c) => Civil!local(c, d).days = days)
    BY <2>2, <2>4, MidnightOf
  <2>6. SpringsForward(c) => date_cell(d, c) = cell
    BY <1>1, <2>4, <2>5 DEF date_cell
  <2> QED
    BY <2>5, <2>6
<1> QED
  BY <1>1, <1>2, <1>3 DEF parse_date

(* What is blank is not what is unreadable, nor either anything else.      *)
LEMMA Signs ==
  /\ None # Garbled /\ None # NotApplicable /\ Garbled # NotApplicable
  /\ \A sign \in {None, Garbled, NotApplicable} :
       sign \notin Words /\ sign \notin Int /\ sign \notin Hops /\ sign \notin Dates
<1>1. \A a, b : Cardinality({a} \cup {b}) \in {1, 2}
  <2>1. SUFFICES ASSUME NEW a, NEW b PROVE Cardinality({a} \cup {b}) \in {1, 2}
    OBVIOUS
  <2>2. IsFiniteSet({a}) /\ Cardinality({a}) = 1
    BY FS_Singleton
  <2> QED
    BY <2>2, FS_AddElement
<1>2. Cardinality({None, Garbled, NotApplicable}) = 3
  BY BlankAssumption
<1>3. \A a, b : {None, Garbled, NotApplicable} # {a} \cup {b}
  <2>1. SUFFICES ASSUME NEW a, NEW b, {None, Garbled, NotApplicable} = {a} \cup {b} PROVE FALSE
    OBVIOUS
  <2>2. PICK n : n = Cardinality({a} \cup {b})
    OBVIOUS
  <2>3. n = 3 /\ n \in {1, 2}
    BY <1>1, <1>2, <2>1, <2>2
  <2> QED
    BY <2>3
<1>4. None # Garbled
  BY <1>3
<1>5. None # NotApplicable
  BY <1>3
<1>6. Garbled # NotApplicable
  BY <1>3
<1> QED
  BY <1>4, <1>5, <1>6, BlankAssumption

(* An entry a sheet may compile to, its dates read on the clock.           *)
Fields(e) ==
  e = [code |-> e.code, hazard |-> e.hazard, via |-> e.via, max_hops |-> e.max_hops,
       state |-> e.state, clearing |-> e.clearing, hold |-> e.hold, hold_from |-> e.hold_from,
       work_types |-> e.work_types, categories |-> e.categories,
       effective_from |-> e.effective_from, effective_to |-> e.effective_to,
       authority |-> e.authority, version |-> e.version]

Reach(e) ==
  /\ e.via # Garbled
  /\ e.max_hops \in Nat
  /\ IF e.via = None THEN e.max_hops = 0 ELSE e.max_hops > 0

Holds(e) ==
  /\ e.hold \in Nat \cup {None}
  /\ e.hold_from \in {"raise", "end"}
  /\ e.hold_from = "end" => e.hold # None

DatesRead(e, c) ==
  /\ {e.effective_from, e.effective_to} \subseteq Int \cup {None}
  /\ ~DatesRefuse(e.effective_from, e.effective_to)
  /\ SpringsForward(c) =>
       \A d \in {e.effective_from, e.effective_to} : parse_date(date_cell(d, c), c) = d

Clean(e) ==
  /\ Fields(e) /\ Reach(e) /\ Holds(e)
  /\ e.code \notin {None, "#"} /\ e.hazard \in HazardKinds \ {None} /\ e.state \in States
  /\ e.clearing \notin {None, Garbled} /\ Garbled \notin ToSet(e.work_types)
  /\ e.version # BadId

(* A sequence that holds one thing, or nothing.                            *)
LEMMA PutOrNot ==
  ASSUME NEW E, NEW x \in E, NEW B
  PROVE  LET p == IF B THEN <<x>> ELSE <<>>
         IN  /\ p \in Seq(E) /\ ToSet(p) \subseteq {x}
             /\ ToSet(p) # {} => B
<1>1. CASE B
  <2>1. <<x>> \in Seq(E) /\ ToSet(<<x>>) \subseteq {x}
    BY DEF ToSet
  <2> QED
    BY <1>1, <2>1
<1>2. CASE ~B
  <2>1. <<>> \in Seq(E) /\ ToSet(<<>>) = {}
    BY DEF ToSet
  <2> QED
    BY <1>2, <2>1
<1> QED
  BY <1>1, <1>2

(* What a row compiles to.                                                 *)
LEMMA RowCompiles ==
  ASSUME NEW c \in Clocks, NEW row, IsRow(row), row.rule \notin {None, "#"},
         ~NotCompiled(row), ~compile_row_refuses(row, c),
         NEW e \in ToSet(entries_of(row, c))
  PROVE  Clean(e) /\ DatesRead(e, c)
<1>1. row.hops \in Hops /\ row.hops.lo \in Nat /\ row.hops.hi \in Nat
  BY DEF IsRow, NotCompiled, compile_row_refuses, Hops
<1>2. PICK f : f = entry(row, c)
  OBVIOUS
<1>3. PICK f0 : f0 = [f EXCEPT !.via = None, !.max_hops = 0]
  OBVIOUS
<1>4. e = f0 \/ (e = f /\ row.hops.hi > 0)
  <2>1. entries_of(row, c) =
          (IF row.hops.lo = 0 THEN <<f0>> ELSE <<>>) \o (IF row.hops.hi > 0 THEN <<f>> ELSE <<>>)
    BY <1>2, <1>3 DEF entries_of, Spread
  <2>2. PICK p, q : /\ p = (IF row.hops.lo = 0 THEN <<f0>> ELSE <<>>)
                    /\ q = (IF row.hops.hi > 0 THEN <<f>> ELSE <<>>)
    OBVIOUS
  <2>3. PICK E : f0 \in E /\ f \in E
    <3>1. f0 \in {f0, f} /\ f \in {f0, f}
      OBVIOUS
    <3> QED
      BY <3>1
  <2>4. p \in Seq(E) /\ ToSet(p) \subseteq {f0}
    BY <2>2, <2>3, PutOrNot
  <2>5. q \in Seq(E) /\ ToSet(q) \subseteq {f} /\ (ToSet(q) # {} => row.hops.hi > 0)
    BY <2>2, <2>3, PutOrNot
  <2>6. entries_of(row, c) = p \o q
    BY <2>1, <2>2
  <2>7. e \in ToSet(p) \cup ToSet(q)
    BY <2>4, <2>5, <2>6, EndToEnd
  <2> QED
    BY <2>4, <2>5, <2>7
<1>5. /\ f.code = row.rule /\ f.hazard = row.hazard /\ f.via = row.code /\ f.max_hops = row.hops.hi
      /\ f.state = row.state /\ f.clearing = row.clearing /\ f.hold = row.minutes
      /\ f.hold_from = (IF row.from = "end" THEN "end" ELSE "raise")
      /\ f.work_types = row.work_types /\ f.version = row.version
      /\ f.effective_from = parse_date(row.effective_from, c)
      /\ f.effective_to = parse_date(row.effective_to, c)
      /\ Fields(f)
  BY <1>2 DEF entry, Fields
<1>6. Fields(f0) /\ f0.via = None /\ f0.max_hops = 0
  BY <1>2, <1>3 DEF entry, Fields
<1>7. \A x \in DOMAIN f : x \notin {"via", "max_hops"} => f0[x] = f[x]
  BY <1>3
<1>8. /\ f0.code = f.code /\ f0.hazard = f.hazard /\ f0.state = f.state /\ f0.clearing = f.clearing
      /\ f0.hold = f.hold /\ f0.hold_from = f.hold_from /\ f0.work_types = f.work_types
      /\ f0.version = f.version /\ f0.effective_from = f.effective_from /\ f0.effective_to = f.effective_to
  BY <1>2, <1>3 DEF entry
<1>9. /\ row.hazard \in HazardKinds /\ row.hazard # None /\ row.state \in States
      /\ (row.hops.hi > 0 => row.code # None) /\ row.code # Garbled
      /\ row.clearing \notin {None, Garbled} /\ row.version # BadId /\ ~parse_hold_refuses(row)
      /\ ~parse_binding_refuses(row, c)
  BY <1>1, Signs DEF NotCompiled, compile_row_refuses
<1>10. Holds(f)
  BY <1>5, <1>9 DEF Holds, IsRow, parse_hold_refuses
<1>11. DatesRead(f, c)
  BY <1>5, <1>9, DateRead DEF parse_binding_refuses, DatesRefuse, IsRow, DatesRead
<1>12. Garbled \notin ToSet(f.work_types)
  BY <1>5, <1>9 DEF parse_binding_refuses
<1>13. DatesRead(f0, c) /\ Holds(f0)
  BY <1>8, <1>10, <1>11 DEF DatesRead, Holds
<1>14. Reach(f0) /\ (row.hops.hi > 0 => Reach(f))
  BY <1>1, <1>5, <1>6, <1>9, Signs DEF Reach
<1> QED
  BY <1>4, <1>5, <1>6, <1>8, <1>9, <1>10, <1>11, <1>12, <1>13, <1>14 DEF Clean

(* The row an entry is written as, and what is read of it again.           *)
LEMMA RowReadsBack ==
  ASSUME NEW c, NEW e, Clean(e), ~DatesRefuse(e.effective_from, e.effective_to),
         \A d \in {e.effective_from, e.effective_to} : parse_date(date_cell(d, c), c) = d
  PROVE  /\ ~NotCompiled(export_row(e, c)) /\ ~compile_row_refuses(export_row(e, c), c)
         /\ entries_of(export_row(e, c), c) = <<e>>
         /\ export_row(e, c).rule \notin {None, "#"} /\ ~export_row(e, c).wide
<1>1. PICK row : row = export_row(e, c)
  OBVIOUS
<1>2. PICK hops : hops = IF e.via = None THEN [lo |-> 0, hi |-> 0] ELSE [lo |-> e.max_hops, hi |-> e.max_hops]
  OBVIOUS
<1>3. /\ row.rule = e.code /\ row.kind = "Hazard cascade" /\ row.state = e.state /\ row.hazard = e.hazard
      /\ row.hops = hops /\ row.code = e.via /\ row.minutes = e.hold /\ row.from = e.hold_from
      /\ row.clearing = e.clearing /\ row.work_types = e.work_types /\ row.categories = e.categories
      /\ row.effective_from = date_cell(e.effective_from, c)
      /\ row.effective_to = date_cell(e.effective_to, c) /\ row.authority = e.authority
      /\ row.version = e.version /\ row.wide = FALSE
  BY <1>1, <1>2 DEF export_row
<1>4. hops \in Hops /\ hops.lo = hops.hi /\ hops.hi = e.max_hops /\ e.max_hops \in Nat
  BY <1>2 DEF Clean, Reach, Hops
<1>0. Reach(e)
  BY DEF Clean
<1>5. hops # NotApplicable /\ hops # Garbled
  BY <1>4, Signs
<1>6. ~NotCompiled(row)
  BY <1>3, <1>5 DEF NotCompiled, Clean
<1>7. parse_date(row.effective_from, c) = e.effective_from /\ parse_date(row.effective_to, c) = e.effective_to
  BY <1>3
<1>8. ~parse_hold_refuses(row)
  <2>1. Garbled \notin Nat /\ Garbled # None /\ Garbled # "raise" /\ Garbled # "end"
    BY Signs DEF Words
  <2> QED
    BY <1>3, <2>1 DEF parse_hold_refuses, Clean, Holds
<1>9. ~parse_binding_refuses(row, c)
  BY <1>3, <1>7 DEF parse_binding_refuses, Clean
<1>10. ~compile_row_refuses(row, c)
  <2>1. /\ row.hazard \in HazardKinds /\ row.code # Garbled /\ row.clearing \notin {None, Garbled}
        /\ row.version # BadId
    BY <1>3 DEF Clean, Reach
  <2>2. row.hops # Garbled /\ ~(row.hops.lo > row.hops.hi) /\ ~(row.hops.hi > 0 /\ row.code = None)
    <3>1. ~(hops.lo > hops.hi)
      <4>1. PICK n \in Nat : n = hops.hi
        BY <1>4
      <4> QED
        BY <1>4, <4>1
    <3>2. ~(hops.hi > 0 /\ e.via = None)
      BY <1>0, <1>4 DEF Reach
    <3> QED
      BY <1>3, <1>5, <3>1, <3>2
  <2> QED
    BY <1>8, <1>9, <2>1, <2>2 DEF compile_row_refuses
<1>11. entry(row, c) = e
  <2>1. (IF row.from = "end" THEN "end" ELSE "raise") = e.hold_from
    BY <1>3 DEF Clean, Holds
  <2>2. entry(row, c) =
          [code |-> e.code, hazard |-> e.hazard, via |-> e.via, max_hops |-> e.max_hops,
           state |-> e.state, clearing |-> e.clearing, hold |-> e.hold, hold_from |-> e.hold_from,
           work_types |-> e.work_types, categories |-> e.categories,
           effective_from |-> e.effective_from, effective_to |-> e.effective_to,
           authority |-> e.authority, version |-> e.version]
    BY <1>3, <1>4, <1>7, <2>1 DEF entry
  <2> QED
    BY <2>2 DEF Clean, Fields
<1>12. entries_of(row, c) = <<e>>
  <2>1. entries_of(row, c) =
          (IF hops.lo = 0 THEN <<[e EXCEPT !.via = None, !.max_hops = 0]>> ELSE <<>>)
            \o (IF hops.hi > 0 THEN <<e>> ELSE <<>>)
    BY <1>3, <1>11 DEF entries_of, Spread
  <2>2. \A x, y : <<x>> \o <<>> = <<x>> /\ <<>> \o <<y>> = <<y>>
    OBVIOUS
  <2>3. CASE e.via = None
    <3>1. [e EXCEPT !.via = None, !.max_hops = 0] = e
      BY <1>0, <2>3 DEF Clean, Fields, Reach
    <3>2. hops.lo = 0 /\ ~(hops.hi > 0)
      BY <1>0, <1>4, <2>3 DEF Reach
    <3> QED
      BY <2>1, <2>2, <3>1, <3>2
  <2>4. CASE e.via # None
    <3>1. hops.lo # 0 /\ hops.hi > 0
      BY <1>0, <1>4, <2>4 DEF Reach
    <3> QED
      BY <2>1, <2>2, <3>1
  <2> QED
    BY <2>3, <2>4
<1> QED
  BY <1>1, <1>3, <1>6, <1>10, <1>12 DEF Clean

(* The seed's entries.                                                     *)
SeedRow(e) ==
  /\ e = Seeded(e.code, e.hazard, e.via, e.max_hops, e.state, e.clearing, e.hold, e.hold_from, e.work_types,
               e.authority)
  /\ e.max_hops \in Nat /\ (IF e.via = None THEN e.max_hops = 0 ELSE e.max_hops > 0)
  /\ e.hold \in Nat \cup {None} /\ e.hold_from \in {"raise", "end"}
  /\ e.hold_from = "end" => e.hold # None
  /\ e.hazard \in HazardKinds /\ e.state \in States /\ e.code # "#"

WithCoupling(via, hops) == IF via = None THEN hops = 0 ELSE hops \in Nat /\ hops > 0
Held(hold, from) == \/ from = "raise" /\ hold \in Nat \cup {None}
                    \/ from = "end" /\ hold \in Nat

(* The fields of a seed row.                                               *)
LEMMA SeededRow ==
  ASSUME NEW code, NEW hazard, NEW via, NEW hops, NEW state, NEW clearing, NEW hold, NEW from, NEW work_types,
         NEW authority, code # "#", hazard \in HazardKinds, state \in States, WithCoupling(via, hops), Held(hold, from)
  PROVE  SeedRow(Seeded(code, hazard, via, hops, state, clearing, hold, from, work_types, authority))
<1>1. None \notin Nat
  BY Signs
<1> QED
  BY <1>1 DEF Seeded, SeedRow, WithCoupling, Held

(* The seed, row by row.                                                   *)
LEMMA SeedIs ==
  /\ IsSeq(seed_usn_hot_work) /\ DOMAIN seed_usn_hot_work = 1 .. 10
  /\ \A i \in 1 .. 5 : /\ seed_usn_hot_work[i] = seed_coating_rules[i]
                       /\ seed_usn_hot_work[i + 5] = seed_other_hazard_rules[i]
<1>1. PICK r : r = seed_coating_rules
  OBVIOUS
<1>2. PICK q : q = seed_other_hazard_rules
  OBVIOUS
<1> DEFINE E == ToSet(r) \cup ToSet(q)
<1>3. \A a, b, c, d, e : /\ <<a, b, c, d, e>> \in Seq(ToSet(<<a, b, c, d, e>>))
                        /\ Len(<<a, b, c, d, e>>) = 5
  BY DEF ToSet
<1>4. r \in Seq(ToSet(r)) /\ q \in Seq(ToSet(q)) /\ Len(r) = 5 /\ Len(q) = 5
  <2>1. r \in Seq(ToSet(r)) /\ Len(r) = 5
    BY <1>1, <1>3 DEF seed_coating_rules
  <2>2. q \in Seq(ToSet(q)) /\ Len(q) = 5
    BY <1>2, <1>3 DEF seed_other_hazard_rules
  <2> QED
    BY <2>1, <2>2
<1>5. r \in Seq(E) /\ q \in Seq(E)
  <2>1. ToSet(r) \subseteq E /\ ToSet(q) \subseteq E
    OBVIOUS
  <2> HIDE DEF E
  <2> QED
    BY <1>4, <2>1
<1> HIDE DEF E
<1>6. PICK s : s = r \o q
  OBVIOUS
<1>7. s \in Seq(E) /\ Len(s) = 10 /\ DOMAIN s = 1 .. 10
  <2>1. s \in Seq(E)
    BY <1>5, <1>6
  <2>2. Len(s) = Len(r) + Len(q)
    BY <1>5, <1>6
  <2>3. Len(s) = 10
    BY <1>4, <2>2
  <2> QED
    BY <2>1, <2>3
<1>8. ASSUME NEW i \in 1 .. 5 PROVE s[i] = r[i] /\ s[i + 5] = q[i]
  <2>1. i \in 1 .. Len(r) /\ i + 5 \in 1 .. Len(r) + Len(q) /\ i + 5 > Len(r) /\ i + 5 - Len(r) = i
    BY <1>4
  <2>2. \A k \in 1 .. Len(r) + Len(q) : (r \o q)[k] = IF k <= Len(r) THEN r[k] ELSE q[k - Len(r)]
    BY <1>5
  <2>3. i <= Len(r) /\ i \in 1 .. Len(r) + Len(q)
    BY <1>4
  <2>4. (r \o q)[i] = r[i]
    BY <2>2, <2>3
  <2>5. (r \o q)[i + 5] = q[i]
    <3>1. PICK k : k = i + 5
      OBVIOUS
    <3>2. k \in 1 .. Len(r) + Len(q) /\ ~(k <= Len(r)) /\ k - Len(r) = i
      BY <1>4, <3>1
    <3>3. (r \o q)[k] = q[i]
      BY <2>2, <3>2
    <3> QED
      BY <3>1, <3>3
  <2> QED
    BY <1>6, <2>4, <2>5
<1>9. s = seed_usn_hot_work
  BY <1>1, <1>2, <1>6 DEF seed_usn_hot_work
<1>10. IsSeq(s)
  <2>1. s \in Seq(E)
    BY <1>7
  <2> QED
    BY <2>1 DEF IsSeq, ToSet
<1> QED
  BY <1>1, <1>2, <1>7, <1>8, <1>9, <1>10

(* Every row of the seed is one.                                           *)
LEMMA SeedRows ==
  ASSUME NEW i \in DOMAIN seed_usn_hot_work
  PROVE  SeedRow(seed_usn_hot_work[i])
<1>1. WithCoupling(None, 0)
  BY DEF WithCoupling
<1>2. \A via \in {"deck_penetration", "shared_bulkhead", "exhaust_trunk", "electrical_bus"} :
         WithCoupling(via, 1) /\ WithCoupling(via, 2)
  <2>1. {"deck_penetration", "shared_bulkhead", "exhaust_trunk", "electrical_bus"} \subseteq Words
    BY DEF Words
  <2> QED
    BY <2>1, Signs DEF WithCoupling
<1>3. Held(480, "raise") /\ Held(30, "end") /\ Held(None, "raise")
  BY DEF Held
<1>4. "block" \in States /\ "warn" \in States /\ "suspend" \in States
  BY DEF States
<1>5. {"coating_open", "hot_work_live", "energised_bus", "flammable_stow", "stop_work"} \subseteq HazardKinds
  BY DEF HazardKinds
<1>6. SeedRow(seed_coating_rules[1]) /\ SeedRow(seed_coating_rules[2])
  BY <1>1, <1>2, <1>3, <1>4, <1>5, SeededRow DEF seed_coating_rules
<1>7. SeedRow(seed_coating_rules[3]) /\ SeedRow(seed_coating_rules[4]) /\ SeedRow(seed_coating_rules[5])
  BY <1>1, <1>2, <1>3, <1>4, <1>5, SeededRow DEF seed_coating_rules
<1>8. SeedRow(seed_other_hazard_rules[1]) /\ SeedRow(seed_other_hazard_rules[2])
  BY <1>1, <1>2, <1>3, <1>4, <1>5, SeededRow DEF seed_other_hazard_rules
<1>9. /\ SeedRow(seed_other_hazard_rules[3]) /\ SeedRow(seed_other_hazard_rules[4])
      /\ SeedRow(seed_other_hazard_rules[5])
  BY <1>1, <1>2, <1>3, <1>4, <1>5, SeededRow DEF seed_other_hazard_rules
<1>10. /\ \A k \in 1 .. 5 : SeedRow(seed_coating_rules[k])
       /\ \A k \in 1 .. 5 : SeedRow(seed_other_hazard_rules[k])
  BY <1>6, <1>7, <1>8, <1>9
<1>11. i \in 1 .. 10 /\ (i \in 1 .. 5 \/ (i - 5 \in 1 .. 5 /\ i = (i - 5) + 5))
  BY SeedIs
<1> QED
  BY <1>10, <1>11, SeedIs

(* No two entries of a table are duplicates.                               *)
Distinct(entries) ==
  \A i, j \in DOMAIN entries : duplicate_key(entries[i]) = duplicate_key(entries[j]) => i = j

(* No two rows of the seed have a code.                                    *)
LEMMA SeedCodes ==
  LET s == seed_usn_hot_work
  IN  /\ s[1].code = "R03" /\ s[1].max_hops = 0
      /\ s[2].code = "R03" /\ s[2].max_hops = 1
      /\ s[3].code = "R06"
      /\ s[4].code = "R09" /\ s[4].state = "suspend"
      /\ s[5].code = "R09" /\ s[5].state = "warn"
      /\ s[6].code = "R04"
      /\ s[7].code = "R07" /\ s[7].max_hops = 0
      /\ s[8].code = "R07" /\ s[8].max_hops = 1
      /\ s[9].code = "R13"
      /\ s[10].code = "R22"
<1>1. PICK s : s = seed_usn_hot_work
  OBVIOUS
<1>2. /\ s[1] = seed_coating_rules[1] /\ s[2] = seed_coating_rules[2] /\ s[3] = seed_coating_rules[3]
      /\ s[4] = seed_coating_rules[4] /\ s[5] = seed_coating_rules[5]
  BY <1>1, SeedIs
<1>3. /\ s[6] = seed_other_hazard_rules[1] /\ s[7] = seed_other_hazard_rules[2]
      /\ s[8] = seed_other_hazard_rules[3] /\ s[9] = seed_other_hazard_rules[4]
      /\ s[10] = seed_other_hazard_rules[5]
  BY <1>1, SeedIs
<1>4. /\ s[1].code = "R03" /\ s[1].max_hops = 0
      /\ s[2].code = "R03" /\ s[2].max_hops = 1
      /\ s[3].code = "R06"
      /\ s[4].code = "R09" /\ s[4].state = "suspend"
      /\ s[5].code = "R09" /\ s[5].state = "warn"
  BY <1>2 DEF seed_coating_rules, Seeded
<1>5. /\ s[6].code = "R04"
      /\ s[7].code = "R07" /\ s[7].max_hops = 0
      /\ s[8].code = "R07" /\ s[8].max_hops = 1
      /\ s[9].code = "R13"
      /\ s[10].code = "R22"
  BY <1>3 DEF seed_other_hazard_rules, Seeded
<1> QED
  BY <1>1, <1>4, <1>5

(* An entry of the seed, with its id.                                      *)
LEMMA SeedEntry ==
  ASSUME NEW i \in DOMAIN seed
  PROVE  /\ seed[i].version = <<"seed", i>>
         /\ DOMAIN seed = DOMAIN seed_usn_hot_work
         /\ LET r == seed_usn_hot_work[i]
            IN  seed[i] = [code |-> r.code, hazard |-> r.hazard, via |-> r.via, max_hops |-> r.max_hops,
                           state |-> r.state, clearing |-> r.clearing, hold |-> r.hold,
                           hold_from |-> r.hold_from, work_types |-> r.work_types, categories |-> <<>>,
                           effective_from |-> None, effective_to |-> None, authority |-> r.authority,
                           version |-> <<"seed", i>>]
BY SeedRows DEF seed, SeedRow, Seeded, Merged

Undated(e) == e.effective_from = None /\ e.effective_to = None

(* The seed is a table in order, of no dates.                              *)
LEMMA SeedIsClean ==
  /\ IsSeq(seed) /\ Distinct(seed)
  /\ \A i \in DOMAIN seed : Clean(seed[i]) /\ Undated(seed[i]) /\ Kept(seed[i])
<1>1. IsSeq(seed) /\ DOMAIN seed = 1 .. 10 /\ DOMAIN seed_usn_hot_work = 1 .. 10
  BY SeedIs, SeedIsFaithful DEF Versioned, seed
<1>2. Distinct(seed)
  <2>1. SUFFICES ASSUME NEW i \in 1 .. 10, NEW j \in 1 .. 10, duplicate_key(seed[i]) = duplicate_key(seed[j])
                 PROVE  i = j
    BY <1>1 DEF Distinct
  <2>2. seed[i].code = seed[j].code /\ seed[i].max_hops = seed[j].max_hops /\ seed[i].state = seed[j].state
    BY <2>1 DEF duplicate_key
  <2>3. PICK s : s = seed_usn_hot_work
    OBVIOUS
  <2>4. \A k \in 1 .. 10 : seed[k].code = s[k].code /\ seed[k].max_hops = s[k].max_hops /\ seed[k].state = s[k].state
    BY <1>1, <2>3, SeedEntry
  <2>5. s[i].code = s[j].code /\ s[i].max_hops = s[j].max_hops /\ s[i].state = s[j].state
    BY <2>2, <2>4
  <2>6. /\ s[1].code = "R03" /\ s[1].max_hops = 0
        /\ s[2].code = "R03" /\ s[2].max_hops = 1
        /\ s[3].code = "R06"
        /\ s[4].code = "R09" /\ s[4].state = "suspend"
        /\ s[5].code = "R09" /\ s[5].state = "warn"
        /\ s[6].code = "R04"
        /\ s[7].code = "R07" /\ s[7].max_hops = 0
        /\ s[8].code = "R07" /\ s[8].max_hops = 1
        /\ s[9].code = "R13"
        /\ s[10].code = "R22"
    BY <2>3, SeedCodes
  <2>7. i \in {1, 2, 3, 4, 5, 6, 7, 8, 9, 10} /\ j \in {1, 2, 3, 4, 5, 6, 7, 8, 9, 10}
    OBVIOUS
  <2> QED
    BY <2>5, <2>6, <2>7
<1>3. ASSUME NEW i \in DOMAIN seed PROVE Clean(seed[i]) /\ Undated(seed[i]) /\ Kept(seed[i])
  <2>1. PICK r : r = seed_usn_hot_work[i]
    OBVIOUS
  <2>2. PICK e : e = seed[i]
    OBVIOUS
  <2>3. e = [code |-> r.code, hazard |-> r.hazard, via |-> r.via, max_hops |-> r.max_hops,
             state |-> r.state, clearing |-> r.clearing, hold |-> r.hold,
             hold_from |-> r.hold_from, work_types |-> r.work_types, categories |-> <<>>,
             effective_from |-> None, effective_to |-> None, authority |-> r.authority,
             version |-> <<"seed", i>>]
    BY <2>1, <2>2, SeedEntry
  <2>4. /\ Fields(e) /\ Undated(e) /\ e.version = <<"seed", i>>
        /\ e.code = r.code /\ e.hazard = r.hazard /\ e.via = r.via /\ e.max_hops = r.max_hops
        /\ e.state = r.state /\ e.clearing = r.clearing /\ e.hold = r.hold
        /\ e.hold_from = r.hold_from /\ e.work_types = r.work_types
    BY <2>3 DEF Fields, Undated
  <2>5. SeedRow(r) /\ r \in ToSet(seed_usn_hot_work)
    BY <1>1, <2>1, SeedRows DEF ToSet
  <2>6. {r.code, r.hazard, r.clearing} \cup ToSet(r.work_types) \subseteq Words
    BY <2>5 DEF Words
  <2>7. r.via # Garbled
    <3>1. r.via \in {None, "deck_penetration", "shared_bulkhead", "exhaust_trunk", "electrical_bus"}
      BY <1>1, <2>1, SeedIs DEF seed_coating_rules, Seeded, seed_other_hazard_rules
    <3>2. {"deck_penetration", "shared_bulkhead", "exhaust_trunk", "electrical_bus"} \subseteq Words
      BY DEF Words
    <3> QED
      BY <3>1, <3>2, Signs
  <2>8. Reach(e) /\ Holds(e)
    BY <2>4, <2>5, <2>7 DEF SeedRow, Reach, Holds
  <2>9. e.version # BadId /\ e.version # NoId
    BY <2>4 DEF BadId, NoId
  <2>10. Garbled \notin ToSet(r.work_types) /\ r.code # None /\ r.hazard # None /\ r.clearing \notin {None, Garbled}
    BY <2>6, Signs
  <2>11. Clean(e)
    BY <2>4, <2>5, <2>8, <2>9, <2>10 DEF Clean, SeedRow
  <2> QED
    BY <2>2, <2>4, <2>9, <2>11 DEF Kept
<1> QED
  BY <1>1, <1>2, <1>3

(* A table of a clock: every entry is clean and keeps its id, and its      *)
(* dates are read back from the cells the clock writes them in.            *)
Clear(entries) == \A i \in DOMAIN entries : Clean(entries[i])
KeptAll(entries) == \A i \in DOMAIN entries : Kept(entries[i])
DatedAll(entries, c) == \A i \in DOMAIN entries : DatesRead(entries[i], c)

(* A table in order, its dates read back, is what its export compiles to.  *)
LEMMA TableReadsBack ==
  ASSUME NEW entries, IsSeq(entries), Clear(entries), Distinct(entries), KeptAll(entries), NEW c,
         \A i \in DOMAIN entries :
           /\ ~DatesRefuse(entries[i].effective_from, entries[i].effective_to)
           /\ \A d \in {entries[i].effective_from, entries[i].effective_to} : parse_date(date_cell(d, c), c) = d
  PROVE  compile_text(export_csv(entries, c), c).entries = entries
<1>1. PICK rows : rows = [i \in DOMAIN entries |-> export_row(entries[i], c)]
  OBVIOUS
<1>2. PICK s : s = export_csv(entries, c)
  OBVIOUS
<1>3. s.handoff = TRUE /\ s.rows = rows
  BY <1>1, <1>2 DEF export_csv
<1>4. DOMAIN rows = DOMAIN entries /\ IsSeq(rows)
  BY <1>1, OverPlaces
<1>5. \A i \in DOMAIN rows :
        /\ ~NotCompiled(rows[i]) /\ ~compile_row_refuses(rows[i], c)
        /\ entries_of(rows[i], c) = <<entries[i]>>
        /\ rows[i].rule \notin {None, "#"} /\ ~rows[i].wide
  BY <1>1, <1>4, RowReadsBack DEF Clear
<1>6. parse(s).ok /\ parse(s).rows = rows
  <2>1. [i \in DOMAIN s.rows |-> Cells(s.rows[i])] = [i \in DOMAIN rows |-> <<rows[i]>>]
    BY <1>3, <1>5 DEF Cells, is_comment_or_blank
  <2>2. parse(s) = [ok |-> s.handoff /\ \A i \in DOMAIN rows : ~rows[i].wide, rows |-> rows]
    BY <1>4, <2>1, Singles DEF parse
  <2>3. (s.handoff /\ \A i \in DOMAIN rows : ~rows[i].wide) = TRUE
    BY <1>3, <1>5
  <2>4. parse(s) = [ok |-> TRUE, rows |-> rows]
    BY <2>2, <2>3
  <2> QED
    BY <2>4
<1>7. compile(rows, c) = [ok |-> TRUE, rows |-> rows, entries |-> entries]
  <2>1. [i \in DOMAIN rows |-> Compiled(rows[i], c)] = [i \in DOMAIN entries |-> <<entries[i]>>]
    BY <1>4, <1>5 DEF Compiled
  <2>2. FlattenSeq([i \in DOMAIN rows |-> Compiled(rows[i], c)]) = entries
    BY <2>1, Singles
  <2>3. IsInjective([i \in DOMAIN entries |-> duplicate_key(entries[i])])
    BY DEF IsInjective, Distinct
  <2>4. ~\E i \in DOMAIN rows : rows[i].rule = None \/ (~NotCompiled(rows[i]) /\ compile_row_refuses(rows[i], c))
    BY <1>5
  <2> QED
    BY <2>2, <2>3, <2>4 DEF compile, Filed
<1>8. settle_versions(entries) = entries
  BY Places DEF settle_versions, KeptAll, IsSeq
<1>9. compile_text(s, c) = [compile(rows, c) EXCEPT !.entries = settle_versions(@)]
  BY <1>6 DEF compile_text, Settled
<1> QED
  BY <1>2, <1>7, <1>8, <1>9

(* The seed is what its own export compiles to, on every clock.            *)
LEMMA SeedReadsBack ==
  ASSUME NEW c
  PROVE  seed_table(c) = seed
<1>1. parse_date(date_cell(None, c), c) = None
  BY DEF parse_date, date_cell
<1>2. ~DatesRefuse(None, None)
  BY Signs DEF DatesRefuse
<1>3. IsSeq(seed) /\ Clear(seed) /\ Distinct(seed) /\ KeptAll(seed)
  BY SeedIsClean DEF Clear, KeptAll
<1>4. \A i \in DOMAIN seed :
        /\ ~DatesRefuse(seed[i].effective_from, seed[i].effective_to)
        /\ \A d \in {seed[i].effective_from, seed[i].effective_to} : parse_date(date_cell(d, c), c) = d
  BY <1>1, <1>2, SeedIsClean DEF Undated
<1>5. compile_text(export_csv(seed, c), c).entries = seed
  BY <1>3, <1>4, TableReadsBack
<1> QED
  BY <1>5 DEF seed_table

(* What a sheet's rows compile to.                                         *)
Filing(rows) == IsSeq(rows) /\ \A i \in DOMAIN rows : IsRow(rows[i]) /\ rows[i].rule # "#"

(* What compiles is clean, dated and holds no duplicates.                  *)
LEMMA CompiledTable ==
  ASSUME NEW c \in Clocks, NEW rows, Filing(rows)
  PROVE  LET entries == compile(rows, c).entries
         IN  IsSeq(entries) /\ Clear(entries) /\ DatedAll(entries, c) /\ Distinct(entries)
<1>1. PICK k : k = compile(rows, c)
  OBVIOUS
<1>2. IsSeq(k.entries)
  BY <1>1, CompiledEntries DEF Filing, Versioned
<1>3. PICK ss : ss = [i \in DOMAIN rows |-> Compiled(rows[i], c)]
  OBVIOUS
<1>4. CASE k = Refused
  BY <1>2, <1>1, <1>4 DEF Refused, Clear, DatedAll, Distinct
<1>5. CASE k # Refused
  <2>1. ~\E i \in DOMAIN rows : rows[i].rule = None \/ (~NotCompiled(rows[i]) /\ compile_row_refuses(rows[i], c))
    BY <1>1, <1>5 DEF compile
  <2>2. k = Filed(rows, FlattenSeq(ss))
    BY <1>1, <1>3, <2>1 DEF compile
  <2>3. PICK entries : entries = FlattenSeq(ss)
    OBVIOUS
  <2>4. k.entries = entries /\ IsInjective([i \in DOMAIN entries |-> duplicate_key(entries[i])])
    BY <1>5, <2>2, <2>3 DEF Filed
  <2>5. Distinct(entries)
    BY <2>4 DEF IsInjective, Distinct
  <2>6. IsSeq(ss) /\ DOMAIN ss = DOMAIN rows
    BY <1>3, OverPlaces DEF Filing
  <2>7. ASSUME NEW i \in DOMAIN ss PROVE IsSeq(ss[i])
    <3>1. ss[i] = IF NotCompiled(rows[i]) THEN <<>> ELSE entries_of(rows[i], c)
      BY <1>3, <2>6 DEF Compiled
    <3>2. PICK e : e = entry(rows[i], c)
      OBVIOUS
    <3>3. PICK e0 : e0 = [e EXCEPT !.via = None, !.max_hops = 0]
      OBVIOUS
    <3> DEFINE E == {e0, e}
    <3>4. <<>> \in Seq(E) /\ <<e0>> \in Seq(E) /\ <<e>> \in Seq(E)
      OBVIOUS
    <3> HIDE DEF E
    <3>5. entries_of(rows[i], c) =
            (IF rows[i].hops.lo = 0 THEN <<e0>> ELSE <<>>) \o (IF rows[i].hops.hi > 0 THEN <<e>> ELSE <<>>)
      BY <3>2, <3>3 DEF entries_of, Spread
    <3>6. \A x, y \in Seq(E) : x \o y \in Seq(E)
      OBVIOUS
    <3>7. ss[i] \in Seq(E)
      BY <3>1, <3>4, <3>5, <3>6
    <3> QED
      BY <3>7 DEF IsSeq, ToSet
  <2>8. ToSet(entries) = UNION {ToSet(ss[i]) : i \in DOMAIN ss}
    BY <2>3, <2>6, <2>7, Flat
  <2>9. ASSUME NEW e \in ToSet(entries) PROVE Clean(e) /\ DatesRead(e, c)
    <3>1. PICK i \in DOMAIN rows : e \in ToSet(ss[i])
      BY <2>6, <2>8
    <3>2. ss[i] = IF NotCompiled(rows[i]) THEN <<>> ELSE entries_of(rows[i], c)
      BY <1>3, <3>1 DEF Compiled
    <3>3. ToSet(<<>>) = {}
      BY DEF ToSet
    <3>4. ~NotCompiled(rows[i]) /\ e \in ToSet(entries_of(rows[i], c))
      BY <3>1, <3>2, <3>3
    <3>5. IsRow(rows[i]) /\ rows[i].rule \notin {None, "#"} /\ ~compile_row_refuses(rows[i], c)
      BY <2>1, <3>4 DEF Filing
    <3> QED
      BY <3>4, <3>5, RowCompiles
  <2>10. Clear(entries) /\ DatedAll(entries, c)
    BY <2>9 DEF Clear, DatedAll, ToSet
  <2> QED
    BY <1>1, <1>2, <2>4, <2>5, <2>10
<1> QED
  BY <1>4, <1>5

(* The same entries but for their ids.                                     *)
SameEntries(a, b) == DOMAIN a = DOMAIN b /\ \A i \in DOMAIN a : same_reading(a[i], b[i])

(* What a reading settles.                                                 *)
LEMMA SameReading ==
  ASSUME NEW a, NEW b, Clean(a), same_reading(b, a), Fields(b)
  PROVE  /\ \A x \in DOMAIN a \ {"version"} : b[x] = a[x]
         /\ b.version # BadId => Clean(b)
         /\ duplicate_key(b) = duplicate_key(a)
         /\ \A c : DatesRead(a, c) => DatesRead(b, c)
<1>1. PICK q : q = Reading(a)
  OBVIOUS
<1>2. q = Reading(b)
  BY <1>1 DEF same_reading
<1>3. /\ q.code = a.code /\ q.hazard = a.hazard /\ q.via = a.via /\ q.max_hops = a.max_hops
      /\ q.state = a.state /\ q.clearing = a.clearing /\ q.hold = a.hold /\ q.hold_from = a.hold_from
      /\ q.work_types = a.work_types /\ q.categories = a.categories
      /\ q.effective_from = a.effective_from /\ q.effective_to = a.effective_to
      /\ q.authority = a.authority
  BY <1>1 DEF Reading, Clean, Fields
<1>4. /\ q.code = b.code /\ q.hazard = b.hazard /\ q.via = b.via /\ q.max_hops = b.max_hops
      /\ q.state = b.state /\ q.clearing = b.clearing /\ q.hold = b.hold /\ q.hold_from = b.hold_from
      /\ q.work_types = b.work_types /\ q.categories = b.categories
      /\ q.effective_from = b.effective_from /\ q.effective_to = b.effective_to
      /\ q.authority = b.authority
  BY <1>2 DEF Reading, Fields
<1>5. DOMAIN a = {"code", "hazard", "via", "max_hops", "state", "clearing", "hold", "hold_from", "work_types",
                  "categories", "effective_from", "effective_to", "authority", "version"}
  BY DEF Clean, Fields
<1>6. \A x \in DOMAIN a \ {"version"} : b[x] = a[x]
  BY <1>3, <1>4, <1>5
<1>7. b.version # BadId => Clean(b)
  <2>1. Reach(b) /\ Holds(b)
    BY <1>3, <1>4 DEF Clean, Reach, Holds
  <2> QED
    BY <1>3, <1>4, <2>1 DEF Clean
<1>8. duplicate_key(b) = duplicate_key(a)
  BY <1>3, <1>4 DEF duplicate_key
<1>9. \A c : DatesRead(a, c) => DatesRead(b, c)
  BY <1>3, <1>4 DEF DatesRead
<1> QED
  BY <1>6, <1>7, <1>8, <1>9

(* An entry settled reads as it did, and keeps the id it has.              *)
LEMMA SettledEntry ==
  ASSUME NEW e, Clean(e), NEW f, f = IF Kept(e) THEN e ELSE [e EXCEPT !.version = mint_version(e)]
  PROVE  Clean(f) /\ Kept(f) /\ same_reading(f, e)
<1>1. CASE Kept(e)
  BY <1>1 DEF same_reading
<1>2. CASE ~Kept(e)
  <2>1. f = [e EXCEPT !.version = mint_version(e)]
    BY <1>2
  <2>2. PICK v : v = mint_version(e)
    OBVIOUS
  <2>3. Fields(f) /\ f.version = v
    BY <2>1, <2>2 DEF Clean, Fields
  <2>4. Reading(f) = Reading(e)
    BY <2>1, <2>2 DEF Reading, Clean, Fields
  <2>5. v # NoId /\ v # BadId
    BY <2>2 DEF mint_version, NoId, BadId
  <2>6. v = mint_version(f)
    BY <2>2, <2>4 DEF mint_version
  <2>7. same_reading(f, e)
    BY <2>4 DEF same_reading
  <2>8. Clean(f)
    BY <2>3, <2>5, <2>7, SameReading
  <2> QED
    BY <2>3, <2>5, <2>6, <2>7, <2>8 DEF Kept
<1> QED
  BY <1>1, <1>2

(* A table settled.                                                        *)
LEMMA SettledTable ==
  ASSUME NEW entries, IsSeq(entries), Clear(entries), Distinct(entries)
  PROVE  LET t == settle_versions(entries)
         IN  /\ IsSeq(t) /\ Clear(t) /\ Distinct(t) /\ KeptAll(t) /\ SameEntries(t, entries)
             /\ \A c : DatedAll(entries, c) => DatedAll(t, c)
<1>1. PICK t : t = settle_versions(entries)
  OBVIOUS
<1>2. /\ t = [i \in DOMAIN entries |-> IF Kept(entries[i]) THEN entries[i]
                ELSE [entries[i] EXCEPT !.version = mint_version(entries[i])]]
  BY <1>1 DEF settle_versions
<1>3. DOMAIN t = DOMAIN entries /\ IsSeq(t)
  BY <1>2, OverPlaces
<1>4. ASSUME NEW i \in DOMAIN entries
      PROVE  Clean(t[i]) /\ Kept(t[i]) /\ same_reading(t[i], entries[i])
  BY <1>2, SettledEntry DEF Clear
<1>5. ASSUME NEW i \in DOMAIN entries
      PROVE  /\ duplicate_key(t[i]) = duplicate_key(entries[i])
             /\ \A c : DatesRead(entries[i], c) => DatesRead(t[i], c)
  <2>1. Clean(entries[i]) /\ Fields(t[i]) /\ same_reading(t[i], entries[i])
    BY <1>4 DEF Clear, Clean
  <2> QED
    BY <2>1, SameReading
<1>6. Distinct(t)
  BY <1>3, <1>5 DEF Distinct
<1>7. Clear(t) /\ KeptAll(t) /\ SameEntries(t, entries)
  BY <1>3, <1>4 DEF Clear, KeptAll, SameEntries
<1>8. \A c : DatedAll(entries, c) => DatedAll(t, c)
  BY <1>3, <1>5 DEF DatedAll
<1> QED
  BY <1>1, <1>3, <1>6, <1>7, <1>8

(* The table stored is what its rows compiled to on the clock it was read  *)
(* on; the table in effect is in order on the clock in effect.             *)
Documented(d) ==
  d # NoTable => /\ Filing(d.rows) /\ d.clock \in Clocks
                 /\ d.entries = settle_versions(compile(d.rows, d.clock).entries)

InOrder(entries, c) ==
  IsSeq(entries) /\ Clear(entries) /\ Distinct(entries) /\ KeptAll(entries) /\ DatedAll(entries, c)

(* The seed is in order, and so is what a sheet compiles to.               *)
LEMMA SeedInOrder ==
  ASSUME NEW c
  PROVE  InOrder(seed, c)
BY Signs, SeedIsClean DEF parse_date, date_cell, DatesRefuse, Undated, DatesRead,
   InOrder, Clear, KeptAll, DatedAll

LEMMA ReadInOrder ==
  ASSUME NEW c \in Clocks, NEW rows, Filing(rows)
  PROVE  InOrder(settle_versions(compile(rows, c).entries), c)
BY CompiledTable, SettledTable DEF InOrder

(* The table in effect is, and is the one in force on the clock it was     *)
(* committed on.                                                           *)
LEMMA InEffectInOrder ==
  ASSUME NEW d, Documented(d), NEW c \in Clocks
  PROVE  /\ InOrder(table_in_effect(d, c), c)
         /\ d = NoTable \/ d.clock = c => table_in_effect(d, c) = rules_in_force(d)
<1>1. CASE d = NoTable
  BY <1>1, SeedReadsBack, SeedInOrder DEF table_in_effect, rules_in_force
<1>2. CASE d # NoTable
  <2>1. PICK compiled : compiled = compile(d.rows, c).entries
    OBVIOUS
  <2>2. PICK stored : stored = d.entries
    OBVIOUS
  <2>3. PICK settled : settled = settle_versions(compiled)
    OBVIOUS
  <2>4. Filing(d.rows) /\ d.clock \in Clocks /\ stored = settle_versions(compile(d.rows, d.clock).entries)
    BY <1>2, <2>2 DEF Documented
  <2>5. InOrder(stored, d.clock) /\ InOrder(settled, c)
    BY <2>1, <2>3, <2>4, ReadInOrder
  <2>6. IsSeq(compiled) /\ Clear(compiled) /\ DatedAll(compiled, c) /\ Distinct(compiled)
    BY <2>1, <2>4, CompiledTable
  <2>7. table_in_effect(d, c) = IF Len(compiled) = Len(stored) /\ \A i \in DOMAIN compiled : same_reading(compiled[i], stored[i])
                                THEN stored ELSE settled
    BY <1>2, <2>1, <2>2, <2>3 DEF table_in_effect, document_table, StoredIfSame
  <2>8. CASE Len(compiled) = Len(stored) /\ \A i \in DOMAIN compiled : same_reading(compiled[i], stored[i])
    <3>1. DOMAIN compiled = DOMAIN stored
      BY <2>5, <2>6, <2>8, Places DEF InOrder
    <3>2. ASSUME NEW i \in DOMAIN stored PROVE DatesRead(stored[i], c)
      BY <2>5, <2>6, <3>1, <2>8, SameReading DEF Clear, DatedAll, InOrder, Clean,
         same_reading
    <3>3. InOrder(stored, c)
      BY <2>5, <3>2 DEF InOrder, DatedAll
    <3> QED
      BY <1>2, <2>2, <2>7, <2>8, <3>3 DEF rules_in_force
  <2>9. CASE ~(Len(compiled) = Len(stored) /\ \A i \in DOMAIN compiled : same_reading(compiled[i], stored[i]))
    <3>1. SUFFICES ASSUME d.clock = c PROVE FALSE
      BY <1>2, <2>5, <2>7, <2>9
    <3>2. stored = settled
      BY <2>1, <2>3, <2>4, <3>1
    <3>3. SameEntries(stored, compiled)
      BY <2>3, <2>6, <3>2, SettledTable
    <3>4. Len(compiled) = Len(stored)
      <4>1. Len(compiled) \in Nat /\ Len(stored) \in Nat /\ DOMAIN compiled = 1 .. Len(compiled) /\ DOMAIN stored = 1 .. Len(stored)
        BY <2>5, <2>6, Places DEF InOrder
      <4>2. 1 .. Len(compiled) = 1 .. Len(stored)
        BY <3>3, <4>1 DEF SameEntries
      <4>3. \A m, n \in Nat : 1 .. m = 1 .. n => m <= n
        OBVIOUS
      <4>4. PICK m \in Nat : m = Len(compiled)
        BY <4>1
      <4>5. PICK n \in Nat : n = Len(stored)
        BY <4>1
      <4>6. m <= n /\ n <= m
        BY <4>2, <4>3, <4>4, <4>5
      <4> QED
        BY <4>4, <4>5, <4>6
    <3> QED
      BY <2>9, <3>3, <3>4 DEF SameEntries, same_reading
  <2> QED
    BY <2>8, <2>9
<1> QED
  BY <1>1, <1>2

-----------------------------------------------------------------------------
(* A sheet stays one: exported, edited or parsed.                          *)
LEMMA ExportIsSheet ==
  ASSUME NEW c \in Clocks, NEW entries, InOrder(entries, c)
  PROVE  IsSheet(export_csv(entries, c))
<1>1. PICK rows : rows = [i \in DOMAIN entries |-> export_row(entries[i], c)]
  OBVIOUS
<1>2. export_csv(entries, c).rows = rows /\ IsSeq(rows)
  BY <1>1, ExportedRows DEF export_csv, InOrder
<1>3. ASSUME NEW d \in Int \cup {None} PROVE date_cell(d, c) \in Dates \cup {None}
  <2>1. CASE d = None
    BY <2>1 DEF date_cell
  <2>2. CASE d # None
    BY ClockNumbers, <2>2, DaysAreDates DEF Civil!offset_at, Civil!local,
       Civil!OnTheWall, Civil!Day, date_cell
  <2> QED
    BY <2>1, <2>2
<1>4. ASSUME NEW i \in DOMAIN rows PROVE IsRow(rows[i])
  <2>1. PICK e : e = entries[i]
    OBVIOUS
  <2>2. rows[i] = export_row(e, c) /\ Clean(e) /\ DatesRead(e, c)
    BY <1>1, <2>1 DEF InOrder, Clear, DatedAll
  <2>0. PICK hops : hops = IF e.via = None THEN [lo |-> 0, hi |-> 0] ELSE [lo |-> e.max_hops, hi |-> e.max_hops]
    OBVIOUS
  <2>7. PICK row : row = export_row(e, c)
    OBVIOUS
  <2>3. /\ row.hops = hops /\ row.minutes = e.hold
        /\ row.effective_from = date_cell(e.effective_from, c)
        /\ row.effective_to = date_cell(e.effective_to, c)
    BY <2>0, <2>7 DEF export_row
  <2>4. e.max_hops \in Nat /\ e.hold \in Nat \cup {None}
    BY <2>2 DEF Clean, Reach, Holds
  <2>5. row.hops \in Hops
    BY <2>0, <2>3, <2>4 DEF Hops
  <2>6. date_cell(e.effective_from, c) \in Dates \cup {None} /\ date_cell(e.effective_to, c) \in Dates \cup {None}
    BY <1>3, <2>2 DEF DatesRead
  <2> QED
    BY <2>2, <2>3, <2>4, <2>5, <2>6, <2>7 DEF IsRow
<1> QED
  BY <1>2, <1>4 DEF IsSheet

(* The rows of a sheet parsed, comments gone.                              *)
LEMMA ParsedSheet ==
  ASSUME NEW s, IsSheet(s)
  PROVE  Filing(parse(s).rows)
<1>1. PICK ss : ss = [i \in DOMAIN s.rows |-> Cells(s.rows[i])]
  OBVIOUS
<1>2. PICK rows : rows = FlattenSeq(ss)
  OBVIOUS
<1>3. parse(s).rows = rows
  BY <1>1, <1>2 DEF parse
<1>4. IsSeq(ss) /\ DOMAIN ss = DOMAIN s.rows
  BY <1>1, OverPlaces DEF IsSheet
<1>5. \A i \in DOMAIN ss : ss[i] = IF s.rows[i].rule = "#" THEN <<>> ELSE <<s.rows[i]>>
  BY <1>1, <1>4 DEF Cells, is_comment_or_blank
<1>6. IsSeq(<<>>) /\ ToSet(<<>>) = {} /\ \A x : IsSeq(<<x>>) /\ ToSet(<<x>>) = {x}
  BY DEF IsSeq, ToSet
<1>0. \A i \in DOMAIN ss : IsSeq(ss[i])
  BY <1>5, <1>6
<1>7. IsSeq(rows) /\ ToSet(rows) = UNION {ToSet(ss[i]) : i \in DOMAIN ss}
  BY <1>0, <1>2, <1>4, Flat
<1>8. ASSUME NEW i \in DOMAIN rows PROVE IsRow(rows[i]) /\ rows[i].rule # "#"
  <2>1. rows[i] \in ToSet(rows)
    BY DEF ToSet
  <2>2. PICK j \in DOMAIN ss : rows[i] \in ToSet(ss[j])
    BY <1>7, <2>1
  <2>3. rows[i] = s.rows[j] /\ s.rows[j].rule # "#"
    BY <1>5, <1>6, <2>2
  <2> QED
    BY <1>4, <2>3 DEF IsSheet
<1> QED
  BY <1>3, <1>7, <1>8 DEF Filing

(* A text that compiles.                                                   *)
LEMMA TextCompiles ==
  ASSUME NEW s, NEW c, compile_text(s, c).ok
  PROVE  /\ compile_text(s, c).rows = parse(s).rows
         /\ compile_text(s, c).entries = settle_versions(compile(parse(s).rows, c).entries)
<1>1. PICK k : k = compile(parse(s).rows, c)
  OBVIOUS
<1>2. DOMAIN k = {"ok", "rows", "entries"} /\ (k.ok => k.rows = parse(s).rows)
  BY <1>1 DEF compile, Filed, Refused
<1>3. compile_text(s, c) = [k EXCEPT !.entries = settle_versions(k.entries)]
  BY <1>1 DEF compile_text, Refused, Settled
<1> QED
  BY <1>1, <1>2, <1>3

(* A request at the door: what it brings is what its text compiled to on   *)
(* the clock it read, what it found is the table in effect of the document *)
(* it replaces, and what it counted is of those two at the instant it read *)
(* the hull.                                                               *)
Brings(q) ==
  /\ q.op \in {"preview", "commit"} /\ {"rows", "entries"} \subseteq DOMAIN q
  /\ Filing(q.rows)
  /\ q.entries = settle_versions(compile(q.rows, q.clock).entries)

Found(q) ==
  /\ {"current", "replaces"} \subseteq DOMAIN q
  /\ Documented(q.replaces)
  /\ q.current = table_in_effect(q.replaces, q.clock)

Counted(q) ==
  /\ q.op \notin {"csv", "get"} /\ q.at \in Int
  /\ q.moved = moved(q.current, q.entries,
                     bearing_on(Hull.hazards, q.at, tail_of(q.current, q.entries)), q.at)

AtTheDoor(q) ==
  /\ {"op", "pc", "clock"} \subseteq DOMAIN q
  /\ q.pc \in {"table", "hull", "answer"} /\ q.clock \in Clocks
  /\ q.op \in {"csv", "get"} \/ Brings(q)
  /\ q.pc = "hull" => q.op # "csv"
  /\ q.pc \in {"hull", "answer"} => Found(q)
  /\ q.pc = "answer" => Counted(q)

Request(q) == q = Idle \/ AtTheDoor(q)

(* The sheet on the desk is one, the table stored is what its rows compile *)
(* to, and so is what is under way at the door.                            *)
SheetInv ==
  /\ IsSheet(sheet) /\ Documented(doc) /\ clock \in Clocks /\ at \in Int
  /\ DOMAIN req = Requests /\ \A r \in Requests : Request(req[r])

LEMMA TextDocumented ==
  ASSUME NEW c \in Clocks, NEW s, IsSheet(s), compile_text(s, c).ok
  PROVE  /\ Filing(compile_text(s, c).rows)
         /\ compile_text(s, c).entries = settle_versions(compile(compile_text(s, c).rows, c).entries)
BY TextCompiles, ParsedSheet

LEMMA InitSheet ==
  ASSUME Init
  PROVE  SheetInv
<1>1. clock \in Clocks /\ at \in Int
  BY WallClockAssumption DEF Init
<1>2. Documented(doc)
  <2>1. CASE doc = NoTable
    BY <2>1 DEF Documented
  <2>2. CASE doc # NoTable
    BY <2>2, FirstSheetsAssumption, TextDocumented DEF Init, Earlier, Compiles,
       Documented
  <2> QED
    BY <2>1, <2>2
<1>3. IsSheet(sheet)
  BY <1>1, <1>2, InEffectInOrder, ExportIsSheet DEF Init
<1>4. DOMAIN req = Requests /\ \A r \in Requests : Request(req[r])
  BY DEF Init, Request
<1> QED
  BY <1>1, <1>2, <1>3, <1>4 DEF SheetInv

(* A request that goes on leaves the others where they are.                *)
LEMMA Going ==
  ASSUME SheetInv, NEW r \in Requests, NEW q, Request(q), req' = [req EXCEPT ![r] = q]
  PROVE  DOMAIN req' = Requests /\ \A x \in Requests : Request(req'[x])
BY DEF SheetInv

LEMMA AtDoor ==
  ASSUME SheetInv, NEW r \in Requests, req[r].pc \in {"table", "hull", "answer"}
  PROVE  AtTheDoor(req[r])
BY DEF SheetInv, Request, Idle

(* What is asked, read and counted.                                        *)
LEMMA AskKeeps ==
  ASSUME SheetInv, NEW r \in Requests, AskTable(r) \/ AskImport(r)
  PROVE  SheetInv'
<1>1. CASE AskTable(r)
  <2>1. PICK op \in {"csv", "get"} : Asks(r, [op |-> op, pc |-> "table", clock |-> clock])
    BY <1>1 DEF AskTable
  <2>2. Request([op |-> op, pc |-> "table", clock |-> clock])
    BY DEF Request, AtTheDoor, SheetInv
  <2> QED
    BY <2>1, <2>2, Going DEF Asks, SheetInv
<1>2. CASE AskImport(r)
  BY <1>2, TextDocumented, Going DEF AskImport, Proposes, SheetInv, Brings, Request,
     AtTheDoor, Asks
<1> QED
  BY <1>1, <1>2

LEMMA ReadKeeps ==
  ASSUME SheetInv, NEW r \in Requests, ReadTable(r) \/ ReadHull(r)
  PROVE  SheetInv'
<1>1. PICK q : q = req[r]
  OBVIOUS
<1>2. CASE ReadTable(r)
  <2>1. q.pc = "table" /\ q.op # "csv" /\ AtTheDoor(q)
    BY <1>1, <1>2, AtDoor DEF ReadTable
  <2>2. PICK entries : entries = table_in_effect(doc, q.clock)
    OBVIOUS
  <2>3. PICK f : f = Merged([pc |-> "hull", current |-> entries, replaces |-> doc], q)
    OBVIOUS
  <2>4. /\ f.pc = "hull" /\ f.current = entries /\ f.replaces = doc
        /\ {"pc", "current", "replaces"} \cup DOMAIN q \subseteq DOMAIN f
        /\ \A x \in DOMAIN q \ {"pc", "current", "replaces"} : f[x] = q[x]
    BY <2>3 DEF Merged
  <2>5. f.op = q.op /\ f.clock = q.clock
    BY <2>1, <2>4 DEF AtTheDoor
  <2>6. Found(f)
    BY <2>2, <2>4, <2>5 DEF Found, SheetInv
  <2>7. Brings(q) => Brings(f)
    BY <2>4, <2>5 DEF Brings
  <2>8. Request(f)
    BY <2>1, <2>4, <2>5, <2>6, <2>7 DEF Request, AtTheDoor
  <2>9. req' = [req EXCEPT ![r] = f] /\ UNCHANGED <<clock, at, doc, sheet>>
    BY <1>1, <1>2, <2>2, <2>3 DEF ReadTable, Goes
  <2> QED
    BY <2>8, <2>9, Going DEF SheetInv
<1>3. CASE ReadHull(r)
  <2>1. q.pc = "hull" /\ q.op # "get" /\ AtTheDoor(q)
    BY <1>1, <1>3, AtDoor DEF ReadHull
  <2>2. Found(q) /\ Brings(q)
    BY <2>1 DEF AtTheDoor
  <2>3. PICK m : m = moved(q.current, q.entries,
                           bearing_on(Hull.hazards, at, tail_of(q.current, q.entries)), at)
    OBVIOUS
  <2>4. PICK f : f = Merged([pc |-> "answer", at |-> at, moved |-> m], q)
    OBVIOUS
  <2>5. /\ f.pc = "answer" /\ f.at = at /\ f.moved = m
        /\ {"pc", "at", "moved"} \cup DOMAIN q \subseteq DOMAIN f
        /\ \A x \in DOMAIN q \ {"pc", "at", "moved"} : f[x] = q[x]
    BY <2>4 DEF Merged
  <2>6. /\ f.op = q.op /\ f.clock = q.clock /\ f.rows = q.rows /\ f.entries = q.entries
        /\ f.current = q.current /\ f.replaces = q.replaces
    BY <2>1, <2>2, <2>5 DEF AtTheDoor, Found, Brings
  <2>7. Found(f) /\ Brings(f)
    BY <2>2, <2>5, <2>6 DEF Found, Brings
  <2>8. Counted(f)
    BY <2>2, <2>3, <2>5, <2>6 DEF Counted, Brings, SheetInv
  <2>9. Request(f)
    BY <2>1, <2>5, <2>6, <2>7, <2>8 DEF Request, AtTheDoor
  <2>10. req' = [req EXCEPT ![r] = f] /\ UNCHANGED <<clock, at, doc, sheet>>
    BY <1>1, <1>3, <2>3, <2>4 DEF ReadHull, Goes
  <2> QED
    BY <2>9, <2>10, Going DEF SheetInv
<1> QED
  BY <1>2, <1>3

(* What a request commits is a table as it may stand in the store.         *)
LEMMA Committed ==
  ASSUME NEW q, AtTheDoor(q), Brings(q)
  PROVE  /\ Documented(Table(q)) /\ Table(q) # NoTable
         /\ Table(q).entries = q.entries /\ InOrder(q.entries, q.clock)
<1>1. PICK d : d = Table(q)
  OBVIOUS
<1>2. d.rows = q.rows /\ d.entries = q.entries /\ d.clock = q.clock
  BY <1>1 DEF Table
<1>3. Filing(q.rows) /\ q.clock \in Clocks /\ q.entries = settle_versions(compile(q.rows, q.clock).entries)
  BY DEF AtTheDoor, Brings
<1>4. Documented(d)
  BY <1>2, <1>3 DEF Documented
<1>5. d # NoTable
  BY <1>2, <1>3, ClocksAssumption DEF NoTable
<1> QED
  BY <1>1, <1>2, <1>3, <1>4, <1>5, ReadInOrder

LEMMA AnswerKeeps ==
  ASSUME SheetInv, NEW r \in Requests,
         Export(r) \/ get_rule_table(r) \/ Preview(r) \/ Commit(r)
  PROVE  SheetInv'
<1>1. Request(Idle)
  BY DEF Request
<1>2. CASE Export(r)
  <2>1. PICK q : q = req[r]
    OBVIOUS
  <2>2. AtTheDoor(q)
    BY <1>2, <2>1, AtDoor DEF Export
  <2>3. PICK entries : entries = table_in_effect(doc, q.clock)
    OBVIOUS
  <2>4. q.clock \in Clocks /\ InOrder(entries, q.clock)
    BY <2>2, <2>3, InEffectInOrder DEF AtTheDoor, SheetInv
  <2>5. IsSheet(export_csv(entries, q.clock))
    BY <2>4, ExportIsSheet
  <2>6. /\ sheet' = export_csv(entries, q.clock) /\ req' = [req EXCEPT ![r] = Idle]
        /\ UNCHANGED <<clock, at, doc>>
    BY <1>2, <2>1, <2>3 DEF Export, Goes
  <2> QED
    BY <1>1, <2>5, <2>6, Going DEF SheetInv
<1>3. CASE get_rule_table(r) \/ Preview(r)
  <2>1. req' = [req EXCEPT ![r] = Idle] /\ UNCHANGED <<clock, at, doc, sheet>>
    BY <1>3 DEF get_rule_table, Preview, Goes
  <2> QED
    BY <1>1, <2>1, Going DEF SheetInv
<1>4. CASE Commit(r)
  <2>1. PICK q : q = req[r]
    OBVIOUS
  <2>2. q.op = "commit" /\ AtTheDoor(q)
    BY <1>4, <2>1, AtDoor DEF Commit
  <2>3. Brings(q)
    BY <2>2 DEF AtTheDoor
  <2>4. doc' = Table(q) /\ req' = [req EXCEPT ![r] = Idle] /\ UNCHANGED <<clock, at, sheet>>
    BY <1>4, <2>1 DEF Commit, Goes
  <2>5. Documented(doc')
    BY <2>2, <2>3, <2>4, Committed
  <2> QED
    BY <1>1, <2>4, <2>5, Going DEF SheetInv
<1> QED
  BY <1>2, <1>3, <1>4

LEMMA StepSheet ==
  ASSUME SheetInv, [Next]_vars
  PROVE  SheetInv'
<1>1. ASSUME NEW r \in Requests, Step(r) PROVE SheetInv'
  BY <1>1, AskKeeps, ReadKeeps, AnswerKeeps DEF Step
<1>2. CASE Edit
  BY <1>2 DEF Edit, SheetInv
<1>3. CASE revert_rule_table
  BY <1>3 DEF revert_rule_table, SheetInv, Documented
<1>4. CASE import_yard_clock \/ Tick \/ UNCHANGED vars
  BY <1>4, WallClockAssumption DEF import_yard_clock, Tick, vars, SheetInv
<1> QED
  BY <1>1, <1>2, <1>3, <1>4 DEF Next

(* The sheet on the desk is one; the table stored is what its rows read    *)
(* as on the clock it was committed on, and a request at the door holds    *)
(* the table it found, what it brings and what it counted between them.    *)
THEOREM SheetsInOrder == Spec => []SheetInv
BY InitSheet, StepSheet, PTL DEF Spec

-----------------------------------------------------------------------------
(* The ids.                                                                *)
LEMMA DocumentStored ==
  ASSUME NEW d, Documented(d)
  PROVE  Stored(d)
<1>1. CASE d = NoTable
  BY <1>1 DEF NoTable, Stored, Versioned, AllFaithful, IsSeq, ToSet
<1>2. CASE d # NoTable
  BY <1>2, CompiledEntries, SettledIsFaithful DEF Documented, Filing, Stored
<1> QED
  BY <1>1, <1>2

(* The tables a request has in hand.                                       *)
LEMMA HeldTables ==
  ASSUME NEW q, AtTheDoor(q)
  PROVE  /\ Brings(q) => Versioned(q.entries) /\ AllFaithful(q.entries)
         /\ Found(q) => Versioned(q.current) /\ AllFaithful(q.current)
<1>1. ASSUME Brings(q) PROVE Versioned(q.entries) /\ AllFaithful(q.entries)
  <2>1. Versioned(compile(q.rows, q.clock).entries)
    BY <1>1, CompiledEntries DEF Brings, Filing
  <2> QED
    BY <1>1, <2>1, SettledIsFaithful DEF Brings
<1>2. ASSUME Found(q) PROVE Versioned(q.current) /\ AllFaithful(q.current)
  BY <1>2, DocumentStored, InEffectIsFaithful DEF Found
<1> QED
  BY <1>1, <1>2

(* Every table in force or served carries ids that are faithful to its     *)
(* rows.                                                                   *)
TableInv == SheetInv /\ \A x \in named : Faithful(x)

LEMMA InitTable ==
  ASSUME Init
  PROVE  TableInv
BY InitSheet, DocumentStored, SeedIsFaithful, InEffectIsFaithful, NamesFaithful DEF
   SheetInv, Stored, TableInv, Init

LEMMA StepTable ==
  ASSUME TableInv, [Next]_vars
  PROVE  TableInv'
<1>1. SheetInv /\ SheetInv'
  BY StepSheet DEF TableInv
<1>2. CASE named' = named
  BY <1>1, <1>2 DEF TableInv
<1>3. ASSUME NEW r \in Requests, Export(r) \/ get_rule_table(r) \/ Commit(r)
      PROVE  TableInv'
  <2>1. PICK q : q = req[r]
    OBVIOUS
  <2>2. AtTheDoor(q)
    BY <1>1, <1>3, <2>1, AtDoor DEF Export, get_rule_table, Commit
  <2>3. ASSUME NEW entries, AllFaithful(entries), named' = named \cup Names(entries)
        PROVE  TableInv'
    BY <1>1, <2>3, NamesFaithful DEF TableInv
  <2>4. CASE Export(r)
    BY <1>1, DocumentStored, InEffectIsFaithful, <2>1, <2>4, <2>3 DEF SheetInv, Export
  <2>5. CASE get_rule_table(r)
    <3>1. q.pc = "hull" /\ named' = named \cup Names(q.current)
      BY <2>1, <2>5 DEF get_rule_table
    <3>2. AllFaithful(q.current)
      BY <2>2, <3>1, HeldTables DEF AtTheDoor
    <3> QED
      BY <2>3, <3>1, <3>2
  <2>6. CASE Commit(r)
    <3>1. q.op = "commit" /\ named' = named \cup Names(q.entries)
      BY <2>1, <2>6 DEF Commit
    <3>2. AllFaithful(q.entries)
      BY <2>2, <3>1, HeldTables DEF AtTheDoor
    <3> QED
      BY <2>3, <3>1, <3>2
  <2> QED
    BY <1>3, <2>4, <2>5, <2>6
<1>4. ASSUME NEW r \in Requests, AskTable(r) \/ AskImport(r) \/ ReadTable(r) \/ ReadHull(r) \/ Preview(r)
      PROVE  named' = named
  BY <1>4 DEF AskTable, AskImport, Proposes, Asks, ReadTable, ReadHull, Preview
<1>5. CASE Edit \/ revert_rule_table \/ import_yard_clock \/ Tick \/ UNCHANGED vars
  BY <1>2, <1>5 DEF Edit, revert_rule_table, import_yard_clock, Tick, vars
<1> QED
  BY <1>2, <1>3, <1>4, <1>5 DEF Next, Step

(* The table stored, what is under way at the door and every table served  *)
(* or committed before carry ids that are faithful to their rows.          *)
THEOREM TableFaithful == Spec => []TableInv
BY InitTable, StepTable, PTL DEF Spec

(* A version names one reading for good, whatever is edited, imported,     *)
(* reverted or read on another clock (settle_versions).                    *)
THEOREM OneReading == Spec => []VersionsNameOneReading
<1>1. ASSUME TableInv PROVE VersionsNameOneReading
  <2>1. \A i \in DOMAIN seed : seed[i].version = <<"seed", i>>
    BY DEF seed, Merged
  <2>2. SUFFICES ASSUME NEW x \in named, NEW y \in named, x[1] = y[1]
                 PROVE  x[2] = y[2]
    BY DEF VersionsNameOneReading
  <2>3. Faithful(x) /\ Faithful(y)
    BY <1>1 DEF TableInv
  <2>4. \A v : <<"minted", v>>[1] = "minted" /\ <<"minted", v>>[2] = v
    OBVIOUS
  <2>5. \A i : <<"seed", i>>[1] = "seed" /\ <<"seed", i>>[2] = i
    OBVIOUS
  <2>6. \A i \in DOMAIN seed : Pair(seed[i])[1] = <<"seed", i>>
    BY <2>1 DEF Pair
  <2> QED
    BY <2>2, <2>3, <2>4, <2>5, <2>6 DEF Faithful
<1> QED
  BY <1>1, TableFaithful, PTL

-----------------------------------------------------------------------------
(* A line in a trace is from an entry that fires there: its hazard is a    *)
(* source, and the space is the hazard's own or a place its cascade found. *)
LEMMA FiresThere ==
  ASSUME NEW e, IsEntry(e), NEW hazards, NEW rules, NEW t, NEW i \in DOMAIN hazards, NEW s,
         Lines(WorldOf(rules, hazards, t), hazards[i], e, s) # <<>>
  PROVE  s \in fires_on(e, hazards, t) /\ e.via \in coupling_codes \cup {None}
<1> DEFINE h == hazards[i]
           w == WorldOf(rules, hazards, t)
           hits == cascade_from(Hull.graph, h.origin, e)
<1>1. w.graph = Hull.graph /\ w.at = t /\ IsSeq(Hull.graph)
  BY HullAssumption DEF WorldOf
<1>2. Speaks(h, e, t) /\ PathsTo(w, h, e, s) # <<>>
  BY <1>1, LinesType
<1>3. IF e.via = None THEN h.origin = s ELSE \E j \in DOMAIN hits : hits[j].space = s
  BY <1>1, <1>2, PathsType
<1>4. i \in Sources(e, hazards, t)
  BY <1>2 DEF Sources, Speaks, IsEntry
<1>5. s \in fires_on(e, hazards, t)
  BY <1>3, <1>4 DEF fires_on
<1>6. ASSUME e.via # None PROVE e.via \in coupling_codes
  <2>1. hits \in Seq(HitsOver(Hull.graph, e))
    BY <1>1, CascadeType
  <2>2. PICK j \in DOMAIN hits : TRUE
    BY <1>3, <1>6
  <2>3. hits[j] \in HitsOver(Hull.graph, e)
    BY <2>1, <2>2
  <2>4. \E c \in ToSet(Hull.graph) : c.code = e.via
    BY <2>3 DEF HitsOver
  <2> QED
    BY <2>4 DEF ToSet, coupling_codes
<1> QED
  BY <1>5, <1>6

LEMMA Unfound ==
  ASSUME NEW entries, NEW e, e.via \in coupling_codes \cup {None}
  PROVE  <<"fires on nothing", e.code, e.via>> \notin findings(entries)
<1> DEFINE found == <<"fires on nothing", e.code, e.via>>
<1>1. \A a, b, c, d : <<a, b, c>> # <<d>>
  OBVIOUS
<1>2. \A a, b, c, d, x : <<a, b, c>> # <<d, x>>
  OBVIOUS
<1>3. found \notin row_findings(entries)
  BY DEF row_findings
<1>4. \A x \in findings(entries) \ row_findings(entries) :
        x = <<"nothing compiles">> \/ \E wt : x = <<"judged by the any-work rows only", wt>>
  BY DEF findings
<1>5. found # <<"nothing compiles">> /\ \A wt : found # <<"judged by the any-work rows only", wt>>
  BY <1>1, <1>2
<1> HIDE DEF found
<1>6. found \notin findings(entries)
  BY <1>3, <1>4, <1>5
<1> QED
  BY <1>6 DEF found

(* What the door says of a table - the one it found in force or the one a  *)
(* request brings, with whatever hazards the longer tail keeps - is told   *)
(* of every line: a line in a space's trace is from an entry reported to   *)
(* fire there, the activity it judges is counted, and the entry is not     *)
(* found to fire on nothing (fires_on, activities_bound, row_findings).    *)
THEOREM FiringReported == Spec => []FiringIsReported
<1>1. ASSUME TableInv, NEW r \in Requests, req[r].pc = "hull" PROVE ToldBy(Reported(req[r]))
  <2>0. PICK q : q = req[r]
    OBVIOUS
  <2>1. PICK entries : entries = IF q.op = "get" THEN q.current ELSE q.entries
    OBVIOUS
  <2>2. Versioned(entries)
    <3>1. AtTheDoor(q) /\ q.pc = "hull"
      BY <1>1, <2>0, AtDoor DEF TableInv
    <3>2. q.op = "get" \/ Brings(q)
      BY <3>1 DEF AtTheDoor
    <3> QED
      BY <2>1, <3>1, <3>2, HeldTables DEF AtTheDoor
  <2>3. PICK hazards : hazards = bearing_on(Hull.hazards, at,
                                  IF q.op = "get" THEN longest_end_anchored_hold(q.current)
                                  ELSE tail_of(q.current, q.entries))
    OBVIOUS
  <2>4. PICK w : w = WorldOf(entries, hazards, at)
    OBVIOUS
  <2>5. w.hazards = hazards
    BY <2>4 DEF WorldOf
  <2>6. ASSUME NEW i \in DOMAIN entries, NEW s, Leaves(w, entries[i], s)
        PROVE  /\ s \in fires_on(entries[i], hazards, at)
               /\ <<"fires on nothing", entries[i].code, entries[i].via>> \notin findings(entries)
    <3>1. PICK j \in DOMAIN hazards : Lines(w, hazards[j], entries[i], s) # <<>>
      BY <2>5, <2>6 DEF Leaves
    <3>2. IsEntry(entries[i])
      BY <2>2 DEF Versioned
    <3>3. s \in fires_on(entries[i], hazards, at) /\ entries[i].via \in coupling_codes \cup {None}
      BY <2>4, <3>1, <3>2, FiresThere
    <3> QED
      BY <3>3, Unfound
  <2>7. PICK report : report = Report(entries, hazards)
    OBVIOUS
  <2>8. /\ report.entries = entries /\ report.hazards = hazards /\ report.findings = findings(entries)
        /\ \A i \in DOMAIN entries : /\ report.fires[i] = fires_on(entries[i], hazards, at)
                                     /\ report.bound[i] = activities_bound(entries[i], hazards, at)
    BY <2>7 DEF Report
  <2>9. Tells(report, w)
    <3> SUFFICES ASSUME NEW i \in DOMAIN entries
                 PROVE  /\ \A s \in HullSpaces : Leaves(w, entries[i], s) =>
                             /\ s \in report.fires[i]
                             /\ <<"fires on nothing", entries[i].code, entries[i].via>> \notin report.findings
                        /\ \A a \in Hull.activities :
                             /\ ~a.milestone /\ Leaves(w, entries[i], a.space)
                             /\ binds(entries[i], [work_type |-> a.work_type,
                                                   category |-> Hull.category[a.space]], at)
                             => a \in report.bound[i]
      BY <2>8 DEF Tells
    <3>1. \A s \in HullSpaces : Leaves(w, entries[i], s) =>
            /\ s \in report.fires[i]
            /\ <<"fires on nothing", entries[i].code, entries[i].via>> \notin report.findings
      BY <2>6, <2>8
    <3>2. ASSUME NEW a \in Hull.activities, ~a.milestone, Leaves(w, entries[i], a.space),
                 binds(entries[i], [work_type |-> a.work_type, category |-> Hull.category[a.space]], at)
          PROVE  a \in report.bound[i]
      <4>1. a.space \in fires_on(entries[i], hazards, at)
        BY <2>6, <3>2
      <4> QED
        BY <2>8, <3>2, <4>1 DEF activities_bound
    <3> QED
      BY <3>1, <3>2
  <2>10. Reported(q) = report
    BY <2>1, <2>3, <2>7 DEF Reported
  <2> QED
    BY <2>0, <2>4, <2>8, <2>9, <2>10 DEF ToldBy
<1>2. TableInv => FiringIsReported
  BY <1>1 DEF FiringIsReported
<1> QED
  BY <1>2, TableFaithful, PTL

-----------------------------------------------------------------------------
(* The export of the table in effect reads back as it, its ids kept, when  *)
(* midnight is read as the day it begins, whatever was committed, reverted *)
(* or signed since the clock was read (export_row, parse_date).            *)
THEOREM ExportsReadBack == Spec => []ExportReadsBack
<1>1. ASSUME SheetInv PROVE ExportReadsBack
  <2>1. SUFFICES ASSUME NEW r \in Requests, req[r].pc = "table", SpringsForward(req[r].clock)
                 PROVE  ReadsBack(table_in_effect(doc, req[r].clock), req[r].clock)
    BY DEF ExportReadsBack
  <2>2. PICK c : c = req[r].clock
    OBVIOUS
  <2>3. PICK entries : entries = table_in_effect(doc, c)
    OBVIOUS
  <2>4. c \in Clocks
    BY <1>1, <2>1, <2>2, AtDoor DEF AtTheDoor
  <2>5. InOrder(entries, c)
    BY <1>1, <2>3, <2>4, InEffectInOrder DEF SheetInv
  <2>6. \A i \in DOMAIN entries :
          /\ ~DatesRefuse(entries[i].effective_from, entries[i].effective_to)
          /\ \A d \in {entries[i].effective_from, entries[i].effective_to} :
               parse_date(date_cell(d, c), c) = d
    BY <2>1, <2>2, <2>5 DEF InOrder, DatedAll, DatesRead
  <2>7. compile_text(export_csv(entries, c), c).entries = entries
    BY <2>5, <2>6, TableReadsBack DEF InOrder
  <2> QED
    BY <2>2, <2>3, <2>7 DEF ReadsBack
<1> QED
  BY <1>1, SheetsInOrder, PTL

-----------------------------------------------------------------------------
(* A state decided is the worst of those the rules say there.              *)
Said(w, s) ==
  {r.state : r \in {q \in ToSet(w.rules) : \E h \in ToSet(w.hazards) : Lines(w, h, q, s) # <<>>}}

LEMMA StateIsSaid ==
  ASSUME NEW w, IsSeq(w.graph), IsSeq(w.rules), IsSeq(w.hazards), NEW s
  PROVE  evaluate(w, s).state = Worst({"allow"} \cup Said(w, s))
<1>1. PICK trace : trace = Trace(w, s)
  OBVIOUS
<1>2. evaluate(w, s).state = Worst({"allow"} \cup {trace[k].state : k \in DOMAIN trace})
  BY <1>1 DEF evaluate, Decided
<1>3. ASSUME NEW k \in DOMAIN trace PROVE trace[k].state \in Said(w, s)
  <2>1. trace[k] \in ToSet(trace)
    BY DEF ToSet
  <2>2. PICK i \in DOMAIN w.hazards, j \in DOMAIN w.rules :
               trace[k] \in ToSet(Lines(w, w.hazards[i], w.rules[j], s))
    BY <1>1, <2>1, TraceHolds
  <2>3. ToSet(<<>>) = {}
    BY DEF ToSet
  <2>4. Lines(w, w.hazards[i], w.rules[j], s) # <<>> /\ trace[k].state = w.rules[j].state
    BY <2>2, <2>3, LinesType
  <2>5. w.hazards[i] \in ToSet(w.hazards) /\ w.rules[j] \in ToSet(w.rules)
    BY DEF ToSet
  <2> QED
    BY <2>4, <2>5 DEF Said
<1>4. ASSUME NEW x \in Said(w, s) PROVE \E k \in DOMAIN trace : x = trace[k].state
  <2>1. PICK r \in ToSet(w.rules) : x = r.state /\ \E h \in ToSet(w.hazards) : Lines(w, h, r, s) # <<>>
    BY DEF Said
  <2>2. PICK h \in ToSet(w.hazards) : Lines(w, h, r, s) # <<>>
    BY <2>1
  <2>3. PICK j \in DOMAIN w.rules : r = w.rules[j]
    BY DEF ToSet
  <2>4. PICK i \in DOMAIN w.hazards : h = w.hazards[i]
    BY DEF ToSet
  <2>5. PICK l \in ToSet(Lines(w, h, r, s)) : TRUE
    BY <2>2, LinesType, Empty
  <2>6. l \in ToSet(trace) /\ l.state = r.state
    BY <1>1, <2>3, <2>4, TraceHolds, LinesType
  <2> QED
    BY <2>1, <2>6 DEF ToSet
<1>5. {trace[k].state : k \in DOMAIN trace} = Said(w, s)
  BY <1>3, <1>4
<1> QED
  BY <1>2, <1>5

(* No hold from an end is longer than the longest, which one of them is.   *)
LEMMA TailOf ==
  ASSUME NEW rules, IsSeq(rules), \A i \in DOMAIN rules : Holds(rules[i])
  PROVE  /\ longest_end_anchored_hold(rules) \in Nat
         /\ \A i \in DOMAIN rules : EndAnchored(rules[i]) => rules[i].hold <= longest_end_anchored_hold(rules)
         /\ \/ longest_end_anchored_hold(rules) = 0
            \/ \E i \in DOMAIN rules : EndAnchored(rules[i]) /\ longest_end_anchored_hold(rules) = rules[i].hold
<1>1. PICK anchored : anchored = {j \in DOMAIN rules : EndAnchored(rules[j])}
  OBVIOUS
<1>2. PICK hold : hold = [i \in anchored |-> rules[i].hold]
  OBVIOUS
<1>3. PICK holds : holds = {hold[i] : i \in DOMAIN hold}
  OBVIOUS
<1>4. {rules[i].hold : i \in anchored} = holds
  BY <1>2, <1>3
<1>5. longest_end_anchored_hold(rules) = IF holds = {} THEN 0 ELSE Max(holds)
  BY <1>1, <1>4 DEF longest_end_anchored_hold
<1>6. holds \subseteq Nat
  BY <1>1, <1>2, <1>3 DEF EndAnchored, Holds
<1>7. IsFiniteSet(holds)
  <2>1. IsFiniteSet(DOMAIN rules)
    <3>1. Len(rules) \in Nat /\ DOMAIN rules = 1 .. Len(rules)
      BY Places
    <3> QED
      BY <3>1, FS_Interval
  <2>2. anchored \in SUBSET DOMAIN rules /\ DOMAIN hold = anchored
    BY <1>1, <1>2
  <2>3. IsFiniteSet(DOMAIN hold)
    BY <2>1, <2>2, FS_Subset
  <2> QED
    BY <1>3, <2>3, FiniteImage
<1>8. holds # {} => Max(holds) \in holds /\ \A x \in holds : x <= Max(holds)
  <2>1. holds \subseteq Int
    BY <1>6
  <2> QED
    BY <1>7, <2>1, Greatest
<1>9. \A i \in DOMAIN rules : EndAnchored(rules[i]) => rules[i].hold \in holds
  BY <1>1, <1>2, <1>3
<1>10. PICK longest : longest = longest_end_anchored_hold(rules)
  OBVIOUS
<1>11. longest \in Nat /\ (longest = 0 \/ longest \in holds) /\ \A x \in holds : x <= longest
  <2>1. CASE holds = {}
    BY <1>5, <1>10, <2>1
  <2>2. CASE holds # {}
    BY <1>5, <1>6, <1>8, <1>10, <2>2
  <2> QED
    BY <2>1, <2>2
<1>12. \A x \in holds : \E i \in DOMAIN rules : EndAnchored(rules[i]) /\ x = rules[i].hold
  BY <1>1, <1>2, <1>3
<1> QED
  BY <1>9, <1>10, <1>11, <1>12

(* The states under a table are those served, over any tail of its own or  *)
(* longer: what ended before its own leaves no line.                       *)
LEMMA SameStates ==
  ASSUME NEW entries, NEW c, InOrder(entries, c), NEW t \in Int, NEW tail \in Int,
         longest_end_anchored_hold(entries) <= tail
  PROVE  states_under(entries, bearing_on(Hull.hazards, t, tail), t)
           = [s \in HullSpaces |->
                evaluate(engine_inputs([graph |-> Hull.graph, hazards |-> Hull.hazards, rules |-> entries], t), s).state]
<1>1. PICK rules : rules = bound_to(entries, AnyWork, t)
  OBVIOUS
<1>2. IsSeq(entries) /\ IsSeq(rules) /\ ToSet(rules) \subseteq ToSet(entries)
  BY <1>1, BoundTo DEF InOrder
<1>3. \A r \in ToSet(entries) : Holds(r)
  BY DEF InOrder, Clear, Clean, ToSet
<1>4. /\ \A i \in DOMAIN entries : Holds(entries[i])
      /\ \A i \in DOMAIN rules : Holds(rules[i])
  BY <1>2, <1>3 DEF ToSet
<1>5. PICK own : own = longest_end_anchored_hold(rules)
  OBVIOUS
<1>6. own \in Nat /\ \A r \in ToSet(rules) : EndAnchored(r) => r.hold <= own
  BY <1>2, <1>4, <1>5, TailOf DEF ToSet
<1>7. tail \in Nat /\ own <= tail
  <2>1. PICK whole : whole = longest_end_anchored_hold(entries)
    OBVIOUS
  <2>2. whole \in Nat /\ \A r \in ToSet(entries) : EndAnchored(r) => r.hold <= whole
    BY <1>2, <1>4, <2>1, TailOf DEF ToSet
  <2>3. own = 0 \/ \E r \in ToSet(rules) : EndAnchored(r) /\ own = r.hold
    <3>1. own = 0 \/ \E i \in DOMAIN rules : EndAnchored(rules[i]) /\ own = rules[i].hold
      BY <1>2, <1>4, <1>5, TailOf
    <3> QED
      BY <3>1 DEF ToSet
  <2>4. own <= whole
    BY <1>2, <2>2, <2>3
  <2> QED
    BY <1>6, <2>1, <2>2, <2>4
<1>8. PICK more : more = bearing_on(Hull.hazards, t, tail)
  OBVIOUS
<1>9. PICK fewer : fewer = bearing_on(Hull.hazards, t, own)
  OBVIOUS
<1>10. /\ IsSeq(more) /\ IsSeq(fewer)
       /\ \A h : h \in ToSet(more) <=> h \in ToSet(Hull.hazards) /\ (h.ended = None \/ t < h.ended + tail)
       /\ \A h : h \in ToSet(fewer) <=> h \in ToSet(Hull.hazards) /\ (h.ended = None \/ t < h.ended + own)
  BY <1>8, <1>9, HullAssumption, Bearing, StillBearing
<1>11. \A h \in ToSet(Hull.hazards) : h.ended \in Int \cup {None}
  BY HullAssumption DEF ToSet
<1>12. PICK w : w = WorldOf(rules, more, t)
  OBVIOUS
<1>13. PICK v : v = engine_inputs([graph |-> Hull.graph, hazards |-> Hull.hazards, rules |-> entries], t)
  OBVIOUS
<1>14. /\ w.graph = Hull.graph /\ w.rules = rules /\ w.hazards = more /\ w.at = t
       /\ v.graph = Hull.graph /\ v.rules = rules /\ v.hazards = fewer /\ v.at = t
  BY <1>1, <1>5, <1>8, <1>9, <1>12, <1>13 DEF WorldOf, engine_inputs
<1>15. ASSUME NEW s, NEW h \in ToSet(more), NEW r \in ToSet(rules), Lines(w, h, r, s) # <<>>
       PROVE  h \in ToSet(fewer)
  <2>1. SUFFICES ASSUME h.ended \in Int, h.ended # None, ~(t < h.ended + own) PROVE FALSE
    BY <1>10, <1>11
  <2>2. ended_by(h, t)
    BY <1>6, <2>1 DEF ended_by
  <2>3. r.hold_from # "raise" /\ ~RunOut(hold_clock(h, r, t), t)
    BY <1>14, <1>15, <2>2 DEF Lines
  <2>4. r.hold_from = "end" /\ r.hold \in Nat
    BY <1>2, <1>3, <2>3 DEF Holds
  <2>5. r.hold <= own
    BY <1>6, <2>4, Signs DEF EndAnchored
  <2>6. hold_clock(h, r, t) = h.ended + r.hold
    BY <2>2, <2>4, Signs DEF hold_clock
  <2>7. h.ended + r.hold <= t /\ h.ended + r.hold # None
    BY <1>6, <2>1, <2>4, <2>5, Signs
  <2> QED
    BY <2>3, <2>6, <2>7 DEF RunOut
<1>16. \A h, r, s : Lines(w, h, r, s) = Lines(v, h, r, s)
  BY <1>14, SameLines
<1>17. ToSet(fewer) \subseteq ToSet(more)
  BY <1>6, <1>7, <1>10, <1>11
<1>18. ASSUME NEW s PROVE Said(w, s) = Said(v, s)
  BY <1>15, <1>16, <1>17, <1>14 DEF Said
<1>19. \A s : evaluate(w, s).state = evaluate(v, s).state
  BY <1>2, <1>10, <1>14, <1>18, HullAssumption, StateIsSaid
<1> QED
  BY <1>1, <1>8, <1>12, <1>13, <1>19 DEF states_under

(* A step that answers an import answers what is so.                       *)
MovesTold ==
  \A r \in Requests :
    LET q == req[r]
        found == q.replaces
    IN /\ q.pc = "answer" /\ req'[r].pc # "answer"
       /\ found = NoTable \/ found.clock = q.clock
       => q.moved = Changed(found, IF q.op = "commit" THEN doc' ELSE Table(q), q.at)

(* What an import says changes state is what the engine serves differently *)
(* under the table it found in force and the one it brings (Hull::moved).  *)
THEOREM MovesAreExact == Spec => MovedIsExact
<1>1. ASSUME SheetInv, [Next]_vars, NEW r \in Requests,
             req[r].pc = "answer", req'[r].pc # "answer",
             req[r].replaces = NoTable \/ req[r].replaces.clock = req[r].clock
      PROVE  req[r].moved = Changed(req[r].replaces,
                                    IF req[r].op = "commit" THEN doc' ELSE Table(req[r]), req[r].at)
  <2>1. PICK q : q = req[r]
    OBVIOUS
  <2>2. AtTheDoor(q) /\ Found(q) /\ Counted(q) /\ Brings(q)
    <3>1. AtTheDoor(q) /\ q.pc = "answer"
      BY <1>1, <2>1, AtDoor
    <3> QED
      BY <3>1 DEF AtTheDoor, Counted
  <2>3. PICK replaced : replaced = q.replaces
    OBVIOUS
  <2>4. PICK t : t = q.at
    OBVIOUS
  <2>5. t \in Int
    BY <2>2, <2>4 DEF Counted
  <2>6. q.op = "commit" => doc' = Table(q)
    <3>1. ASSUME NEW x \in Requests, x # r, Step(x) PROVE req'[r] = req[r]
      BY <1>1, <3>1 DEF Step, AskTable, AskImport, Proposes, Asks, ReadTable, Export, get_rule_table,
                        ReadHull, Preview, Commit, Goes, SheetInv
    <3>2. Step(r)
      BY <1>1, <3>1 DEF Next, vars, Edit, revert_rule_table, import_yard_clock, Tick
    <3>3. q.pc = "answer"
      BY <1>1, <2>1
    <3>4. q # Idle
      BY <3>3 DEF Idle
    <3>5. Preview(r) \/ Commit(r)
      BY <2>1, <3>2, <3>3, <3>4 DEF Step, AskTable, AskImport, Proposes, Asks, ReadTable, Export,
                               get_rule_table, ReadHull
    <3> QED
      BY <2>1, <3>5 DEF Preview, Commit
  <2>7. PICK d : d = Table(q)
    OBVIOUS
  <2>8. (IF q.op = "commit" THEN doc' ELSE Table(q)) = d
    BY <2>6, <2>7
  <2>9. PICK current : current = q.current
    OBVIOUS
  <2>10. PICK proposed : proposed = q.entries
    OBVIOUS
  <2>11. /\ InOrder(current, q.clock) /\ current = rules_in_force(replaced)
         /\ InOrder(proposed, q.clock) /\ proposed = rules_in_force(d)
    <3>1. current = table_in_effect(replaced, q.clock) /\ Documented(replaced) /\ q.clock \in Clocks
      BY <2>2, <2>3, <2>9 DEF Found, AtTheDoor
    <3>2. replaced = NoTable \/ replaced.clock = q.clock
      BY <1>1, <2>1, <2>3
    <3>3. d # NoTable /\ d.entries = proposed /\ InOrder(proposed, q.clock)
      BY <2>2, <2>7, <2>10, Committed
    <3> QED
      BY <3>1, <3>2, <3>3, InEffectInOrder DEF rules_in_force
  <2>12. PICK a : a = longest_end_anchored_hold(current)
    OBVIOUS
  <2>13. PICK b : b = longest_end_anchored_hold(proposed)
    OBVIOUS
  <2>14. a \in Int /\ b \in Int
    BY <2>11, <2>12, <2>13, TailOf DEF InOrder, Clear, Clean
  <2>15. Max({a, b}) \in Int /\ a <= Max({a, b}) /\ b <= Max({a, b})
    <3>1. \E x \in {a, b} : \A y \in {a, b} : x >= y
      BY <2>14
    <3>2. Max({a, b}) \in {a, b} /\ \A y \in {a, b} : Max({a, b}) >= y
      BY <3>1 DEF Max
    <3> QED
      BY <2>14, <3>2
  <2>16. PICK tail : tail = Max({a, b})
    OBVIOUS
  <2>17. tail = tail_of(q.current, q.entries)
    BY <2>9, <2>10, <2>12, <2>13, <2>16 DEF tail_of
  <2>18. PICK hazards : hazards = bearing_on(Hull.hazards, t, tail)
    OBVIOUS
  <2>19. q.moved = {s \in HullSpaces : states_under(current, hazards, t)[s] # states_under(proposed, hazards, t)[s]}
    <3>1. q.moved = moved(current, proposed, hazards, t)
      BY <2>2, <2>4, <2>9, <2>10, <2>17, <2>18 DEF Counted
    <3> QED
      BY <3>1 DEF moved
  <2>20. states_under(current, hazards, t) = StatesServed(replaced, t)
    BY <2>5, <2>11, <2>12, <2>14, <2>15, <2>16, <2>18, SameStates DEF StatesServed
  <2>21. states_under(proposed, hazards, t) = StatesServed(d, t)
    BY <2>5, <2>11, <2>13, <2>14, <2>15, <2>16, <2>18, SameStates DEF StatesServed
  <2> QED
    BY <2>1, <2>3, <2>4, <2>8, <2>19, <2>20, <2>21 DEF Changed
<1>2. SheetInv /\ [Next]_vars => [MovesTold]_vars
  BY <1>1 DEF MovesTold
<1>3. Spec => [][MovesTold]_vars
  BY <1>2, SheetsInOrder, PTL DEF Spec
<1> QED
  BY <1>3 DEF MovedIsExact, MovesTold

-----------------------------------------------------------------------------
(* Sums over finite sets, as the fold that adds an element at a time finds *)
(* them: Sums(f) of every set of places of f.                              *)
One(s) == CHOOSE x \in s : TRUE
IsSum(it, f) ==
  it = [s \in SUBSET DOMAIN f |-> IF s = {} THEN 0 ELSE f[One(s)] + it[s \ {One(s)}]]
Sums(f) == CHOOSE it : IsSum(it, f)

(* The same of the sets of n elements at most.                             *)
NoMore(f, n) == {s \in SUBSET DOMAIN f : Cardinality(s) <= n}
IsPart(it, f, n) ==
  it = [s \in NoMore(f, n) |-> IF s = {} THEN 0 ELSE f[One(s)] + it[s \ {One(s)}]]

LEMMA OneOf ==
  ASSUME NEW s, s # {}
  PROVE  One(s) \in s
BY DEF One

(* There is such a sum, built up from the smaller sets.                    *)
LEMMA SumExists ==
  ASSUME NEW f, IsFiniteSet(DOMAIN f)
  PROVE  IsSum(Sums(f), f)
<1>1. PICK m \in Nat : m = Cardinality(DOMAIN f)
  BY FS_CardinalityType
<1>2. \A s \in SUBSET DOMAIN f : IsFiniteSet(s) /\ Cardinality(s) \in 0 .. m
  <2>1. ASSUME NEW s \in SUBSET DOMAIN f PROVE IsFiniteSet(s) /\ Cardinality(s) \in 0 .. m
    <3>1. IsFiniteSet(s) /\ Cardinality(s) <= m
      BY <1>1, FS_Subset
    <3>2. Cardinality(s) \in Nat
      BY <3>1, FS_CardinalityType
    <3> QED
      BY <3>1, <3>2
  <2> QED
    BY <2>1
<1>3. ASSUME NEW n \in 1 .. m, NEW s \in NoMore(f, n), s # {}
      PROVE  One(s) \in s /\ s \ {One(s)} \in NoMore(f, n - 1)
  BY <1>3, OneOf, <1>2, FS_RemoveElement DEF NoMore
<1> DEFINE P == {n \in 0 .. m : \E it : IsPart(it, f, n)}
<1>4. 0 \in P
  <2>1. PICK a : a = [s \in NoMore(f, 0) |-> 0]
    OBVIOUS
  <2>2. ASSUME NEW s \in NoMore(f, 0) PROVE s = {}
    <3>1. IsFiniteSet(s) /\ Cardinality(s) = 0
      BY <1>2 DEF NoMore
    <3> QED
      BY <3>1, FS_EmptySet
  <2>3. a = [s \in NoMore(f, 0) |-> IF s = {} THEN 0 ELSE f[One(s)] + a[s \ {One(s)}]]
    BY <2>1, <2>2
  <2>4. IsPart(a, f, 0)
    BY <2>3 DEF IsPart
  <2> QED
    BY <2>4
<1>5. ASSUME NEW n \in 1 .. m, n - 1 \in P PROVE n \in P
  <2>1. PICK a : IsPart(a, f, n - 1)
    BY <1>5
  <2>2. PICK b : b = [s \in NoMore(f, n) |-> IF s = {} THEN 0 ELSE f[One(s)] + a[s \ {One(s)}]]
    OBVIOUS
  <2>3. NoMore(f, n - 1) \subseteq NoMore(f, n)
    BY <1>2 DEF NoMore
  <2>4. ASSUME NEW s \in NoMore(f, n - 1) PROVE b[s] = a[s]
    <3>1. PICK c : c = [t \in NoMore(f, n - 1) |-> IF t = {} THEN 0 ELSE f[One(t)] + a[t \ {One(t)}]]
      OBVIOUS
    <3>2. a = c
      BY <2>1, <3>1 DEF IsPart
    <3>3. c[s] = IF s = {} THEN 0 ELSE f[One(s)] + a[s \ {One(s)}]
      BY <3>1
    <3>4. b[s] = IF s = {} THEN 0 ELSE f[One(s)] + a[s \ {One(s)}]
      BY <2>2, <2>3
    <3> QED
      BY <3>2, <3>3, <3>4
  <2>5. \A s \in NoMore(f, n) : s # {} => b[s \ {One(s)}] = a[s \ {One(s)}]
    BY <1>3, <2>4
  <2>6. b = [s \in NoMore(f, n) |-> IF s = {} THEN 0 ELSE f[One(s)] + b[s \ {One(s)}]]
    BY <2>2, <2>5
  <2>7. IsPart(b, f, n)
    BY <2>6 DEF IsPart
  <2> QED
    BY <2>7
<1>6. m \in P
  <2>1. m \in 0 .. m
    OBVIOUS
  <2> HIDE DEF P
  <2> QED
    BY <1>4, <1>5, <2>1, Climb
<1>7. NoMore(f, m) = SUBSET DOMAIN f
  BY <1>2 DEF NoMore
<1>8. \E it : IsSum(it, f)
  BY <1>6, <1>7 DEF IsPart, IsSum
<1> QED
  BY <1>8 DEF Sums

(* A set of finite sets closed under one element more holds every one.     *)
LEMMA Gather ==
  ASSUME NEW S, IsFiniteSet(S), NEW Q, {} \in Q,
         \A s \in SUBSET S : \A x \in S \ s : s \in Q => s \cup {x} \in Q
  PROVE  \A s \in SUBSET S : s \in Q
<1>1. PICK m \in Nat : m = Cardinality(S)
  BY FS_CardinalityType
<1> DEFINE P == {n \in 0 .. m : \A s \in SUBSET S : Cardinality(s) = n => s \in Q}
<1>2. \A s \in SUBSET S : IsFiniteSet(s) /\ Cardinality(s) \in 0 .. m
  <2>1. ASSUME NEW s \in SUBSET S PROVE IsFiniteSet(s) /\ Cardinality(s) \in 0 .. m
    <3>1. IsFiniteSet(s) /\ Cardinality(s) <= m
      BY <1>1, FS_Subset
    <3>2. Cardinality(s) \in Nat
      BY <3>1, FS_CardinalityType
    <3> QED
      BY <3>1, <3>2
  <2> QED
    BY <2>1
<1>3. 0 \in P
  BY <1>2, FS_EmptySet
<1>4. ASSUME NEW n \in 1 .. m, n - 1 \in P PROVE n \in P
  <2>1. ASSUME NEW s \in SUBSET S, Cardinality(s) = n PROVE s \in Q
    <3>1. s # {}
      BY <2>1, FS_EmptySet
    <3>2. PICK x \in s : TRUE
      BY <3>1
    <3>3. PICK t : t = s \ {x}
      OBVIOUS
    <3>4. t \in SUBSET S /\ x \in S \ t /\ s = t \cup {x}
      BY <3>3
    <3>5. Cardinality(t) = n - 1
      BY <1>2, <2>1, <3>3, FS_RemoveElement
    <3>6. t \in Q
      BY <1>4, <3>4, <3>5
    <3> QED
      BY <3>4, <3>6
  <2> QED
    BY <2>1
<1>5. \A n \in 0 .. m : n \in P
  <2> HIDE DEF P
  <2> QED
    BY <1>3, <1>4, Climb
<1> QED
  BY <1>2, <1>5

(* It does not matter which is added first.                                *)
LEMMA SumsOf ==
  ASSUME NEW f, IsFiniteSet(DOMAIN f), \A x \in DOMAIN f : f[x] \in Int
  PROVE  /\ Sums(f)[{}] = 0
         /\ \A s \in SUBSET DOMAIN f : Sums(f)[s] \in Int
         /\ \A s \in SUBSET DOMAIN f : \A x \in s : Sums(f)[s] = f[x] + Sums(f)[s \ {x}]
<1>1. PICK S : S = DOMAIN f
  OBVIOUS
<1>2. PICK it : it = Sums(f)
  OBVIOUS
<1>3. it = [s \in SUBSET S |-> IF s = {} THEN 0 ELSE f[One(s)] + it[s \ {One(s)}]]
  BY <1>1, <1>2, SumExists DEF IsSum
<1>4. \A s \in SUBSET S : it[s] = IF s = {} THEN 0 ELSE f[One(s)] + it[s \ {One(s)}]
  <2>1. PICK c : c = [s \in SUBSET S |-> IF s = {} THEN 0 ELSE f[One(s)] + it[s \ {One(s)}]]
    OBVIOUS
  <2>2. it = c
    BY <1>3, <2>1
  <2> QED
    BY <2>1, <2>2
<1>5. it[{}] = 0
  BY <1>4
<1>6. PICK m \in Nat : m = Cardinality(S)
  BY <1>1, FS_CardinalityType
<1>7. \A s \in SUBSET S : IsFiniteSet(s) /\ Cardinality(s) \in 0 .. m
  <2>1. ASSUME NEW s \in SUBSET S PROVE IsFiniteSet(s) /\ Cardinality(s) \in 0 .. m
    <3>1. IsFiniteSet(s) /\ Cardinality(s) <= m
      BY <1>1, <1>6, FS_Subset
    <3>2. Cardinality(s) \in Nat
      BY <3>1, FS_CardinalityType
    <3> QED
      BY <3>1, <3>2
  <2> QED
    BY <2>1
<1> DEFINE Fine(s) == it[s] \in Int /\ \A x \in s : it[s] = f[x] + it[s \ {x}]
           P == {n \in 0 .. m : \A s \in SUBSET S : Cardinality(s) <= n => Fine(s)}
<1>8. 0 \in P
  <2>1. ASSUME NEW s \in SUBSET S, Cardinality(s) <= 0 PROVE Fine(s)
    <3>1. s = {}
      BY <1>7, <2>1, FS_EmptySet
    <3> QED
      BY <1>5, <3>1
  <2> QED
    BY <2>1
<1>9. ASSUME NEW n \in 1 .. m, n - 1 \in P PROVE n \in P
  <2>1. \A s \in SUBSET S : Cardinality(s) <= n - 1 => Fine(s)
    BY <1>9
  <2>2. ASSUME NEW s \in SUBSET S, Cardinality(s) = n PROVE Fine(s)
    <3>1. s # {}
      BY <2>2, FS_EmptySet
    <3>2. PICK y : y = One(s)
      OBVIOUS
    <3>3. y \in s /\ it[s] = f[y] + it[s \ {y}]
      BY <1>4, <3>1, <3>2, OneOf
    <3>4. \A x \in s : s \ {x} \in SUBSET S /\ Cardinality(s \ {x}) <= n - 1
      <4>1. \A x \in s : Cardinality(s \ {x}) = n - 1
        BY <1>7, <2>2, FS_RemoveElement
      <4> QED
        BY <4>1
    <3>5. \A x \in s : Fine(s \ {x})
      BY <2>1, <3>4
    <3>6. it[s] \in Int
      BY <1>1, <3>3, <3>5
    <3>7. ASSUME NEW x \in s, x # y PROVE it[s] = f[x] + it[s \ {x}]
      <4>1. PICK t : t = (s \ {y}) \ {x}
        OBVIOUS
      <4>2. t = (s \ {x}) \ {y} /\ x \in s \ {y} /\ y \in s \ {x}
        BY <3>3, <3>7, <4>1
      <4>3. it[s \ {y}] = f[x] + it[t]
        BY <3>3, <3>5, <4>1, <4>2
      <4>4. it[s \ {x}] = f[y] + it[t]
        BY <3>5, <4>2
      <4>5. it[t] \in Int
        <5>1. t \in SUBSET S /\ Cardinality(t) <= n - 1
          BY <1>7, <3>3, <3>4, <4>1, FS_Subset
        <5> QED
          BY <2>1, <5>1
      <4>6. f[x] \in Int /\ f[y] \in Int
        BY <1>1, <3>3
      <4>7. PICK i \in Int : i = it[t]
        BY <4>5
      <4>8. it[s] = f[y] + (f[x] + i)
        BY <3>3, <4>3, <4>7
      <4>9. it[s \ {x}] = f[y] + i
        BY <4>4, <4>7
      <4> QED
        BY <4>6, <4>8, <4>9
    <3> QED
      BY <3>3, <3>6, <3>7
  <2>3. \A s \in SUBSET S : Cardinality(s) <= n => Fine(s)
    <3> HIDE DEF Fine
    <3> QED
      BY <1>7, <2>1, <2>2
  <2> QED
    BY <2>3
<1>10. m \in P
  <2>1. m \in 0 .. m
    OBVIOUS
  <2> HIDE DEF P
  <2> QED
    BY <1>8, <1>9, <2>1, Climb
<1>11. \A s \in SUBSET S : Fine(s)
  BY <1>7, <1>10
<1> QED
  BY <1>1, <1>2, <1>5, <1>11

(* A family of numbers: its places are finite.                             *)
Family(f) == IsFiniteSet(DOMAIN f) /\ \A x \in DOMAIN f : f[x] \in Int

(* One element more.                                                       *)
LEMMA SumsAdd ==
  ASSUME NEW f, Family(f), NEW s \in SUBSET DOMAIN f, NEW x \in DOMAIN f, x \notin s
  PROVE  /\ s \cup {x} \in SUBSET DOMAIN f
         /\ Sums(f)[s \cup {x}] = f[x] + Sums(f)[s]
         /\ Sums(f)[s] \in Int /\ f[x] \in Int
<1>1. PICK t : t = s \cup {x}
  OBVIOUS
<1>2. t \in SUBSET DOMAIN f /\ x \in t /\ t \ {x} = s
  BY <1>1
<1>3. Sums(f)[t] = f[x] + Sums(f)[t \ {x}] /\ Sums(f)[s] \in Int
  BY <1>2, SumsOf DEF Family
<1> QED
  BY <1>1, <1>2, <1>3 DEF Family

(* Families alike on a set have one sum over it.                           *)
LEMMA SumsAgree ==
  ASSUME NEW f, Family(f), NEW g, Family(g), NEW S, S \subseteq DOMAIN f, S \subseteq DOMAIN g,
         \A x \in S : f[x] = g[x]
  PROVE  Sums(f)[S] = Sums(g)[S]
<1> DEFINE Q == {s \in SUBSET S : Sums(f)[s] = Sums(g)[s]}
<1>1. IsFiniteSet(S)
  BY FS_Subset DEF Family
<1>2. {} \in Q
  BY SumsOf DEF Family
<1>3. ASSUME NEW s \in SUBSET S, NEW x \in S \ s, s \in Q PROVE s \cup {x} \in Q
  <2>1. Sums(f)[s \cup {x}] = f[x] + Sums(f)[s]
    BY <1>3, SumsAdd
  <2>2. Sums(g)[s \cup {x}] = g[x] + Sums(g)[s]
    BY <1>3, SumsAdd
  <2> QED
    BY <1>3, <2>1, <2>2
<1>4. S \in Q
  <2> HIDE DEF Q
  <2> QED
    BY <1>1, <1>2, <1>3, Gather
<1> QED
  BY <1>4

(* Two sets apart add up.                                                  *)
LEMMA SumsSplit ==
  ASSUME NEW f, Family(f), NEW A \in SUBSET DOMAIN f, NEW B \in SUBSET DOMAIN f, A \cap B = {}
  PROVE  /\ Sums(f)[A \cup B] = Sums(f)[A] + Sums(f)[B]
         /\ Sums(f)[A] \in Int /\ Sums(f)[B] \in Int
<1> DEFINE Q == {s \in SUBSET B : Sums(f)[A \cup s] = Sums(f)[A] + Sums(f)[s]}
<1>1. IsFiniteSet(B)
  BY FS_Subset DEF Family
<1>0. \A s \in SUBSET DOMAIN f : Sums(f)[s] \in Int
  BY SumsOf DEF Family
<1>2. {} \in Q
  <2>1. A \cup {} = A /\ Sums(f)[{}] = 0
    BY SumsOf DEF Family
  <2> QED
    BY <1>0, <2>1
<1>3. ASSUME NEW s \in SUBSET B, NEW x \in B \ s, s \in Q PROVE s \cup {x} \in Q
  <2>1. PICK t : t = A \cup s
    OBVIOUS
  <2>2. t \in SUBSET DOMAIN f /\ x \notin t /\ t \cup {x} = A \cup (s \cup {x})
    BY <1>3, <2>1
  <2>3. Sums(f)[t \cup {x}] = f[x] + Sums(f)[t] /\ f[x] \in Int
    BY <2>2, SumsAdd
  <2>4. Sums(f)[s \cup {x}] = f[x] + Sums(f)[s] /\ Sums(f)[s] \in Int
    BY <1>3, SumsAdd
  <2>5. Sums(f)[t] = Sums(f)[A] + Sums(f)[s]
    BY <1>3, <2>1
  <2>6. Sums(f)[t \cup {x}] = Sums(f)[A] + Sums(f)[s \cup {x}]
    BY <1>0, <2>3, <2>4, <2>5
  <2> QED
    BY <2>2, <2>6
<1>4. B \in Q
  <2> HIDE DEF Q
  <2> QED
    BY <1>1, <1>2, <1>3, Gather
<1> QED
  BY <1>0, <1>4

(* ... and so do the parts of a set that no two of them share.             *)
LEMMA SumsParts ==
  ASSUME NEW f, Family(f), NEW P, IsFiniteSet(DOMAIN P),
         \A i \in DOMAIN P : P[i] \subseteq DOMAIN f,
         \A i, j \in DOMAIN P : i # j => P[i] \cap P[j] = {},
         NEW g, DOMAIN g = DOMAIN P, \A i \in DOMAIN P : g[i] = Sums(f)[P[i]],
         NEW U, \A x : x \in U <=> \E i \in DOMAIN P : x \in P[i]
  PROVE  Family(g) /\ U \in SUBSET DOMAIN f /\ Sums(f)[U] = Sums(g)[DOMAIN P]
<1> DEFINE All(s) == UNION {P[i] : i \in s}
           Q == {s \in SUBSET DOMAIN P : Sums(f)[All(s)] = Sums(g)[s]}
<1>1. Family(g)
  <2>1. \A i \in DOMAIN P : Sums(f)[P[i]] \in Int
    BY SumsOf DEF Family
  <2> QED
    BY <2>1 DEF Family
<1>2. {} \in Q
  <2>1. All({}) = {}
    OBVIOUS
  <2>2. Sums(f)[{}] = 0 /\ Sums(g)[{}] = 0
    BY <1>1, SumsOf DEF Family
  <2> QED
    BY <2>1, <2>2
<1>3. ASSUME NEW s \in SUBSET DOMAIN P, NEW i \in DOMAIN P \ s, s \in Q PROVE s \cup {i} \in Q
  <2>1. PICK t : t = All(s)
    OBVIOUS
  <2>2. All(s \cup {i}) = t \cup P[i]
    BY <2>1
  <2>3. t \in SUBSET DOMAIN f /\ P[i] \in SUBSET DOMAIN f
    BY <2>1
  <2>4. t \cap P[i] = {}
    BY <2>1, <1>3
  <2>5. Sums(f)[t \cup P[i]] = Sums(f)[t] + Sums(f)[P[i]]
    BY <2>3, <2>4, SumsSplit
  <2>6. Sums(g)[s \cup {i}] = g[i] + Sums(g)[s] /\ g[i] \in Int /\ Sums(g)[s] \in Int
    BY <1>1, <1>3, SumsAdd
  <2>7. Sums(f)[t] = Sums(g)[s]
    BY <1>3, <2>1
  <2>8. Sums(f)[t \cup P[i]] = Sums(g)[s \cup {i}]
    BY <2>5, <2>6, <2>7
  <2> QED
    BY <2>2, <2>8
<1>4. DOMAIN P \in Q
  <2>1. PICK q : q = Q
    OBVIOUS
  <2>2. \A s \in SUBSET DOMAIN P : \A i \in DOMAIN P \ s : s \in q => s \cup {i} \in q
    BY <1>3, <2>1
  <2>3. {} \in q
    BY <1>2, <2>1
  <2> HIDE DEF Q
  <2>4. \A s \in SUBSET DOMAIN P : s \in q
    BY <2>2, <2>3, Gather
  <2> QED
    BY <2>1, <2>4
<1>5. All(DOMAIN P) = U
  OBVIOUS
<1> QED
  BY <1>1, <1>4, <1>5

(* A sum of nothings is nothing, and as many ones are their number.        *)
LEMMA SumsFlat ==
  ASSUME NEW f, NEW k \in {0, 1}, IsFiniteSet(DOMAIN f), \A x \in DOMAIN f : f[x] = k
  PROVE  Family(f) /\ \A s \in SUBSET DOMAIN f : Sums(f)[s] = IF k = 0 THEN 0 ELSE Cardinality(s)
<1> DEFINE Q == {s \in SUBSET DOMAIN f : Sums(f)[s] = IF k = 0 THEN 0 ELSE Cardinality(s)}
<1>1. Family(f)
  BY DEF Family
<1>2. {} \in Q
  BY <1>1, SumsOf, FS_EmptySet DEF Family
<1>3. ASSUME NEW s \in SUBSET DOMAIN f, NEW x \in DOMAIN f \ s, s \in Q PROVE s \cup {x} \in Q
  <2>1. Sums(f)[s \cup {x}] = f[x] + Sums(f)[s] /\ f[x] = k
    BY <1>1, <1>3, SumsAdd
  <2>2. IsFiniteSet(s)
    BY FS_Subset
  <2>3. Cardinality(s \cup {x}) = Cardinality(s) + 1 /\ Cardinality(s) \in Nat
    BY <1>3, <2>2, FS_AddElement, FS_CardinalityType
  <2> QED
    BY <1>3, <2>1, <2>3
<1>4. \A s \in SUBSET DOMAIN f : s \in Q
  <2> HIDE DEF Q
  <2> QED
    BY <1>2, <1>3, Gather
<1> QED
  BY <1>1, <1>4

(* There is one sum.                                                       *)
LEMMA SumIs ==
  ASSUME NEW f, Family(f), NEW it, IsSum(it, f)
  PROVE  it[DOMAIN f] = Sums(f)[DOMAIN f]
<1>1. IsSum(Sums(f), f)
  BY SumExists DEF Family
<1>2. \A s \in SUBSET DOMAIN f : it[s] = IF s = {} THEN 0 ELSE f[One(s)] + it[s \ {One(s)}]
  <2>1. PICK c : c = [s \in SUBSET DOMAIN f |-> IF s = {} THEN 0 ELSE f[One(s)] + it[s \ {One(s)}]]
    OBVIOUS
  <2>2. it = c
    BY <2>1 DEF IsSum
  <2> QED
    BY <2>1, <2>2
<1>3. PICK sums : sums = Sums(f)
  OBVIOUS
<1>4. \A s \in SUBSET DOMAIN f : sums[s] = IF s = {} THEN 0 ELSE f[One(s)] + sums[s \ {One(s)}]
  BY <1>1, <1>3 DEF IsSum
<1> DEFINE R == {n \in 0 .. Cardinality(DOMAIN f) :
                   \A s \in SUBSET DOMAIN f : Cardinality(s) = n => it[s] = sums[s]}
<1>5. PICK m \in Nat : m = Cardinality(DOMAIN f)
  BY FS_CardinalityType DEF Family
<1>6. \A s \in SUBSET DOMAIN f : IsFiniteSet(s) /\ Cardinality(s) \in 0 .. m
  <2>1. ASSUME NEW s \in SUBSET DOMAIN f PROVE IsFiniteSet(s) /\ Cardinality(s) \in 0 .. m
    <3>1. IsFiniteSet(s) /\ Cardinality(s) <= m
      BY <1>5, FS_Subset DEF Family
    <3>2. Cardinality(s) \in Nat
      BY <3>1, FS_CardinalityType
    <3> QED
      BY <3>1, <3>2
  <2> QED
    BY <2>1
<1>7. 0 \in R
  BY <1>2, <1>4, <1>5, <1>6, FS_EmptySet
<1>8. ASSUME NEW n \in 1 .. m, n - 1 \in R PROVE n \in R
  <2>1. ASSUME NEW s \in SUBSET DOMAIN f, Cardinality(s) = n PROVE it[s] = sums[s]
    <3>1. s # {}
      BY <2>1, FS_EmptySet
    <3>2. One(s) \in s
      BY <3>1, OneOf
    <3>3. Cardinality(s \ {One(s)}) = n - 1 /\ s \ {One(s)} \in SUBSET DOMAIN f
      BY <1>6, <2>1, <3>2, FS_RemoveElement
    <3>4. it[s \ {One(s)}] = sums[s \ {One(s)}]
      BY <1>8, <3>3
    <3> QED
      BY <1>2, <1>4, <3>1, <3>4
  <2> QED
    BY <1>5, <2>1
<1>9. m \in R
  <2>1. m \in 0 .. m
    OBVIOUS
  <2> HIDE DEF R
  <2> QED
    BY <1>7, <1>8, <2>1, Climb
<1> QED
  BY <1>3, <1>5, <1>9

(* The folds of the model, each the sum of a family.                       *)
HoursAdd(it, S) == it = [s \in SUBSET S |-> IF s = {} THEN 0 ELSE One(s).hours + it[s \ {One(s)}]]
LeftAdd(it, S) == it = [s \in SUBSET S |-> IF s = {} THEN 0 ELSE One(s).remaining + it[s \ {One(s)}]]
CountAdd(it, gs) ==
  it = [s \in SUBSET DOMAIN gs |-> IF s = {} THEN 0 ELSE gs[One(s)].tally.spaces + it[s \ {One(s)}]]
HeldAdd(it, gs) ==
  it = [s \in SUBSET DOMAIN gs |-> IF s = {} THEN 0 ELSE gs[One(s)].tally.held + it[s \ {One(s)}]]
HeldHoursAdd(it, gs) ==
  it = [s \in SUBSET DOMAIN gs |-> IF s = {} THEN 0 ELSE gs[One(s)].tally.held_hours + it[s \ {One(s)}]]

HeldOver(gs) == MapThenSumSet(LAMBDA g : gs[g].tally.held, DOMAIN gs)
CountOver(gs) == MapThenSumSet(LAMBDA g : gs[g].tally.spaces, DOMAIN gs)
HeldHoursOver(gs) == MapThenSumSet(LAMBDA g : gs[g].tally.held_hours, DOMAIN gs)

(* ... and what each comes to.                                             *)
LEMMA HoursAre ==
  ASSUME NEW S, IsFiniteSet(S), \A b \in S : b.hours \in Int, NEW f, f = [b \in S |-> b.hours]
  PROVE  Family(f) /\ MapThenSumSet(LAMBDA b : b.hours, S) = Sums(f)[S]
<1>1. Family(f) /\ DOMAIN f = S
  BY DEF Family
<1>2. \A s \in SUBSET S : s # {} => f[One(s)] = One(s).hours
  BY OneOf
<1>3. \A it : HoursAdd(it, S) <=> IsSum(it, f)
  BY <1>1, <1>2 DEF HoursAdd, IsSum
<1>4. PICK it : it = CHOOSE g : HoursAdd(g, S)
  OBVIOUS
<1>5. HoursAdd(it, S)
  BY <1>1, <1>3, <1>4, SumExists DEF Family
<1>6. MapThenSumSet(LAMBDA b : b.hours, S) = it[S]
  BY <1>4 DEF MapThenSumSet, MapThenFoldSet, HoursAdd, One
<1> QED
  BY <1>1, <1>3, <1>5, <1>6, SumIs

LEMMA LeftAre ==
  ASSUME NEW S, IsFiniteSet(S), \A b \in S : b.remaining \in Int, NEW f, f = [b \in S |-> b.remaining]
  PROVE  Family(f) /\ HoursOf(S) = Sums(f)[S]
<1>1. Family(f) /\ DOMAIN f = S
  BY DEF Family
<1>2. \A s \in SUBSET S : s # {} => f[One(s)] = One(s).remaining
  BY OneOf
<1>3. \A it : LeftAdd(it, S) <=> IsSum(it, f)
  BY <1>1, <1>2 DEF LeftAdd, IsSum
<1>4. PICK it : it = CHOOSE g : LeftAdd(g, S)
  OBVIOUS
<1>5. LeftAdd(it, S)
  BY <1>1, <1>3, <1>4, SumExists DEF Family
<1>6. HoursOf(S) = it[S]
  BY <1>4 DEF HoursOf, MapThenSumSet, MapThenFoldSet, LeftAdd, One
<1> QED
  BY <1>1, <1>3, <1>5, <1>6, SumIs

LEMMA CountsAre ==
  ASSUME NEW gs, IsFiniteSet(DOMAIN gs), NEW f, f = [g \in DOMAIN gs |-> gs[g].tally.spaces], Family(f)
  PROVE  CountOver(gs) = Sums(f)[DOMAIN gs]
<1>1. DOMAIN f = DOMAIN gs
  OBVIOUS
<1>2. \A s \in SUBSET DOMAIN gs : s # {} => f[One(s)] = gs[One(s)].tally.spaces
  BY OneOf
<1>3. \A it : CountAdd(it, gs) <=> IsSum(it, f)
  BY <1>1, <1>2 DEF CountAdd, IsSum
<1>4. PICK it : it = CHOOSE g : CountAdd(g, gs)
  OBVIOUS
<1>5. CountAdd(it, gs)
  BY <1>1, <1>3, <1>4, SumExists DEF Family
<1>6. CountOver(gs) = it[DOMAIN gs]
  BY <1>4 DEF CountOver, MapThenSumSet, MapThenFoldSet, CountAdd, One
<1> QED
  BY <1>1, <1>3, <1>5, <1>6, SumIs

LEMMA HeldAre ==
  ASSUME NEW gs, IsFiniteSet(DOMAIN gs), NEW f, f = [g \in DOMAIN gs |-> gs[g].tally.held], Family(f)
  PROVE  HeldOver(gs) = Sums(f)[DOMAIN gs]
<1>1. DOMAIN f = DOMAIN gs
  OBVIOUS
<1>2. \A s \in SUBSET DOMAIN gs : s # {} => f[One(s)] = gs[One(s)].tally.held
  BY OneOf
<1>3. \A it : HeldAdd(it, gs) <=> IsSum(it, f)
  BY <1>1, <1>2 DEF HeldAdd, IsSum
<1>4. PICK it : it = CHOOSE g : HeldAdd(g, gs)
  OBVIOUS
<1>5. HeldAdd(it, gs)
  BY <1>1, <1>3, <1>4, SumExists DEF Family
<1>6. HeldOver(gs) = it[DOMAIN gs]
  BY <1>4 DEF HeldOver, MapThenSumSet, MapThenFoldSet, HeldAdd, One
<1> QED
  BY <1>1, <1>3, <1>5, <1>6, SumIs

LEMMA HeldHoursAre ==
  ASSUME NEW gs, IsFiniteSet(DOMAIN gs), NEW f, f = [g \in DOMAIN gs |-> gs[g].tally.held_hours], Family(f)
  PROVE  HeldHoursOver(gs) = Sums(f)[DOMAIN gs]
<1>1. DOMAIN f = DOMAIN gs
  OBVIOUS
<1>2. \A s \in SUBSET DOMAIN gs : s # {} => f[One(s)] = gs[One(s)].tally.held_hours
  BY OneOf
<1>3. \A it : HeldHoursAdd(it, gs) <=> IsSum(it, f)
  BY <1>1, <1>2 DEF HeldHoursAdd, IsSum
<1>4. PICK it : it = CHOOSE g : HeldHoursAdd(g, gs)
  OBVIOUS
<1>5. HeldHoursAdd(it, gs)
  BY <1>1, <1>3, <1>4, SumExists DEF Family
<1>6. HeldHoursOver(gs) = it[DOMAIN gs]
  BY <1>4 DEF HeldHoursOver, MapThenSumSet, MapThenFoldSet, HeldHoursAdd, One
<1> QED
  BY <1>1, <1>3, <1>5, <1>6, SumIs

(* A sum of natural numbers is one.                                        *)
LEMMA SumsNat ==
  ASSUME NEW f, Family(f), \A x \in DOMAIN f : f[x] \in Nat
  PROVE  \A s \in SUBSET DOMAIN f : Sums(f)[s] \in Nat
<1> DEFINE Q == {s \in SUBSET DOMAIN f : Sums(f)[s] \in Nat}
<1>1. {} \in Q
  BY SumsOf DEF Family
<1>2. ASSUME NEW s \in SUBSET DOMAIN f, NEW x \in DOMAIN f \ s, s \in Q PROVE s \cup {x} \in Q
  <2>1. Sums(f)[s \cup {x}] = f[x] + Sums(f)[s]
    BY <1>2, SumsAdd
  <2> QED
    BY <1>2, <2>1
<1>3. \A s \in SUBSET DOMAIN f : s \in Q
  <2> HIDE DEF Q
  <2> QED
    BY <1>1, <1>2, Gather DEF Family
<1> QED
  BY <1>3

(* Of spaces sorted by a key, the ship is the groups: in what is counted   *)
(* and in the hours held.                                                  *)
Sorts(P, T, S, K) ==
  /\ IsFiniteSet(DOMAIN P) /\ T \subseteq S /\ \A s \in S : K[s] \in DOMAIN P
  /\ \A z \in DOMAIN P : \A s : s \in P[z] <=> s \in T /\ K[s] = z

(* How many are in all the groups together, ...                           *)
LEMMA CountParts ==
  ASSUME NEW S, IsFiniteSet(S), NEW K, NEW T, NEW P, Sorts(P, T, S, K),
         NEW g, DOMAIN g = DOMAIN P, \A z \in DOMAIN P : g[z] = Cardinality(P[z])
  PROVE  Family(g) /\ Sums(g)[DOMAIN P] = Cardinality(T)
<1>0. IsFiniteSet(DOMAIN P) /\ T \in SUBSET S
  BY DEF Sorts
<1>1. PICK f : f = [s \in S |-> 1]
  OBVIOUS
<1>2. Family(f) /\ \A s \in SUBSET S : Sums(f)[s] = Cardinality(s)
  BY <1>1, SumsFlat
<1>3. \A z \in DOMAIN P : P[z] \in SUBSET S
  BY DEF Sorts
<1>4. \A z \in DOMAIN P : P[z] \subseteq DOMAIN f /\ g[z] = Sums(f)[P[z]]
  BY <1>1, <1>2, <1>3
<1>5. \A y, z \in DOMAIN P : y # z => P[y] \cap P[z] = {}
  BY DEF Sorts
<1>6. \A x : x \in T <=> \E z \in DOMAIN P : x \in P[z]
  BY DEF Sorts
<1>7. Family(g) /\ Sums(f)[T] = Sums(g)[DOMAIN P]
  BY <1>0, <1>2, <1>4, <1>5, <1>6, SumsParts
<1> QED
  BY <1>0, <1>2, <1>7

(* ... how many hours they have, ...                                       *)
LEMMA HourParts ==
  ASSUME NEW S, IsFiniteSet(S), \A s \in S : s.remaining \in Int, NEW K, NEW T, NEW P, Sorts(P, T, S, K),
         NEW g, DOMAIN g = DOMAIN P, \A z \in DOMAIN P : g[z] = HoursOf(P[z])
  PROVE  Family(g) /\ Sums(g)[DOMAIN P] = HoursOf(T)
<1>0. IsFiniteSet(DOMAIN P) /\ T \in SUBSET S
  BY DEF Sorts
<1>1. PICK f : f = [s \in S |-> s.remaining]
  OBVIOUS
<1>2. Family(f)
  BY <1>1 DEF Family
<1>3. ASSUME NEW s \in SUBSET S PROVE HoursOf(s) = Sums(f)[s]
  <2>1. IsFiniteSet(s)
    BY FS_Subset
  <2>2. PICK e : e = [x \in s |-> x.remaining]
    OBVIOUS
  <2>3. Family(e) /\ HoursOf(s) = Sums(e)[s]
    BY <2>1, <2>2, LeftAre
  <2>4. Sums(e)[s] = Sums(f)[s]
    BY <1>1, <1>2, <2>2, <2>3, SumsAgree
  <2> QED
    BY <2>3, <2>4
<1>4. \A z \in DOMAIN P : P[z] \in SUBSET S
  BY DEF Sorts
<1>5. \A z \in DOMAIN P : P[z] \subseteq DOMAIN f /\ g[z] = Sums(f)[P[z]]
  BY <1>1, <1>3, <1>4
<1>6. \A y, z \in DOMAIN P : y # z => P[y] \cap P[z] = {}
  BY DEF Sorts
<1>7. \A x : x \in T <=> \E z \in DOMAIN P : x \in P[z]
  BY DEF Sorts
<1>8. Family(g) /\ Sums(f)[T] = Sums(g)[DOMAIN P]
  BY <1>0, <1>2, <1>5, <1>6, <1>7, SumsParts
<1> QED
  BY <1>0, <1>3, <1>8

(* ... and so what a board counts.                                         *)
LEMMA GroupsAdd ==
  ASSUME NEW S, IsFiniteSet(S), \A s \in S : s.remaining \in Int, NEW K,
         NEW P, Sorts(P, S, S, K),
         NEW gs, DOMAIN gs = DOMAIN P, \A z \in DOMAIN P : gs[z].tally = Tally(P[z])
  PROVE  /\ HeldOver(gs) = Tally(S).held
         /\ CountOver(gs) = Tally(S).spaces
         /\ HeldHoursOver(gs) = Tally(S).held_hours
<1>0. IsFiniteSet(DOMAIN P)
  BY DEF Sorts
<1>1. PICK H : H = Are(S, "held")
  OBVIOUS
<1>2. PICK Q : Q = [z \in DOMAIN P |-> Are(P[z], "held")]
  OBVIOUS
<1>3. DOMAIN Q = DOMAIN P /\ H \in SUBSET S /\ Q = [z \in DOMAIN P |-> Q[z]]
  BY <1>1, <1>2 DEF Are
<1>4. Sorts(Q, H, S, K)
  BY <1>1, <1>2, <1>3 DEF Are, Sorts
<1>5. \A T : Tally(T).held = Cardinality(Are(T, "held")) /\ Tally(T).spaces = Cardinality(T)
              /\ Tally(T).held_hours = HoursOf(Are(T, "held"))
  BY DEF Tally
<1>6. \A z \in DOMAIN P : Are(P[z], "held") = Q[z]
  BY <1>2
<1>7. HeldOver(gs) = Cardinality(H)
  <2>1. PICK f : f = [g \in DOMAIN gs |-> gs[g].tally.held]
    OBVIOUS
  <2>2. DOMAIN f = DOMAIN Q /\ \A z \in DOMAIN Q : f[z] = Cardinality(Q[z])
    BY <1>3, <1>5, <1>6, <2>1
  <2>3. Family(f) /\ Sums(f)[DOMAIN Q] = Cardinality(H)
    BY <1>3, <1>4, <2>2, CountParts
  <2> QED
    BY <1>0, <1>3, <2>1, <2>3, HeldAre
<1>8. CountOver(gs) = Cardinality(S)
  <2>1. PICK f : f = [g \in DOMAIN gs |-> gs[g].tally.spaces]
    OBVIOUS
  <2>2. DOMAIN f = DOMAIN P /\ \A z \in DOMAIN P : f[z] = Cardinality(P[z])
    BY <1>5, <2>1
  <2>3. Family(f) /\ Sums(f)[DOMAIN P] = Cardinality(S)
    BY <2>2, CountParts
  <2> QED
    BY <1>0, <2>1, <2>3, CountsAre
<1>9. HeldHoursOver(gs) = HoursOf(H)
  <2>1. PICK f : f = [g \in DOMAIN gs |-> gs[g].tally.held_hours]
    OBVIOUS
  <2>2. DOMAIN f = DOMAIN Q /\ \A z \in DOMAIN Q : f[z] = HoursOf(Q[z])
    BY <1>3, <1>5, <1>6, <2>1
  <2>3. Family(f) /\ Sums(f)[DOMAIN Q] = HoursOf(H)
    BY <1>3, <1>4, <2>2, HourParts
  <2> QED
    BY <1>0, <1>3, <2>1, <2>3, HeldHoursAre
<1> QED
  BY <1>1, <1>5, <1>7, <1>8, <1>9

(* What is booked in a hull is finite, and no hours are negative.          *)
LEMMA BookedIsFinite ==
  ASSUME NEW h \in Hulls
  PROVE  /\ IsFiniteSet(bookings(h)) /\ IsFiniteSet(registered(h))
         /\ packages_with_footprints(h) \subseteq bookings(h)
         /\ \A b \in bookings(h) : b.hours \in Nat
<1>1. IsFiniteSet(booked_orders(h)) /\ \A b \in booked_orders(h) : b.hours \in Nat
  <2>1. CASE h.imported
    <3>1. PICK A : A = {x \in h.activities : ~x.milestone /\ ~x.complete /\ x.space # None}
      OBVIOUS
    <3>2. A \in SUBSET h.activities /\ IsFiniteSet(h.activities)
      BY <3>1, HullsAssumption
    <3>3. PICK f : f = [a \in A |-> [name |-> <<a.code>>, space |-> a.space, hours |-> a.remaining, window |-> a.window]]
      OBVIOUS
    <3>4. booked_orders(h) = {f[a] : a \in DOMAIN f}
      BY <2>1, <3>1, <3>3 DEF booked_orders
    <3>5. IsFiniteSet(DOMAIN f)
      BY <3>2, <3>3, FS_Subset
    <3>6. IsFiniteSet(booked_orders(h))
      BY <3>4, <3>5, FiniteImage
    <3>7. \A a \in A : f[a].hours = a.remaining /\ a.remaining \in Nat
      BY <3>2, <3>3, HoursAssumption
    <3> QED
      BY <3>3, <3>4, <3>6, <3>7
  <2>2. CASE ~h.imported
    BY <2>2, HoursAssumption DEF booked_orders
  <2> QED
    BY <2>1, <2>2
<1>2. IsFiniteSet(packages_with_footprints(h)) /\ \A b \in packages_with_footprints(h) : b.hours \in Nat
  <2>1. PICK F : F = [p \in h.packages |->
                        {[name |-> <<p.code, c>>, space |-> c, hours |-> remaining(p.spaces[c]),
                          window |-> p.spaces[c].window] : c \in {d \in DOMAIN p.spaces : ~is_complete(p.spaces[d])}}]
    OBVIOUS
  <2>2. packages_with_footprints(h) = UNION {F[p] : p \in DOMAIN F}
    BY <2>1 DEF packages_with_footprints
  <2>3. ASSUME NEW p \in h.packages
        PROVE  IsFiniteSet(F[p]) /\ \A b \in F[p] : b.hours \in Nat
    <3>1. PICK C : C = {d \in DOMAIN p.spaces : ~is_complete(p.spaces[d])}
      OBVIOUS
    <3>2. PICK f : f = [c \in C |-> [name |-> <<p.code, c>>, space |-> c, hours |-> remaining(p.spaces[c]),
                                     window |-> p.spaces[c].window]]
      OBVIOUS
    <3>3. F[p] = {f[c] : c \in DOMAIN f}
      BY <2>1, <3>1, <3>2
    <3>4. C \in SUBSET DOMAIN p.spaces /\ IsFiniteSet(DOMAIN p.spaces)
      BY <3>1, HoursAssumption
    <3>5. IsFiniteSet(DOMAIN f)
      BY <3>2, <3>4, FS_Subset
    <3>6. IsFiniteSet(F[p])
      BY <3>3, <3>5, FiniteImage
    <3>7. \A c \in C : p.spaces[c].budget \in Int /\ p.spaces[c].earned \in Int
      BY <3>4, HoursAssumption
    <3>8. \A c \in C : f[c].hours = remaining(p.spaces[c]) /\ remaining(p.spaces[c]) \in Nat
      BY <3>2, <3>7 DEF remaining
    <3> QED
      BY <3>2, <3>3, <3>6, <3>8
  <2>4. DOMAIN F = h.packages /\ IsFiniteSet(h.packages)
    BY <2>1, HoursAssumption
  <2>5. IsFiniteSet({F[p] : p \in DOMAIN F})
    BY <2>4, FiniteImage
  <2>6. PICK all : all = {F[p] : p \in DOMAIN F}
    OBVIOUS
  <2>7. IsFiniteSet(all) /\ \A s \in all : IsFiniteSet(s) /\ \A b \in s : b.hours \in Nat
    BY <2>3, <2>4, <2>5, <2>6
  <2>8. IsFiniteSet(UNION all)
    BY <2>7, FS_UNION
  <2> QED
    BY <2>2, <2>6, <2>7, <2>8
<1>3. IsFiniteSet(bookings(h))
  BY <1>1, <1>2, FS_Union DEF bookings
<1> QED
  BY <1>1, <1>2, <1>3, HoursAssumption DEF bookings

(* The spaces of a hull as the readiness board joins them.                 *)
SpacesOf(h, t) == {SpaceReadiness(h, t, s) : s \in registered(h)}

(* They are finitely many, one of each space, with the hours booked there. *)
LEMMA SpacesAre ==
  ASSUME NEW h \in Hulls, NEW t
  PROVE  /\ IsFiniteSet(SpacesOf(h, t))
         /\ \A x \in SpacesOf(h, t) : /\ x.space \in registered(h)
                                      /\ x.remaining = Load(mitigation_inputs(h, t), t, x.space)
         /\ \A x, y \in SpacesOf(h, t) : x.space = y.space => x = y
         /\ \A s \in registered(h) : \E x \in SpacesOf(h, t) : x.space = s
<1>1. PICK r : r = [s \in registered(h) |-> SpaceReadiness(h, t, s)]
  OBVIOUS
<1>2. SpacesOf(h, t) = {r[s] : s \in DOMAIN r} /\ DOMAIN r = registered(h)
  BY <1>1 DEF SpacesOf
<1>3. IsFiniteSet(SpacesOf(h, t))
  BY <1>2, FiniteImage, BookedIsFinite
<1>4. ASSUME NEW s \in registered(h)
      PROVE  r[s].space = s /\ r[s].remaining = Load(mitigation_inputs(h, t), t, s)
  BY <1>1 DEF SpaceReadiness
<1> QED
  BY <1>2, <1>3, <1>4

(* A sum over what is booked is one of the hours of the hull's bookings.   *)
LEMMA BookedSum ==
  ASSUME NEW h \in Hulls, NEW f, f = [b \in bookings(h) |-> b.hours], NEW S, S \subseteq bookings(h)
  PROVE  Family(f) /\ MapThenSumSet(LAMBDA b : b.hours, S) = Sums(f)[S] /\ Sums(f)[S] \in Nat
<1>1. IsFiniteSet(bookings(h)) /\ \A b \in bookings(h) : b.hours \in Nat
  BY BookedIsFinite
<1>2. Family(f) /\ \A b \in DOMAIN f : f[b] \in Nat
  BY <1>1 DEF Family
<1>3. IsFiniteSet(S) /\ \A b \in S : b.hours \in Int
  BY <1>1, FS_Subset
<1>4. PICK e : e = [b \in S |-> b.hours]
  OBVIOUS
<1>5. Family(e) /\ MapThenSumSet(LAMBDA b : b.hours, S) = Sums(e)[S]
  BY <1>3, <1>4, HoursAre
<1>6. Sums(e)[S] = Sums(f)[S]
  BY <1>2, <1>4, <1>5, SumsAgree
<1>7. Sums(f)[S] \in Nat
  BY <1>2, SumsNat
<1> QED
  BY <1>2, <1>5, <1>6, <1>7

(* The hours booked in a space, as a sum of the bookings.                  *)
LEMMA LoadIs ==
  ASSUME NEW h \in Hulls, NEW t, NEW c, NEW f, f = [b \in bookings(h) |-> b.hours],
         NEW S, S = {b \in bookings(h) : b.space = c /\ booked_at(b, t)}
  PROVE  Load(mitigation_inputs(h, t), t, c) = Sums(f)[S] /\ Sums(f)[S] \in Nat
BY BookedSum DEF mitigation_inputs, Load

(* The hours left in the spaces held and in those that can be worked are   *)
(* those left in all: a space with none is neither.                        *)
LEMMA HeldOrWorked ==
  ASSUME NEW S, IsFiniteSet(S), \A s \in S : s.remaining \in Nat
  PROVE  Tally(S).held_hours + Tally(S).workable_hours = HoursOf(S) /\ HoursOf(S) \in Nat
<1>1. PICK f : f = [s \in S |-> s.remaining]
  OBVIOUS
<1>2. Family(f) /\ DOMAIN f = S
  BY <1>1 DEF Family
<1>3. ASSUME NEW T \in SUBSET S PROVE HoursOf(T) = Sums(f)[T]
  <2>1. IsFiniteSet(T)
    BY FS_Subset
  <2>2. PICK e : e = [x \in T |-> x.remaining]
    OBVIOUS
  <2>3. Family(e) /\ HoursOf(T) = Sums(e)[T]
    BY <2>1, <2>2, LeftAre
  <2>4. Sums(e)[T] = Sums(f)[T]
    BY <1>1, <1>2, <2>2, <2>3, SumsAgree
  <2> QED
    BY <2>3, <2>4
<1>4. PICK H : H = Are(S, "held")
  OBVIOUS
<1>5. PICK G : G = Are(S, "go")
  OBVIOUS
<1>6. PICK L : L = S \ (H \cup G)
  OBVIOUS
<1>7. Tally(S).held_hours = HoursOf(H) /\ Tally(S).workable_hours = HoursOf(G)
  BY <1>4, <1>5 DEF Tally
<1>8. H \in SUBSET S /\ G \in SUBSET S /\ L \in SUBSET S /\ H \cap G = {} /\ (H \cup G) \cap L = {}
      /\ (H \cup G) \cup L = S
  BY <1>4, <1>5, <1>6 DEF Are
<1>9. \A s \in L : f[s] = 0
  <2>1. SUFFICES ASSUME NEW s \in L, s.remaining > 0 PROVE FALSE
    BY <1>1, <1>6
  <2>2. readiness_of(s) \in {"go", "held"}
    BY <2>1 DEF readiness_of, Readiness
  <2> QED
    BY <1>4, <1>5, <1>6, <2>2 DEF Are
<1>10. Sums(f)[L] = 0
  <2>1. PICK e : e = [s \in L |-> 0]
    OBVIOUS
  <2>2. IsFiniteSet(L) /\ DOMAIN e = L /\ \A s \in DOMAIN e : e[s] = 0
    BY <1>8, <2>1, FS_Subset
  <2>3. Family(e) /\ Sums(e)[L] = 0
    BY <2>2, SumsFlat
  <2>4. Sums(e)[L] = Sums(f)[L]
    BY <1>2, <1>8, <1>9, <2>2, <2>3, SumsAgree
  <2> QED
    BY <2>3, <2>4
<1>11. Sums(f)[H \cup G] = Sums(f)[H] + Sums(f)[G] /\ Sums(f)[H] \in Int /\ Sums(f)[G] \in Int
  BY <1>2, <1>8, SumsSplit
<1>12. H \cup G \in SUBSET S
  BY <1>8
<1>13. Sums(f)[S] = Sums(f)[H \cup G] + Sums(f)[L]
  BY <1>2, <1>8, <1>12, SumsSplit
<1>14. Sums(f)[S] \in Nat
  BY <1>1, <1>2, SumsNat
<1>15. HoursOf(S) = Sums(f)[S] /\ HoursOf(H) = Sums(f)[H] /\ HoursOf(G) = Sums(f)[G]
  BY <1>3, <1>8
<1> QED
  BY <1>7, <1>10, <1>11, <1>13, <1>14, <1>15

(* The hours of the register's spaces are those booked in it.              *)
LEMMA RegisterHours ==
  ASSUME NEW h \in Hulls, NEW t, NEW f, f = [b \in bookings(h) |-> b.hours],
         NEW U, U = {b \in bookings(h) : booked_at(b, t) /\ b.space \in registered(h)}
  PROVE  /\ HoursOf(SpacesOf(h, t)) = Sums(f)[U]
         /\ \A x \in SpacesOf(h, t) : x.remaining \in Nat
<1>1. PICK S : S = SpacesOf(h, t)
  OBVIOUS
<1>2. /\ IsFiniteSet(S)
      /\ \A x \in S : x.space \in registered(h) /\ x.remaining = Load(mitigation_inputs(h, t), t, x.space)
      /\ \A x, y \in S : x.space = y.space => x = y
      /\ \A s \in registered(h) : \E x \in S : x.space = s
  BY <1>1, SpacesAre
<1>3. PICK P : P = [x \in S |-> {b \in bookings(h) : b.space = x.space /\ booked_at(b, t)}]
  OBVIOUS
<1>4. DOMAIN P = S /\ \A x \in S : P[x] \subseteq bookings(h)
  BY <1>3
<1>5. \A x \in S : \A b : b \in P[x] <=> b \in bookings(h) /\ b.space = x.space /\ booked_at(b, t)
  BY <1>3
<1>6. ASSUME NEW x \in S PROVE x.remaining = Sums(f)[P[x]] /\ x.remaining \in Nat
  <2>1. PICK B : B = {b \in bookings(h) : b.space = x.space /\ booked_at(b, t)}
    OBVIOUS
  <2>2. Load(mitigation_inputs(h, t), t, x.space) = Sums(f)[B] /\ Sums(f)[B] \in Nat
    BY <2>1, LoadIs
  <2>3. B = P[x]
    BY <1>3, <2>1
  <2> QED
    BY <1>2, <2>2, <2>3
<1>7. PICK g : g = [x \in S |-> x.remaining]
  OBVIOUS
<1>8. DOMAIN g = DOMAIN P /\ \A x \in DOMAIN P : g[x] = Sums(f)[P[x]]
  BY <1>4, <1>6, <1>7
<1>9. DOMAIN f = bookings(h) /\ Family(f)
  BY BookedSum
<1>10. \A x, y \in DOMAIN P : x # y => P[x] \cap P[y] = {}
  BY <1>2, <1>4, <1>5
<1>11. \A b : b \in U <=> \E x \in DOMAIN P : b \in P[x]
  BY <1>2, <1>4, <1>5
<1>12. Sums(f)[U] = Sums(g)[S]
  BY <1>2, <1>4, <1>8, <1>9, <1>10, <1>11, SumsParts
<1>13. HoursOf(S) = Sums(g)[S]
  <2>1. \A x \in S : x.remaining \in Int
    BY <1>6
  <2> QED
    BY <1>2, <1>7, <2>1, LeftAre
<1> QED
  BY <1>1, <1>6, <1>12, <1>13

(* What is held, what can be worked and what lies in no space is all that  *)
(* is booked.                                                              *)
LEMMA WorkAddsUp ==
  ASSUME NEW h \in Hulls, NEW t, NEW S, S = SpacesOf(h, t),
         NEW booked, booked = {x \in bookings(h) : booked_at(x, t) /\ (x.space \in registered(h)
                                                               \/ x \in packages_with_footprints(h))}
  PROVE  Tally(S).held_hours + Tally(S).workable_hours + Unattributed(h, t)
           = MapThenSumSet(LAMBDA x : x.hours, booked)
<1>1. PICK f : f = [b \in bookings(h) |-> b.hours]
  OBVIOUS
<1>2. PICK U : U = {b \in bookings(h) : booked_at(b, t) /\ b.space \in registered(h)}
  OBVIOUS
<1>3. PICK V : V = {b \in packages_with_footprints(h) : b.space \notin registered(h) /\ booked_at(b, t)}
  OBVIOUS
<1>4. packages_with_footprints(h) \subseteq bookings(h)
  BY BookedIsFinite
<1>5. U \subseteq bookings(h) /\ V \subseteq bookings(h) /\ U \cap V = {} /\ U \cup V = booked
  BY <1>2, <1>3, <1>4
<1>6. Family(f) /\ DOMAIN f = bookings(h) /\ MapThenSumSet(LAMBDA b : b.hours, V) = Sums(f)[V]
  BY <1>1, <1>5, BookedSum
<1>7. MapThenSumSet(LAMBDA x : x.hours, booked) = Sums(f)[booked]
  BY <1>1, <1>5, BookedSum
<1>8. Unattributed(h, t) = Sums(f)[V]
  BY <1>3, <1>6 DEF Unattributed
<1>9. HoursOf(S) = Sums(f)[U]
  BY <1>1, <1>2, RegisterHours
<1>10. IsFiniteSet(S) /\ \A s \in S : s.remaining \in Nat
  BY <1>1, <1>2, RegisterHours, SpacesAre
<1>11. Tally(S).held_hours + Tally(S).workable_hours = HoursOf(S) /\ HoursOf(S) \in Nat
  BY <1>10, HeldOrWorked
<1>12. Sums(f)[U \cup V] = Sums(f)[U] + Sums(f)[V]
  BY <1>5, <1>6, SumsSplit
<1> QED
  BY <1>5, <1>7, <1>8, <1>9, <1>11, <1>12

(* The ship is its zones, and its decks.                                   *)
LEMMA GroupsAre ==
  ASSUME NEW h \in Hulls, NEW t, NEW S, S = SpacesOf(h, t), NEW n, NEW b, b = roll_up(S, n)
  PROVE  /\ HeldOver(b.zones) = b.ship.tally.held /\ HeldOver(b.decks) = b.ship.tally.held
         /\ CountOver(b.zones) = b.ship.tally.spaces /\ CountOver(b.decks) = b.ship.tally.spaces
         /\ HeldHoursOver(b.zones) = b.ship.tally.held_hours
         /\ HeldHoursOver(b.decks) = b.ship.tally.held_hours
<1>1. IsFiniteSet(S) /\ \A s \in S : s.remaining \in Int
  <2>1. PICK f : f = [x \in bookings(h) |-> x.hours]
    OBVIOUS
  <2>2. PICK U : U = {x \in bookings(h) : booked_at(x, t) /\ x.space \in registered(h)}
    OBVIOUS
  <2>3. \A x \in SpacesOf(h, t) : x.remaining \in Nat
    BY <2>1, <2>2, RegisterHours
  <2> QED
    BY <2>3, SpacesAre
<1>2. \A g : build_group(g).tally = Tally(g)
  BY DEF build_group
<1>3. b.ship.tally = Tally(S)
  BY <1>2 DEF roll_up
<1>4. /\ HeldOver(b.zones) = Tally(S).held /\ CountOver(b.zones) = Tally(S).spaces
      /\ HeldHoursOver(b.zones) = Tally(S).held_hours
  <2>1. PICK K : K = [s \in S |-> s.zone]
    OBVIOUS
  <2>2. PICK P : P = [z \in {s.zone : s \in S} |-> {s \in S : s.zone = z}]
    OBVIOUS
  <2>3. DOMAIN P = {K[s] : s \in DOMAIN K} /\ IsFiniteSet(DOMAIN K)
    BY <1>1, <2>1, <2>2
  <2>4. IsFiniteSet(DOMAIN P)
    BY <2>3, FiniteImage
  <2>5. Sorts(P, S, S, K)
    BY <2>1, <2>2, <2>4 DEF Sorts
  <2>6. b.zones = [z \in DOMAIN P |-> build_group(P[z])]
    BY <2>2 DEF roll_up
  <2>7. DOMAIN b.zones = DOMAIN P /\ \A z \in DOMAIN P : b.zones[z].tally = Tally(P[z])
    BY <1>2, <2>6
  <2> QED
    BY <1>1, <2>5, <2>7, GroupsAdd
<1>5. /\ HeldOver(b.decks) = Tally(S).held /\ CountOver(b.decks) = Tally(S).spaces
      /\ HeldHoursOver(b.decks) = Tally(S).held_hours
  <2>1. PICK K : K = [s \in S |-> s.deck]
    OBVIOUS
  <2>2. PICK P : P = [z \in {s.deck : s \in S} |-> {s \in S : s.deck = z}]
    OBVIOUS
  <2>3. DOMAIN P = {K[s] : s \in DOMAIN K} /\ IsFiniteSet(DOMAIN K)
    BY <1>1, <2>1, <2>2
  <2>4. IsFiniteSet(DOMAIN P)
    BY <2>3, FiniteImage
  <2>5. Sorts(P, S, S, K)
    BY <2>1, <2>2, <2>4 DEF Sorts
  <2>6. b.decks = [z \in DOMAIN P |-> build_group(P[z])]
    BY <2>2 DEF roll_up
  <2>7. DOMAIN b.decks = DOMAIN P /\ \A z \in DOMAIN P : b.decks[z].tally = Tally(P[z])
    BY <1>2, <2>6
  <2> QED
    BY <1>1, <2>5, <2>7, GroupsAdd
<1> QED
  BY <1>3, <1>4, <1>5

(* A readiness board as it is served adds up.                              *)
LEMMA BoardAddsUp ==
  ASSUME hull \in Hulls,
         Served("readiness") => reply.body = roll_up(SpacesOf(hull, now), Unattributed(hull, now))
  PROVE  ReadinessAddsUp
<1> SUFFICES ASSUME Served("readiness") PROVE ReadinessAddsUp
  BY DEF ReadinessAddsUp
<1>1. PICK S : S = SpacesOf(hull, now)
  OBVIOUS
<1>2. PICK n : n = Unattributed(hull, now)
  OBVIOUS
<1>3. PICK b : b = reply.body
  OBVIOUS
<1>4. b = roll_up(S, n)
  BY <1>1, <1>2, <1>3
<1>5. PICK booked : booked = {x \in bookings(hull) : booked_at(x, now) /\ (x.space \in Register
                                                          \/ x \in packages_with_footprints(hull))}
  OBVIOUS
<1>6. /\ HeldOver(b.zones) = b.ship.tally.held /\ HeldOver(b.decks) = b.ship.tally.held
      /\ CountOver(b.zones) = b.ship.tally.spaces /\ CountOver(b.decks) = b.ship.tally.spaces
      /\ HeldHoursOver(b.zones) = b.ship.tally.held_hours
      /\ HeldHoursOver(b.decks) = b.ship.tally.held_hours
  BY <1>1, <1>4, GroupsAre
<1>7. Tally(S).held_hours + Tally(S).workable_hours + n = MapThenSumSet(LAMBDA x : x.hours, booked)
  BY <1>1, <1>2, <1>5, WorkAddsUp DEF Register
<1>8. b.ship.tally = Tally(S) /\ b.unattributed_hours = n
  BY <1>4 DEF roll_up, build_group
<1>9. b.ship.tally.held_hours + b.ship.tally.workable_hours + b.unattributed_hours
        = MapThenSumSet(LAMBDA x : x.hours, booked)
  BY <1>7, <1>8
<1>10. /\ HeldOver(reply.body.zones) = reply.body.ship.tally.held
       /\ HeldOver(reply.body.decks) = reply.body.ship.tally.held
       /\ CountOver(reply.body.zones) = reply.body.ship.tally.spaces
       /\ CountOver(reply.body.decks) = reply.body.ship.tally.spaces
       /\ HeldHoursOver(reply.body.zones) = reply.body.ship.tally.held_hours
       /\ HeldHoursOver(reply.body.decks) = reply.body.ship.tally.held_hours
  BY <1>3, <1>6
<1>11. reply.body.ship.tally.held_hours + reply.body.ship.tally.workable_hours + reply.body.unattributed_hours
         = MapThenSumSet(LAMBDA x : x.hours,
             {x \in bookings(hull) : booked_at(x, now) /\ (x.space \in Register
                                                          \/ x \in packages_with_footprints(hull))})
  BY <1>3, <1>5, <1>9
<1> QED
  BY <1>10, <1>11 DEF ReadinessAddsUp, HeldOver, CountOver, HeldHoursOver

-----------------------------------------------------------------------------
(* The segments of a package, above and below one another.                 *)

(* The segments right below a set of them, or below the one asked about.   *)
Under(p, code, s) == {d \in Segments(p) : segment(p, d).upstream \in s \cup {code}}
IsBelow(f, p, code) ==
  f = [n \in 1 .. Len(p.segments) |->
         LET sources == IF n = 1 THEN {code} ELSE f[n - 1] \cup {code}
         IN {d \in Segments(p) : segment(p, d).upstream \in sources}]

(* The segments downstream, as the steps that find them.                   *)
LEMMA BelowRuns ==
  ASSUME NEW p, IsSeq(p.segments), NEW code \in Segments(p)
  PROVE  \E f : /\ f[0] = {} /\ \A n \in 1 .. Len(p.segments) : f[n] = Under(p, code, f[n - 1])
                /\ descendants_of(p, code) = f[Len(p.segments)]
<1>1. PICK m \in Nat : m = Len(p.segments)
  BY Places
<1>2. m # 0
  BY <1>1, Places DEF Segments
<1>3. PICK V : V = SUBSET Segments(p)
  OBVIOUS
<1>4. \A s : Under(p, code, s) \in V
  BY <1>3 DEF Under
<1>5. PICK F : F = [x \in V \X (1 .. m) |-> Under(p, code, x[1])]
  OBVIOUS
<1>6. F \in [V \X (1 .. m) -> V] /\ {} \in V
  BY <1>3, <1>4, <1>5
<1>7. PICK g \in [0 .. m -> V] : g[0] = {} /\ \A n \in 1 .. m : g[n] = F[<<g[n - 1], n>>]
  <2>1. Runs(m, V, {}, F) # {}
    BY <1>6, Computed
  <2> QED
    BY <2>1 DEF Runs
<1>8. ASSUME NEW n \in 1 .. m PROVE g[n] = Under(p, code, g[n - 1])
  <2>1. PICK x : x = <<g[n - 1], n>>
    OBVIOUS
  <2>2. x \in V \X (1 .. m) /\ x[1] = g[n - 1]
    <3>1. n - 1 \in 0 .. m
      OBVIOUS
    <3> QED
      BY <1>7, <2>1, <3>1
  <2> QED
    BY <1>5, <1>7, <2>1, <2>2
<1>9. PICK b : b = [n \in 1 .. m |-> g[n]]
  OBVIOUS
<1>10. IsBelow(b, p, code)
  <2>1. PICK k : k = [n \in 1 .. m |->
                        LET sources == IF n = 1 THEN {code} ELSE b[n - 1] \cup {code}
                        IN {d \in Segments(p) : segment(p, d).upstream \in sources}]
    OBVIOUS
  <2>2. ASSUME NEW n \in 1 .. m PROVE b[n] = k[n]
    <3>1. PICK s : s = IF n = 1 THEN {code} ELSE b[n - 1] \cup {code}
      OBVIOUS
    <3>2. k[n] = {d \in Segments(p) : segment(p, d).upstream \in s}
      BY <2>1, <3>1
    <3>3. s = g[n - 1] \cup {code}
      <4>1. CASE n = 1
        BY <1>7, <3>1, <4>1
      <4>2. CASE n # 1
        <5>1. n - 1 \in 1 .. m
          BY <4>2
        <5> QED
          BY <1>9, <3>1, <4>2, <5>1
      <4> QED
        BY <4>1, <4>2
    <3>4. b[n] = Under(p, code, g[n - 1])
      BY <1>8, <1>9
    <3> QED
      BY <3>2, <3>3, <3>4 DEF Under
  <2>3. k = [n \in 1 .. m |-> k[n]] /\ b = [n \in 1 .. m |-> b[n]]
    BY <1>9, <2>1
  <2>4. b = k
    BY <2>2, <2>3
  <2> QED
    BY <1>1, <2>1, <2>4 DEF IsBelow
<1>11. PICK below : below = CHOOSE f : IsBelow(f, p, code)
  OBVIOUS
<1>12. IsBelow(below, p, code)
  BY <1>10, <1>11
<1>13. PICK f : f = [n \in 0 .. m |-> IF n = 0 THEN {} ELSE below[n]]
  OBVIOUS
<1>14. f[0] = {} /\ \A n \in 1 .. m : f[n] = below[n]
  BY <1>13
<1>15. ASSUME NEW n \in 1 .. m PROVE f[n] = Under(p, code, f[n - 1])
  <2>1. PICK k : k = [i \in 1 .. m |->
                        LET sources == IF i = 1 THEN {code} ELSE below[i - 1] \cup {code}
                        IN {d \in Segments(p) : segment(p, d).upstream \in sources}]
    OBVIOUS
  <2>2. below = k
    BY <1>1, <1>12, <2>1 DEF IsBelow
  <2>3. PICK s : s = IF n = 1 THEN {code} ELSE below[n - 1] \cup {code}
    OBVIOUS
  <2>4. k[n] = {d \in Segments(p) : segment(p, d).upstream \in s}
    BY <2>1, <2>3
  <2>5. s = f[n - 1] \cup {code}
    <3>1. CASE n = 1
      BY <1>14, <2>3, <3>1
    <3>2. CASE n # 1
      <4>1. n - 1 \in 1 .. m
        BY <3>2
      <4> QED
        BY <1>14, <2>3, <3>2, <4>1
    <3> QED
      BY <3>1, <3>2
  <2> QED
    BY <1>14, <2>2, <2>4, <2>5 DEF Under
<1>16. descendants_of(p, code) = below[m]
  BY <1>1, <1>11 DEF descendants_of, IsBelow
<1>17. m \in 1 .. m
  BY <1>2
<1> QED
  BY <1>1, <1>14, <1>15, <1>16, <1>17

(* The walk up from a segment, a step at a time.                           *)
Lowest(p, code) == [chain |-> <<>>, cursor |-> segment(p, code).upstream, fault |-> "none"]
StepUp(p, code, a) ==
  IF a.cursor = Root \/ a.fault # "none" THEN a
  ELSE IF a.cursor \notin Segments(p) THEN [a EXCEPT !.fault = "dangling_upstream"]
  ELSE IF a.cursor \in {code} \cup ToSet(a.chain) THEN [a EXCEPT !.fault = "upstream_cycle"]
  ELSE [a EXCEPT !.chain = Append(@, a.cursor), !.cursor = segment(p, a.cursor).upstream]
IsClimb(f, p, code) ==
  f = [n \in 0 .. Len(p.segments) |->
         IF n = 0 THEN [chain |-> <<>>, cursor |-> segment(p, code).upstream, fault |-> "none"]
         ELSE LET a == f[n - 1]
              IN IF a.cursor = Root \/ a.fault # "none" THEN a
                 ELSE IF a.cursor \notin Segments(p) THEN [a EXCEPT !.fault = "dangling_upstream"]
                 ELSE IF a.cursor \in {code} \cup ToSet(a.chain) THEN [a EXCEPT !.fault = "upstream_cycle"]
                 ELSE [a EXCEPT !.chain = Append(@, a.cursor),
                                !.cursor = segment(p, a.cursor).upstream]]

(* What a walk is made of.                                                 *)
Chains(p) == Seq(Segments(p))
Marks(p) == {segment(p, c).upstream : c \in Segments(p)}
Faults == {"none", "dangling_upstream", "upstream_cycle"}
Climbed(p) == [chain : Chains(p), cursor : Marks(p), fault : Faults]

LEMMA UpStays ==
  ASSUME NEW p, NEW code \in Segments(p), NEW a \in Climbed(p)
  PROVE  StepUp(p, code, a) \in Climbed(p)
<1>1. a.chain \in Chains(p) /\ a.cursor \in Marks(p) /\ a.fault \in Faults
      /\ a = [chain |-> a.chain, cursor |-> a.cursor, fault |-> a.fault]
  BY DEF Climbed
<1>2. CASE a.cursor = Root \/ a.fault # "none"
  BY <1>2 DEF StepUp
<1>3. CASE ~(a.cursor = Root \/ a.fault # "none") /\ a.cursor \notin Segments(p)
  <2>1. StepUp(p, code, a) = [a EXCEPT !.fault = "dangling_upstream"]
    BY <1>3 DEF StepUp
  <2> QED
    BY <1>1, <2>1 DEF Climbed, Faults
<1>4. CASE /\ ~(a.cursor = Root \/ a.fault # "none") /\ a.cursor \in Segments(p)
           /\ a.cursor \in {code} \cup ToSet(a.chain)
  <2>1. StepUp(p, code, a) = [a EXCEPT !.fault = "upstream_cycle"]
    BY <1>4 DEF StepUp
  <2> QED
    BY <1>1, <2>1 DEF Climbed, Faults
<1>5. CASE /\ ~(a.cursor = Root \/ a.fault # "none") /\ a.cursor \in Segments(p)
           /\ a.cursor \notin {code} \cup ToSet(a.chain)
  <2>1. StepUp(p, code, a) =
          [a EXCEPT !.chain = Append(a.chain, a.cursor), !.cursor = segment(p, a.cursor).upstream]
    BY <1>5 DEF StepUp
  <2>2. Append(a.chain, a.cursor) \in Chains(p)
    BY <1>1, <1>5 DEF Chains
  <2>3. segment(p, a.cursor).upstream \in Marks(p)
    BY <1>5 DEF Marks
  <2> QED
    BY <1>1, <2>1, <2>2, <2>3 DEF Climbed
<1> QED
  BY <1>2, <1>3, <1>4, <1>5

(* The chain upstream, as the steps that walk it.                          *)
LEMMA ClimbRuns ==
  ASSUME NEW p, IsSeq(p.segments), NEW code \in Segments(p)
  PROVE  \E f : /\ f \in [0 .. Len(p.segments) -> Climbed(p)]
                /\ f[0] = Lowest(p, code)
                /\ \A n \in 1 .. Len(p.segments) : f[n] = StepUp(p, code, f[n - 1])
                /\ ancestors_of(p, code) = f[Len(p.segments)]
<1>1. PICK m \in Nat : m = Len(p.segments)
  BY Places
<1>2. PICK V : V = Climbed(p)
  OBVIOUS
<1>3. Lowest(p, code) \in V
  BY <1>2 DEF Lowest, Climbed, Chains, Marks, Faults
<1>4. PICK F : F = [x \in V \X (1 .. m) |-> StepUp(p, code, x[1])]
  OBVIOUS
<1>5. F \in [V \X (1 .. m) -> V]
  <2>1. \A x \in V \X (1 .. m) : StepUp(p, code, x[1]) \in V
    BY <1>2, UpStays
  <2> QED
    BY <1>4, <2>1
<1>6. PICK g \in [0 .. m -> V] : g[0] = Lowest(p, code) /\ \A n \in 1 .. m : g[n] = F[<<g[n - 1], n>>]
  <2>1. Runs(m, V, Lowest(p, code), F) # {}
    BY <1>3, <1>5, Computed
  <2> QED
    BY <2>1 DEF Runs
<1>7. ASSUME NEW n \in 1 .. m PROVE g[n] = StepUp(p, code, g[n - 1])
  <2>1. PICK x : x = <<g[n - 1], n>>
    OBVIOUS
  <2>2. x \in V \X (1 .. m) /\ x[1] = g[n - 1]
    <3>1. n - 1 \in 0 .. m
      OBVIOUS
    <3> QED
      BY <1>6, <2>1, <3>1
  <2> QED
    BY <1>4, <1>6, <2>1, <2>2
<1> DEFINE Looks(f) == f = [n \in 0 .. Len(p.segments) |->
                              IF n = 0 THEN Lowest(p, code) ELSE StepUp(p, code, f[n - 1])]
<1>8. \A f : Looks(f) <=> IsClimb(f, p, code)
  BY DEF IsClimb, Lowest, StepUp
<1>9. Looks(g)
  <2>1. PICK k : k = [n \in 0 .. m |-> IF n = 0 THEN Lowest(p, code) ELSE StepUp(p, code, g[n - 1])]
    OBVIOUS
  <2>2. \A n \in 0 .. m : g[n] = k[n]
    <3>1. \A n \in 0 .. m : n = 0 \/ n \in 1 .. m
      OBVIOUS
    <3> QED
      BY <1>6, <1>7, <2>1, <3>1
  <2>3. k = [n \in 0 .. m |-> k[n]] /\ g = [n \in 0 .. m |-> g[n]]
    BY <1>6, <2>1
  <2>4. g = k
    BY <2>2, <2>3
  <2> QED
    BY <1>1, <2>1, <2>4
<1>10. PICK walk : walk = CHOOSE f : IsClimb(f, p, code)
  OBVIOUS
<1>11. Looks(walk)
  <2>1. IsClimb(g, p, code)
    BY <1>8, <1>9
  <2>2. IsClimb(walk, p, code)
    BY <1>10, <2>1
  <2> QED
    BY <1>8, <2>2
<1>12. ancestors_of(p, code) = walk[m]
  BY <1>1, <1>10 DEF ancestors_of, IsClimb
<1>13. PICK k : k = [n \in 0 .. m |-> IF n = 0 THEN Lowest(p, code) ELSE StepUp(p, code, walk[n - 1])]
  OBVIOUS
<1>14. walk = k
  BY <1>1, <1>11, <1>13
<1>15. DOMAIN walk = 0 .. m /\ walk = [n \in 0 .. m |-> walk[n]] /\ walk[0] = Lowest(p, code)
  BY <1>13, <1>14
<1>16. \A n \in 1 .. m : walk[n] = StepUp(p, code, walk[n - 1])
  <2>1. ASSUME NEW n \in 1 .. m PROVE k[n] = StepUp(p, code, walk[n - 1])
    BY <1>13
  <2> QED
    BY <1>14, <2>1
<1>17. \A n \in 0 .. m : walk[n] \in V
  <2> DEFINE Q == {n \in 0 .. m : walk[n] \in V}
  <2>1. 0 \in Q
    BY <1>3, <1>15
  <2>2. \A n \in 1 .. m : n - 1 \in Q => n \in Q
    <3>1. ASSUME NEW n \in 1 .. m, n - 1 \in Q PROVE n \in Q
      <4>1. StepUp(p, code, walk[n - 1]) \in V
        BY <1>2, <3>1, UpStays
      <4> QED
        BY <1>16, <4>1
    <3> QED
      BY <3>1
  <2>3. \A n \in 0 .. m : n \in Q
    <3> HIDE DEF Q
    <3> QED
      BY <2>1, <2>2, Climb
  <2> QED
    BY <2>3
<1> QED
  BY <1>1, <1>2, <1>12, <1>15, <1>16, <1>17

(* A segment found upstream of one has that one below it, unless the chain *)
(* comes round.                                                            *)
LEMMA FoundUpstream ==
  ASSUME NEW p, IsSeq(p.segments), Root \notin Segments(p),
         NEW a \in Segments(p), NEW d \in Segments(p), d \in descendants_of(p, a),
         ancestors_of(p, d).fault # "upstream_cycle"
  PROVE  a \in ToSet(ancestors_of(p, d).chain)
<1>1. PICK m \in Nat : m = Len(p.segments)
  BY Places
<1>2. PICK f : /\ f[0] = {} /\ \A n \in 1 .. m : f[n] = Under(p, a, f[n - 1])
               /\ descendants_of(p, a) = f[m]
  BY <1>1, BelowRuns
<1>3. PICK g : /\ g \in [0 .. m -> Climbed(p)] /\ g[0] = Lowest(p, d)
               /\ \A n \in 1 .. m : g[n] = StepUp(p, d, g[n - 1])
               /\ ancestors_of(p, d) = g[m]
  BY <1>1, ClimbRuns
<1>4. \A n \in 0 .. m : g[n].fault # "upstream_cycle"
  <2>1. PICK P : P = {k \in 0 .. m : g[m - k].fault # "upstream_cycle"}
    OBVIOUS
  <2>2. 0 \in P
    BY <1>3, <2>1
  <2>3. \A k \in 1 .. m : k - 1 \in P => k \in P
    <3>1. SUFFICES ASSUME NEW k \in 1 .. m, g[m - k].fault = "upstream_cycle"
                   PROVE  g[m - (k - 1)].fault = "upstream_cycle"
      BY <2>1
    <3>2. m - (k - 1) \in 1 .. m /\ (m - (k - 1)) - 1 = m - k
      OBVIOUS
    <3>3. g[m - (k - 1)] = StepUp(p, d, g[m - k])
      BY <1>3, <3>2
    <3>4. StepUp(p, d, g[m - k]) = g[m - k]
      BY <3>1 DEF StepUp
    <3> QED
      BY <3>1, <3>3, <3>4
  <2>4. \A k \in 0 .. m : k \in P
    BY <2>2, <2>3, Climb
  <2>5. ASSUME NEW n \in 0 .. m PROVE g[n].fault # "upstream_cycle"
    <3>1. m - n \in 0 .. m /\ m - (m - n) = n
      OBVIOUS
    <3> QED
      BY <2>1, <2>4, <3>1
  <2> QED
    BY <2>5
<1>5. PICK P : P = {n \in 0 .. m :
                      \/ a \in ToSet(g[n].chain)
                      \/ n < m /\ g[n].fault = "none" /\ g[n].cursor \in f[(m - 1) - n] \cup {a}}
  OBVIOUS
<1>6. 0 \in P
  BY <1>2, <1>3, <1>5 DEF Under, Lowest
<1>7. ASSUME NEW n \in 1 .. m, n - 1 \in P PROVE n \in P
  <2>1. PICK b : b = g[n - 1]
    OBVIOUS
  <2>2. b \in Climbed(p) /\ g[n] = StepUp(p, d, b) /\ n \in 0 .. m
    <3>1. n - 1 \in 0 .. m
      OBVIOUS
    <3> QED
      BY <1>3, <2>1, <3>1
  <2>3. b.chain \in Seq(Segments(p))
        /\ b = [chain |-> b.chain, cursor |-> b.cursor, fault |-> b.fault]
    BY <2>2 DEF Climbed, Chains
  <2>4. CASE a \in ToSet(b.chain)
    <3>1. a \in ToSet(g[n].chain)
      <4>1. CASE g[n].chain = b.chain
        BY <2>4, <4>1
      <4>2. CASE g[n].chain # b.chain
        BY <2>2, <2>3, <4>2, <2>4 DEF StepUp, ToSet
      <4> QED
        BY <4>1, <4>2
    <3> QED
      BY <1>5, <2>2, <3>1
  <2>5. CASE a \notin ToSet(b.chain)
    <3>1. PICK k : k = m - n
      OBVIOUS
    <3>2. k \in 0 .. m /\ (m - 1) - (n - 1) = k /\ (m - 1) - n = k - 1 /\ (k # 0 => k \in 1 .. m /\ n < m)
      BY <3>1
    <3>3. b.fault = "none" /\ b.cursor \in f[k] \cup {a}
      BY <1>5, <1>7, <2>1, <2>5, <3>2
    <3>4. b.cursor \in Segments(p) /\ b.cursor # Root
      BY <1>2, <3>2, <3>3 DEF Under
    <3>5. g[n].fault # "upstream_cycle"
      BY <1>4, <2>2
    <3>6. b.cursor \notin {d} \cup ToSet(b.chain)
      <4>1. SUFFICES ASSUME b.cursor \in {d} \cup ToSet(b.chain) PROVE FALSE
        OBVIOUS
      <4>2. g[n] = [b EXCEPT !.fault = "upstream_cycle"]
        BY <2>2, <3>3, <3>4, <4>1 DEF StepUp
      <4>3. g[n].fault = "upstream_cycle"
        BY <2>3, <4>2
      <4> QED
        BY <3>5, <4>3
    <3>7. g[n] = [b EXCEPT !.chain = Append(b.chain, b.cursor), !.cursor = segment(p, b.cursor).upstream]
      BY <2>2, <3>3, <3>4, <3>6 DEF StepUp
    <3>8. /\ g[n].chain = Append(b.chain, b.cursor) /\ g[n].cursor = segment(p, b.cursor).upstream
          /\ g[n].fault = "none"
      BY <2>3, <3>3, <3>7
    <3>9. CASE b.cursor = a
      BY <2>3, <3>4, <3>9, <3>8, <1>5, <2>2 DEF ToSet
    <3>10. CASE b.cursor # a
      BY <1>2, <3>3, <3>10, <3>2, <1>5, <2>2, <3>8 DEF Under
    <3> QED
      BY <3>9, <3>10
  <2> QED
    BY <2>4, <2>5
<1>8. m \in P
  <2>1. m \in 0 .. m
    OBVIOUS
  <2> QED
    BY <1>6, <1>7, <2>1, Climb
<1> QED
  BY <1>3, <1>5, <1>8

(* A chain: each of its segments is right upstream of the one before, the  *)
(* first of the segment it starts from, and the cursor of the last.        *)
Nth(d, c, j) == IF j = 0 THEN d ELSE c[j]
Linked(p, d, b) ==
  /\ \A i \in 1 .. Len(b.chain) : b.chain[i] = segment(p, Nth(d, b.chain, i - 1)).upstream
  /\ b.cursor = segment(p, Nth(d, b.chain, Len(b.chain))).upstream

LEMMA UpLinked ==
  ASSUME NEW p, NEW d \in Segments(p), NEW b \in Climbed(p), Linked(p, d, b)
  PROVE  Linked(p, d, StepUp(p, d, b)) /\ Len(StepUp(p, d, b).chain) <= Len(b.chain) + 1
<1>1. b.chain \in Seq(Segments(p)) /\ b = [chain |-> b.chain, cursor |-> b.cursor, fault |-> b.fault]
  BY DEF Climbed, Chains
<1>2. PICK s : s = StepUp(p, d, b)
  OBVIOUS
<1>3. PICK c, n : c = b.chain /\ n = Len(c)
  OBVIOUS
<1>4. n \in Nat
  BY <1>1, <1>3
<1>5. CASE s.chain = c /\ s.cursor = b.cursor
  <2>1. Linked(p, d, s)
    BY <1>3, <1>5 DEF Linked
  <2> QED
    BY <1>2, <1>3, <1>4, <1>5, <2>1
<1>6. CASE ~(s.chain = c /\ s.cursor = b.cursor)
  <2>1. b.cursor \in Segments(p) /\ s.chain = Append(c, b.cursor)
        /\ s.cursor = segment(p, b.cursor).upstream
    BY <1>1, <1>2, <1>3, <1>6 DEF StepUp
  <2>2. PICK e : e = Append(c, b.cursor)
    OBVIOUS
  <2>3. Len(e) = n + 1 /\ e[n + 1] = b.cursor /\ \A i \in 1 .. n : e[i] = c[i]
    BY <1>1, <1>3, <2>1, <2>2
  <2>4. \A j \in 0 .. n : Nth(d, e, j) = Nth(d, c, j)
    BY <1>4, <2>3 DEF Nth
  <2>5. ASSUME NEW i \in 1 .. n + 1 PROVE e[i] = segment(p, Nth(d, e, i - 1)).upstream
    <3>1. i - 1 \in 0 .. n /\ Nth(d, e, i - 1) = Nth(d, c, i - 1)
      BY <1>4, <2>4
    <3>2. CASE i = n + 1
      <4>1. i - 1 = n
        BY <1>4, <3>2
      <4>2. b.cursor = segment(p, Nth(d, c, n)).upstream
        BY <1>3 DEF Linked
      <4> QED
        BY <2>3, <3>1, <3>2, <4>1, <4>2
    <3>3. CASE i # n + 1
      <4>1. i \in 1 .. n /\ e[i] = c[i]
        BY <1>4, <2>3, <3>3
      <4>2. c[i] = segment(p, Nth(d, c, i - 1)).upstream
        BY <1>3, <4>1 DEF Linked
      <4> QED
        BY <3>1, <4>1, <4>2
    <3> QED
      BY <3>2, <3>3
  <2>6. Nth(d, e, n + 1) = b.cursor
    BY <1>4, <2>3 DEF Nth
  <2>7. Linked(p, d, s)
    BY <2>1, <2>2, <2>3, <2>5, <2>6 DEF Linked
  <2> QED
    BY <1>2, <1>3, <1>4, <2>1, <2>2, <2>3, <2>7
<1> QED
  BY <1>5, <1>6

(* ... and the other way about.                                            *)
LEMMA FoundDownstream ==
  ASSUME NEW p, IsSeq(p.segments), NEW a \in Segments(p), NEW d \in Segments(p),
         a \in ToSet(ancestors_of(p, d).chain)
  PROVE  d \in descendants_of(p, a)
<1>1. PICK m \in Nat : m = Len(p.segments)
  BY Places
<1>2. PICK f : /\ f[0] = {} /\ \A n \in 1 .. m : f[n] = Under(p, a, f[n - 1])
               /\ descendants_of(p, a) = f[m]
  BY <1>1, BelowRuns
<1>3. PICK g : /\ g \in [0 .. m -> Climbed(p)] /\ g[0] = Lowest(p, d)
               /\ \A n \in 1 .. m : g[n] = StepUp(p, d, g[n - 1])
               /\ ancestors_of(p, d) = g[m]
  BY <1>1, ClimbRuns
<1>4. Linked(p, d, g[m]) /\ Len(g[m].chain) <= m
  <2>1. PICK P : P = {n \in 0 .. m : Linked(p, d, g[n]) /\ Len(g[n].chain) <= n}
    OBVIOUS
  <2>2. 0 \in P
    <3>1. g[0].chain = <<>> /\ g[0].cursor = segment(p, d).upstream
      BY <1>3 DEF Lowest
    <3>2. Len(g[0].chain) = 0
      BY <3>1
    <3>3. Linked(p, d, g[0])
      BY <3>1, <3>2 DEF Linked, Nth
    <3> QED
      BY <2>1, <3>2, <3>3
  <2>3. ASSUME NEW n \in 1 .. m, n - 1 \in P PROVE n \in P
    <3>1. n - 1 \in 0 .. m /\ g[n - 1] \in Climbed(p) /\ g[n] \in Climbed(p)
      BY <1>3
    <3>2. Linked(p, d, g[n]) /\ Len(g[n].chain) <= Len(g[n - 1].chain) + 1
      BY <1>3, <2>1, <2>3, <3>1, UpLinked
    <3>3. Len(g[n].chain) \in Nat /\ Len(g[n - 1].chain) \in Nat
      BY <3>1 DEF Climbed, Chains
    <3>4. Len(g[n].chain) <= n
      BY <2>1, <2>3, <3>2, <3>3
    <3> QED
      BY <2>1, <3>2, <3>4
  <2>4. m \in P
    <3>1. m \in 0 .. m
      OBVIOUS
    <3> QED
      BY <2>2, <2>3, <3>1, Climb
  <2> QED
    BY <2>1, <2>4
<1>5. PICK c : c = g[m].chain
  OBVIOUS
<1>6. c \in Seq(Segments(p))
  BY <1>3, <1>5 DEF Climbed, Chains
<1>7. PICK i \in 1 .. Len(c) : a = c[i]
  <2>1. PICK i \in DOMAIN c : a = c[i]
    BY <1>3, <1>5 DEF ToSet
  <2> QED
    BY <1>6, <2>1
<1>8. i \in 1 .. m /\ i \in Nat
  BY <1>4, <1>5, <1>6, <1>7
<1>9. \A j \in 0 .. i - 1 : /\ Nth(d, c, j) \in Segments(p)
                            /\ c[j + 1] = segment(p, Nth(d, c, j)).upstream
  <2>1. ASSUME NEW j \in 0 .. i - 1
        PROVE  Nth(d, c, j) \in Segments(p) /\ c[j + 1] = segment(p, Nth(d, c, j)).upstream
    BY <1>6, <1>7, <1>4, <1>5 DEF Linked, Nth
  <2> QED
    BY <2>1
<1>10. d \in f[i]
  <2>1. PICK P : P = {k \in 0 .. i - 1 : Nth(d, c, (i - 1) - k) \in f[k + 1]}
    OBVIOUS
  <2>2. ASSUME NEW k \in 0 .. i - 1 PROVE f[k + 1] = Under(p, a, f[k])
    <3>1. k + 1 \in 1 .. m /\ (k + 1) - 1 = k
      BY <1>8
    <3> QED
      BY <1>2, <3>1
  <2>3. 0 \in P
    <3>1. 0 \in 0 .. i - 1 /\ i - 1 \in 0 .. i - 1 /\ (i - 1) + 1 = i
      BY <1>8
    <3>2. Nth(d, c, i - 1) \in Segments(p) /\ a = segment(p, Nth(d, c, i - 1)).upstream
      BY <1>7, <1>9, <3>1
    <3>3. Nth(d, c, i - 1) \in f[0 + 1]
      BY <2>2, <3>1, <3>2 DEF Under
    <3> QED
      BY <2>1, <3>1, <3>3
  <2>4. ASSUME NEW k \in 1 .. i - 1, k - 1 \in P PROVE k \in P
    <3>1. PICK j : j = (i - 1) - k
      OBVIOUS
    <3>2. j \in 0 .. i - 1 /\ (i - 1) - (k - 1) = j + 1 /\ (k - 1) + 1 = k /\ k \in 0 .. i - 1 /\ j + 1 # 0
      BY <1>8, <3>1
    <3>3. Nth(d, c, j + 1) \in f[k]
      BY <2>1, <2>4, <3>2
    <3>4. Nth(d, c, j + 1) = c[j + 1]
      BY <3>2 DEF Nth
    <3>5. Nth(d, c, j) \in Segments(p) /\ c[j + 1] = segment(p, Nth(d, c, j)).upstream
      BY <1>9, <3>2
    <3>6. Nth(d, c, j) \in f[k + 1]
      BY <2>2, <3>2, <3>3, <3>4, <3>5 DEF Under
    <3> QED
      BY <2>1, <3>1, <3>2, <3>6
  <2>5. i - 1 \in P
    <3>1. i - 1 \in Nat /\ i - 1 \in 0 .. i - 1
      BY <1>8
    <3> QED
      BY <2>3, <2>4, <3>1, Climb
  <2>6. (i - 1) - (i - 1) = 0 /\ (i - 1) + 1 = i
    BY <1>8
  <2> QED
    BY <2>1, <2>5, <2>6 DEF Nth
<1>11. \A n \in 1 .. m : f[n - 1] \subseteq f[n]
  <2>1. PICK P : P = {n \in 0 .. m : n = 0 \/ f[n - 1] \subseteq f[n]}
    OBVIOUS
  <2>2. 0 \in P
    BY <2>1
  <2>3. ASSUME NEW n \in 1 .. m, n - 1 \in P PROVE n \in P
    <3>1. f[n] = Under(p, a, f[n - 1]) /\ n \in 0 .. m
      BY <1>2
    <3>2. CASE n = 1
      BY <1>2, <2>1, <3>1, <3>2
    <3>3. CASE n # 1
      BY <3>3, <1>2, <2>1, <2>3, <3>1 DEF Under
    <3> QED
      BY <3>2, <3>3
  <2>4. \A n \in 0 .. m : n \in P
    BY <2>2, <2>3, Climb
  <2> QED
    BY <2>1, <2>4
<1>12. d \in f[m]
  <2>1. PICK P : P = {k \in 0 .. m - i : d \in f[i + k]}
    OBVIOUS
  <2>2. m - i \in Nat /\ m - i \in 0 .. m - i /\ i + (m - i) = m
    BY <1>8
  <2>3. 0 \in P
    BY <1>8, <1>10, <2>1, <2>2
  <2>4. ASSUME NEW k \in 1 .. m - i, k - 1 \in P PROVE k \in P
    <3>1. i + k \in 1 .. m /\ (i + k) - 1 = i + (k - 1) /\ k \in 0 .. m - i
      BY <1>8
    <3> QED
      BY <1>11, <2>1, <2>4, <3>1
  <2>5. m - i \in P
    BY <2>2, <2>3, <2>4, Climb
  <2> QED
    BY <2>1, <2>2, <2>5
<1> QED
  BY <1>2, <1>12

(* What a compartment with work left strands, and what holds a segment.    *)
LEMMA StrandingIs ==
  ASSUME NEW p
  PROVE  /\ \A s \in stranding(p) : /\ s.compartment \in DOMAIN p.spaces
                                    /\ ~is_complete(p.spaces[s.compartment])
                                    /\ \A d : d \in s.downstream_segments <=>
                                         \E home \in Homes(p, s.compartment) : d \in descendants_of(p, home)
         /\ \A c \in DOMAIN p.spaces : ~is_complete(p.spaces[c]) => \E s \in stranding(p) : s.compartment = c
<1>1. PICK C : C = {d \in DOMAIN p.spaces : ~is_complete(p.spaces[d])}
  OBVIOUS
<1>2. PICK below : below = [c \in C |-> UNION {descendants_of(p, home) : home \in Homes(p, c)}]
  OBVIOUS
<1>3. PICK left : left = [c \in C |->
                            MapThenSumSet(LAMBDA d : roll_up_segment(p, d).remaining,
                                          UNION {descendants_of(p, home) : home \in Homes(p, c)})]
  OBVIOUS
<1>4. PICK rec : rec = [c \in C |-> [compartment |-> c, own_remaining |-> remaining(p.spaces[c]),
                                     stranded_downstream |-> left[c], downstream_segments |-> below[c]]]
  OBVIOUS
<1>5. stranding(p) = {rec[c] : c \in C}
  BY <1>1, <1>2, <1>3, <1>4 DEF stranding
<1>6. ASSUME NEW c \in C
      PROVE  /\ rec[c].compartment = c
             /\ \A d : d \in rec[c].downstream_segments <=> \E home \in Homes(p, c) : d \in descendants_of(p, home)
  BY <1>4, <1>2
<1> QED
  BY <1>1, <1>5, <1>6

(* Below a compartment's segments and held by one of them: the same.       *)
LEMMA HeldIsBelow ==
  ASSUME NEW p, IsSeq(p.segments), Root \notin Segments(p), NEW d \in Segments(p),
         ancestors_of(p, d).fault # "upstream_cycle",
         NEW c \in DOMAIN p.spaces, ~is_complete(p.spaces[c])
  PROVE  \A home \in Homes(p, c) : d \in descendants_of(p, home) <=> home \in held_by(p, d)
BY FoundUpstream, FoundDownstream DEF Homes, roll_up_segment, held_by

(* Whatever holds a segment has a compartment with work left.              *)
LEMMA HolderIsOpen ==
  ASSUME NEW p, IsSeq(p.segments), NEW d \in Segments(p), NEW home \in held_by(p, d)
  PROVE  \E c \in DOMAIN p.spaces : ~is_complete(p.spaces[c]) /\ home \in Homes(p, c)
<1>1. home \in ToSet(ancestors_of(p, d).chain) /\ ~roll_up_segment(p, home).complete
  BY DEF held_by
<1>2. PICK open : open = {x \in segment(p, home).compartments \cap DOMAIN p.spaces : ~is_complete(p.spaces[x])}
  OBVIOUS
<1>3. roll_up_segment(p, home).complete <=> open = {}
  BY <1>2 DEF roll_up_segment
<1>4. home \in Segments(p)
  <2>1. PICK m \in Nat : m = Len(p.segments)
    BY Places
  <2>2. PICK g : g \in [0 .. m -> Climbed(p)] /\ ancestors_of(p, d) = g[m]
    BY <2>1, ClimbRuns
  <2>3. g[m].chain \in Seq(Segments(p))
    BY <2>2 DEF Climbed, Chains
  <2> QED
    BY <1>1, <2>2, <2>3 DEF ToSet
<1> QED
  BY <1>1, <1>2, <1>3, <1>4 DEF Homes

(* The hours left in some of a package's segments.                         *)
LeftIn(p, D) == MapThenSumSet(LAMBDA d : roll_up_segment(p, d).remaining, D)

(* A package as it is served mirrors its holds.                            *)
LEMMA PackageMirrors ==
  ASSUME hull \in Hulls,
         Served("package") => \E p \in hull.packages : reply.body.package = p /\ reply.body.analysis = analyse(p)
  PROVE  StrandingMirrorsHolding
<1>1. SUFFICES ASSUME Served("package"), \A f \in reply.body.analysis.faults : f[2] # "upstream_cycle"
               PROVE  StrandingMirrorsHolding
  BY DEF StrandingMirrorsHolding
<1>2. PICK p \in hull.packages : reply.body.package = p /\ reply.body.analysis = analyse(p)
  BY <1>1
<1>3. IsSeq(p.segments) /\ Root \notin Segments(p)
  BY HoursAssumption
<1>4. PICK a : a = reply.body.analysis
  OBVIOUS
<1>5. /\ a.stranding = stranding(p) /\ a.total_stranded = total_stranded(p)
      /\ \A d \in Segments(p) : a.segments[d].held_by = held_by(p, d) /\ a.segments[d].testable = testable(p, d)
  BY <1>2, <1>4 DEF analyse
<1>6. ASSUME NEW d \in Segments(p) PROVE ancestors_of(p, d).fault # "upstream_cycle"
  <2>1. PICK x : x = <<d, ancestors_of(p, d).fault>>
    OBVIOUS
  <2>2. x \in a.faults
    BY <1>2, <1>4, <2>1 DEF analyse
  <2>3. x[2] # "upstream_cycle"
    BY <1>1, <1>4, <2>2
  <2> QED
    BY <2>1, <2>3
<1>7. ASSUME NEW c \in DOMAIN p.spaces, NEW d \in Segments(p),
             NEW S, S = UNION {s.downstream_segments : s \in {x \in a.stranding : x.compartment = c}}
      PROVE  d \in S <=> ~is_complete(p.spaces[c]) /\ Homes(p, c) \cap a.segments[d].held_by # {}
  <2>1. d \in S <=> \E s \in stranding(p) : s.compartment = c /\ d \in s.downstream_segments
    BY <1>5, <1>7
  <2>2. d \in S <=> ~is_complete(p.spaces[c]) /\ \E home \in Homes(p, c) : d \in descendants_of(p, home)
    BY <2>1, StrandingIs
  <2>3. ~is_complete(p.spaces[c]) =>
          \A home \in Homes(p, c) : d \in descendants_of(p, home) <=> home \in held_by(p, d)
    BY <1>3, <1>6, HeldIsBelow
  <2> QED
    BY <1>5, <2>2, <2>3
<1>8. PICK waiting : waiting = {d \in Segments(p) : a.segments[d].held_by # {}}
  OBVIOUS
<1>9. PICK U : U = UNION {s.downstream_segments : s \in stranding(p)}
  OBVIOUS
<1>10. U = waiting
  <2>1. ASSUME NEW d \in U PROVE d \in waiting
    <3>1. PICK s \in stranding(p) : d \in s.downstream_segments
      BY <1>9, <2>1
    <3>2. PICK c, home : /\ c = s.compartment /\ c \in DOMAIN p.spaces /\ ~is_complete(p.spaces[c])
                         /\ home \in Homes(p, c) /\ d \in descendants_of(p, home)
      BY <3>1, StrandingIs
    <3>3. d \in Segments(p)
      <4>1. home \in Segments(p)
        BY <3>2 DEF Homes
      <4>2. PICK m \in Nat : m = Len(p.segments) /\ m # 0 /\ m \in 1 .. m
        <5>1. Len(p.segments) \in Nat /\ DOMAIN p.segments = 1 .. Len(p.segments)
          BY <1>3, Places
        <5> QED
          BY <4>1, <5>1 DEF Segments
      <4>3. PICK f : descendants_of(p, home) = f[m] /\ \A n \in 1 .. m : f[n] = Under(p, home, f[n - 1])
        BY <1>3, <4>1, <4>2, BelowRuns
      <4> QED
        BY <3>2, <4>2, <4>3 DEF Under
    <3>4. home \in held_by(p, d)
      BY <1>3, <1>6, <3>2, <3>3, HeldIsBelow
    <3> QED
      BY <1>5, <1>8, <3>3, <3>4
  <2>2. ASSUME NEW d \in waiting PROVE d \in U
    <3>1. d \in Segments(p) /\ held_by(p, d) # {}
      BY <1>5, <1>8
    <3>2. PICK home \in held_by(p, d) : TRUE
      BY <3>1
    <3>3. PICK c \in DOMAIN p.spaces : ~is_complete(p.spaces[c]) /\ home \in Homes(p, c)
      BY <1>3, <3>1, HolderIsOpen
    <3>4. d \in descendants_of(p, home)
      BY <1>3, <1>6, <3>1, <3>2, <3>3, HeldIsBelow
    <3>5. PICK s \in stranding(p) : s.compartment = c
      BY <3>3, StrandingIs
    <3>6. d \in s.downstream_segments
      BY <3>3, <3>4, <3>5, StrandingIs
    <3> QED
      BY <1>9, <3>6
  <2> QED
    BY <2>1, <2>2
<1>11. total_stranded(p) = LeftIn(p, U)
  BY <1>9 DEF total_stranded, LeftIn
<1>12. \A d \in Segments(p) : a.segments[d].testable => d \notin waiting
  BY <1>5, <1>8 DEF testable
<1>13. \A c \in DOMAIN reply.body.package.spaces, d \in Segments(reply.body.package) :
         d \in UNION {s.downstream_segments :
                        s \in {x \in reply.body.analysis.stranding : x.compartment = c}}
           <=> /\ ~is_complete(reply.body.package.spaces[c])
               /\ Homes(reply.body.package, c) \cap reply.body.analysis.segments[d].held_by # {}
  <2>1. ASSUME NEW c \in DOMAIN p.spaces, NEW d \in Segments(p)
        PROVE  d \in UNION {s.downstream_segments : s \in {x \in a.stranding : x.compartment = c}}
                 <=> ~is_complete(p.spaces[c]) /\ Homes(p, c) \cap a.segments[d].held_by # {}
    <3>1. PICK S : S = UNION {s.downstream_segments : s \in {x \in a.stranding : x.compartment = c}}
      OBVIOUS
    <3> QED
      BY <1>7, <3>1
  <2> QED
    BY <1>2, <1>4, <2>1
<1>14. PICK D : D = {d \in Segments(reply.body.package) : reply.body.analysis.segments[d].held_by # {}}
  OBVIOUS
<1>15. D = waiting
  BY <1>2, <1>4, <1>8, <1>14
<1>16. reply.body.analysis.total_stranded = LeftIn(reply.body.package, D)
  BY <1>2, <1>4, <1>5, <1>10, <1>11, <1>15
<1>17. \A d \in Segments(reply.body.package) : reply.body.analysis.segments[d].testable => d \notin D
  BY <1>2, <1>4, <1>12, <1>15
<1> QED
  BY <1>13, <1>14, <1>16, <1>17 DEF StrandingMirrorsHolding, LeftIn

(* A readiness board and a package's analysis are of the hull as it is:    *)
(* with BoardsInv, what the hours need.                                    *)
HoursInv ==
  /\ Served("readiness") => reply.body = roll_up(SpacesOf(hull, now), Unattributed(hull, now))
  /\ Served("package") =>
       \E p \in hull.packages : reply.body.package = p /\ reply.body.analysis = analyse(p)

LEMMA AskedHours ==
  ASSUME NEW kind, NEW body, Asked(kind, body), hull' = hull, now' = now,
         kind = "readiness" => body = roll_up(SpacesOf(hull, now), Unattributed(hull, now)),
         kind = "package" => \E p \in hull.packages : body.package = p /\ body.analysis = analyse(p)
  PROVE  HoursInv'
<1>1. reply'.kind = kind /\ reply'.body = body
  BY DEF Asked
<1>2. Served("readiness")' <=> kind = "readiness"
  BY <1>1 DEF Served
<1>3. Served("package")' <=> kind = "package"
  BY <1>1 DEF Served
<1> QED
  BY <1>1, <1>2, <1>3 DEF HoursInv

LEMMA StepHours ==
  ASSUME HoursInv, [BoardsNext]_boards_vars
  PROVE  HoursInv'
<1>1. CASE Read
  <2>1. PICK kind, body : /\ Asked(kind, body)
                          /\ kind = "readiness" => body = roll_up(SpacesOf(hull, now), Unattributed(hull, now))
                          /\ kind = "package" => \E p \in hull.packages : body.package = p
                                                                          /\ body.analysis = analyse(p)
    <3>1. CASE readiness
      <4>1. Asked("readiness", roll_up(SpacesOf(hull, now), Unattributed(hull, now)))
        BY <3>1 DEF readiness, SpacesOf, Register
      <4>2. "readiness" # "package"
        OBVIOUS
      <4> QED
        BY <4>1, <4>2
    <3>2. ASSUME NEW p \in hull.packages, get_package(p)
          PROVE  \E kind, body : /\ Asked(kind, body) /\ kind = "package"
                                 /\ body.package = p /\ body.analysis = analyse(p)
      BY <3>2 DEF get_package
    <3>3. CASE \E p \in hull.packages : get_package(p)
      BY <3>3, <3>2
    <3>4. CASE ~readiness /\ ~(\E p \in hull.packages : get_package(p))
      <4>1. \E kind, body : Asked(kind, body) /\ kind # "readiness" /\ kind # "package"
        BY <1>1, <3>4 DEF Read, deck_states, stranded, leverage_board, issues, work_conflicts,
                          mitigations, compartment_state
      <4> QED
        BY <4>1
    <3> QED
      BY <3>1, <3>3, <3>4
  <2>2. hull' = hull /\ now' = now
    BY <2>1 DEF Asked
  <2> QED
    BY <2>1, <2>2, AskedHours
<1>2. CASE TakeDischarge \/ TakeWait
  <2>1. reply'.kind = "none"
    BY <1>2 DEF TakeDischarge, TakeWait, NoReply
  <2> QED
    BY <2>1 DEF HoursInv, Served
<1>3. CASE UNCHANGED boards_vars
  BY <1>3 DEF boards_vars, HoursInv, Served
<1> QED
  BY <1>1, <1>2, <1>3 DEF BoardsNext

(* The readiness board adds up and a package's stranding mirrors its       *)
(* holds: for every register, sets of bookings and shape of package        *)
(* (roll_up, SpaceReadiness, held_by, stranding, total_stranded).          *)
THEOREM HoursAlwaysAddUp == BoardsSpec => []HoursAddUp
<1>1. ASSUME BoardsInv, HoursInv PROVE HoursAddUp
  <2>1. CASE reply.kind = "none"
    BY <2>1 DEF HoursAddUp, ReadinessAddsUp, StrandingMirrorsHolding, Served
  <2>2. CASE reply.kind # "none"
    <3>1. hull \in Hulls
      BY <1>1, <2>2, BoardWorld
    <3> QED
      BY <1>1, <3>1, BoardAddsUp, PackageMirrors DEF HoursAddUp, HoursInv
  <2> QED
    BY <2>1, <2>2
<1>2. BoardsInit => HoursInv
  BY DEF BoardsInit, HoursInv, NoReply, Served
<1> QED
  BY <1>1, <1>2, StepHours, BoardsServed, PTL DEF BoardsSpec
=============================================================================
