---------------------------- MODULE MCHullBoards ----------------------------
(* Four spaces joined by five couplings, up to three hazards of the five   *)
(* kinds, and work that is booked, scheduled and packaged in them.         *)
EXTENDS HullBoards

(* A coupling is stored as an edge each way.                               *)
coupling(x, y, code, carries, hops) ==
  <<[from |-> x, to |-> y, code |-> code, type |-> code, reach |-> hops, carries |-> carries],
    [from |-> y, to |-> x, code |-> code, type |-> code, reach |-> hops, carries |-> carries]>>

Joints ==
  coupling("a", "b", "deck_penetration", {"heat"}, 1) \o coupling("b", "c", "exhaust_trunk", {"vapour"}, 2)
  \o coupling("c", "d", "exhaust_trunk", {"vapour"}, 2) \o coupling("d", "a", "electrical_bus", {"power"}, 1)
  \o coupling("a", "c", "shared_bulkhead", {"heat"}, 1)

(* ... or, one that lets air or heat through one way only, as one.         *)
OneWay == [i \in 1 .. 5 |-> Joints[2 * i]]

fact(origin, label, kind, since, ended) ==
  [origin |-> origin, label |-> label, kind |-> kind, since |-> since, ended |-> ended]

Facts == {
  fact("a", "coat", "coating_open", 0, None),    fact("b", "coat", "coating_open", 300, None),
  fact("c", "coat", "coating_open", 0, 10),      fact("b", "weld", "hot_work_live", 0, None),
  fact("a", "weld", "hot_work_live", 0, 20),     fact("d", "bus", "energised_bus", 0, None),
  fact("c", "stow", "flammable_stow", 0, None),  fact("a", "stop", "stop_work", 10, None),
  fact("d", "coat", "coating_open", 20, None) }

(* What a yard might author: a coating read through the trunk for every    *)
(* work, rules of one category, rules in force from and up to an instant.  *)
Yard ==
  << Seeded("Y1", "coating_open", None, 0, "block", "chemist", 480, "raise", <<>>, "yard"),
     [Seeded("Y2", "coating_open", "exhaust_trunk", 2, "suspend", "chemist", 480, "raise", <<>>, "yard")
        EXCEPT !.categories = <<"tank">>],
     [Seeded("Y3", "stop_work", None, 0, "block", "chief", None, "raise", <<>>, "yard") EXCEPT !.effective_from = 490],
     [Seeded("Y4", "hot_work_live", "deck_penetration", 1, "suspend", "marshal", 30, "end", <<>>, "yard")
        EXCEPT !.effective_to = 490] >>

(* A coating held on a clock, as seeded, and until somebody looks too: to  *)
(* discharge it answers both.                                              *)
BothWays == Append(seed_usn_hot_work, Seeded("B1", "coating_open", None, 0, "suspend", "chemist", None, "raise", <<>>, "yard"))

span(from, to) == [start |-> from, end |-> to]

Orders == {[name |-> <<"o1">>, space |-> "a", hours |-> 8, window |-> None],
           [name |-> <<"o2">>, space |-> "b", hours |-> 5, window |-> span(0, 490)],
           [name |-> <<"o3">>, space |-> "c", hours |-> 3, window |-> span(20, 1500)]}

activity(code, space, window, left, class) ==
  [code |-> code, space |-> space, window |-> window, remaining |-> left,
   milestone |-> FALSE, complete |-> left = 0, class |-> class]

Activities == {activity("t1", "a", span(0, 400), 6, "hot"), activity("t2", "b", span(200, 900), 4, "flammable"),
               activity("t3", "c", None, 2, "flammable"),   activity("t4", "d", span(10, 50), 7, "hot"),
               activity("t5", "b", span(0, 2000), 0, "hot"), activity("t6", None, span(0, 2000), 5, "none")}

Edges == {[pred |-> "t1", succ |-> "t2", lag |-> -1], [pred |-> "t2", succ |-> "t3", lag |-> 0]}

seg(code, upstream, compartments) == [code |-> code, upstream |-> upstream, compartments |-> compartments]
work(budget, earned, window) == [budget |-> budget, earned |-> earned, window |-> window]
Package(code, segments, spaces) == [code |-> code, segments |-> segments, spaces |-> spaces]
Footprint == [c \in {"a", "b", "c", "e"} |->
                CASE c = "a" -> work(10, 4, None)         [] c = "b" -> work(5, 7, span(0, 480))
                  [] c = "c" -> work(9, 0, span(10, 900)) [] c = "e" -> work(3, 0, span(10, 900))]

(* A main with two branches, one of which runs on; a loop; and one whose   *)
(* upstream is in no segment of it.                                        *)
Tree == Package("tree", <<seg("s1", Root, {"a"}), seg("s2", "s1", {"b", "c"}), seg("s3", "s2", {"e"}),
                          seg("s4", "s1", {"c"})>>, Footprint)
Trees == {Tree, [Tree EXCEPT !.code = "done", !.spaces["a"].earned = 10],
          [Tree EXCEPT !.code = "ends", !.spaces["c"].earned = 9, !.spaces["e"].earned = 3]}
Faulty == {Package("loop", <<seg("s1", "s2", {"a"}), seg("s2", "s1", {"c"}), seg("s3", "s2", {"e"})>>, Footprint),
           Package("lost", <<seg("s1", "s9", {"a", "z"}), seg("s2", "s1", {"c"})>>, Footprint)}

base == [graph |-> Joints, rules |-> seed_usn_hot_work, hazards |-> <<>>,
         category |-> [s \in {"a", "b", "c", "d"} |-> IF s = "c" THEN "tank" ELSE "machinery"],
         zone |-> [s \in {"a", "b", "c", "d"} |-> IF s \in {"a", "b"} THEN "z1" ELSE "z2"],
         deck |-> [s \in {"a", "b", "c", "d"} |-> IF s = "a" THEN 1 ELSE 2],
         orders |-> Orders, activities |-> Activities, imported |-> TRUE, edges |-> Edges,
         packages |-> {Tree}]

Registers(most) == {SetToSeq(S) : S \in kSubset(most, Facts)}

SeedHulls == {[base EXCEPT !.hazards = r] : r \in UNION {Registers(n) : n \in 1 .. 3}}
YardHulls == {[base EXCEPT !.hazards = r, !.rules = Yard, !.imported = FALSE] : r \in Registers(2) \cup Registers(3)}
PackageHulls == {[base EXCEPT !.hazards = r, !.packages = Trees \cup Faulty, !.graph = g] :
                  g \in {Joints, OneWay}, r \in Registers(1)}
BothWaysHulls == {[base EXCEPT !.hazards = r, !.rules = BothWays] : r \in Registers(2)}
SmallHulls == BothWaysHulls \cup SeedHulls \cup YardHulls \cup PackageHulls
=============================================================================
