------------------------------ MODULE Packages ------------------------------
(***************************************************************************)
(* wadl-plan's distributed package and the stranded hours of a hull.       *)
(*                                                                         *)
(* A package p, known by its code, is one work order run through many      *)
(* compartments: a sequence of segments, each with its code, the code of   *)
(* the segment upstream of it and the compartments it passes through, and  *)
(* the work booked in each compartment of its footprint (a function,       *)
(* p.spaces).                                                              *)
(***************************************************************************)
EXTENDS Integers, SequencesExt

CONSTANT Root   \* the upstream of a segment that has none

(* Hours left; none where more is earned than was budgeted.                *)
remaining(work) == IF work.earned >= work.budget THEN 0 ELSE work.budget - work.earned

is_complete(work) == remaining(work) = 0

Segments(p) == {p.segments[i].code : i \in DOMAIN p.segments}

segment(p, code) == CHOOSE s \in ToSet(p.segments) : s.code = code

Homes(p, c) == {code \in Segments(p) : c \in segment(p, code).compartments}

(* The chain upstream of a segment, nearest first, and whether it was cut  *)
(* short: by a pointer out of the package, or by coming round again.       *)
ancestors_of(p, code) ==
  LET From(cursor) == [chain |-> <<>>, cursor |-> cursor, fault |-> "none"]
      walk[n \in 0 .. Len(p.segments)] ==
        IF n = 0 THEN From(segment(p, code).upstream)
        ELSE LET a == walk[n - 1]
             IN IF a.cursor = Root \/ a.fault # "none" THEN a
                ELSE IF a.cursor \notin Segments(p) THEN [a EXCEPT !.fault = "dangling_upstream"]
                ELSE IF a.cursor \in {code} \cup ToSet(a.chain) THEN [a EXCEPT !.fault = "upstream_cycle"]
                ELSE [a EXCEPT !.chain = Append(@, a.cursor),
                               !.cursor = segment(p, a.cursor).upstream]
  IN walk[Len(p.segments)]

(* Every segment downstream of one, transitively.                          *)
descendants_of(p, code) ==
  LET below[n \in 1 .. Len(p.segments)] ==
        LET sources == IF n = 1 THEN {code} ELSE below[n - 1] \cup {code}
        IN {d \in Segments(p) : segment(p, d).upstream \in sources}
  IN below[Len(p.segments)]

(* A segment's hours are those of the compartments it passes through, and  *)
(* it is complete when none of them has work left.                         *)
roll_up_segment(p, code) ==
  LET known == segment(p, code).compartments \cap DOMAIN p.spaces
      work == [budget |-> MapThenSumSet(LAMBDA c : p.spaces[c].budget, known),
               earned |-> MapThenSumSet(LAMBDA c : p.spaces[c].earned, known)]
      open == {c \in known : ~is_complete(p.spaces[c])}
  IN [remaining |-> remaining(work), open_compartments |-> open, complete |-> open = {}]

\* Mutant: only the segment next upstream is looked at.
held_by_next(p, code) ==
  {a \in {segment(p, code).upstream} \cap Segments(p) : ~roll_up_segment(p, a).complete}

(* The segments upstream that are not complete; with none of them, and     *)
(* itself complete, a segment may be tested.                               *)
held_by(p, code) == {a \in ToSet(ancestors_of(p, code).chain) : ~roll_up_segment(p, a).complete}

testable(p, code) == roll_up_segment(p, code).complete /\ held_by(p, code) = {}

(* What a compartment with work left holds elsewhere: the hours of the     *)
(* segments downstream of those it lies on, each counted once.             *)
stranding(p) ==
  {LET downstream == UNION {descendants_of(p, home) : home \in Homes(p, c)}
   IN [compartment |-> c, own_remaining |-> remaining(p.spaces[c]),
       stranded_downstream |->
         MapThenSumSet(LAMBDA d : roll_up_segment(p, d).remaining, downstream),
       downstream_segments |-> downstream] :
   c \in {d \in DOMAIN p.spaces : ~is_complete(p.spaces[d])}}

(* The headline of a package: each segment's hours once, however many      *)
(* compartments strand it.                                                 *)
total_stranded(p) ==
  MapThenSumSet(LAMBDA d : roll_up_segment(p, d).remaining,
                UNION {s.downstream_segments : s \in stranding(p)})

analyse(p) ==
  [segments |-> [code \in Segments(p) |->
                   [complete |-> roll_up_segment(p, code).complete,
                    testable |-> testable(p, code), held_by |-> held_by(p, code)]],
   stranding |-> stranding(p),
   total_stranded |-> total_stranded(p),
   open_compartment_count |-> Cardinality({c \in DOMAIN p.spaces : ~is_complete(p.spaces[c])}),
   faults |-> {<<code, ancestors_of(p, code).fault>> : code \in Segments(p)} \cup
              {<<code, "unknown_compartment">> :
                 code \in {d \in Segments(p) : ~(segment(p, d).compartments \subseteq DOMAIN p.spaces)}}]

(* The hull's report: of every package, the compartments that hold         *)
(* something downstream, by the package's code.                            *)
Item(p, s) ==
  [package_code |-> p.code, compartment |-> s.compartment, own_remaining |-> s.own_remaining,
   stranded_downstream |-> s.stranded_downstream, downstream_segments |-> s.downstream_segments]

stranded_hours(packages) ==
  [total |-> MapThenSumSet(total_stranded, packages),
   items |-> UNION {{Item(p, s) : s \in {x \in stranding(p) : x.stranded_downstream > 0}} : p \in packages}]

-----------------------------------------------------------------------------
(* The compartment pacing a package: the one that strands most, then one a *)
(* rule refuses work in, then the one with most left itself.  refused says *)
(* of a compartment whether the engine refuses it.                         *)
Paces(a, b, refused) ==
  LET Weight(x) == IF x.compartment \in refused THEN 1 ELSE 0
  IN \/ a.stranded_downstream > b.stranded_downstream
     \/ /\ a.stranded_downstream = b.stranded_downstream
        /\ \/ Weight(a) > Weight(b)
           \/ Weight(a) = Weight(b) /\ a.own_remaining >= b.own_remaining

(* Any of those no other goes before; the compartment's number decides     *)
(* between them.                                                           *)
governing_constraint(p, refused) ==
  {a \in stranding(p) : \A b \in stranding(p) : Paces(a, b, refused)}

(* A state that warns makes the constraint one of authorization too.       *)
ConstraintKind(state) == IF state = "allow" THEN "completion" ELSE "authorization"
=============================================================================
