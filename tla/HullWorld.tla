----------------------------- MODULE HullWorld -----------------------------
(***************************************************************************)
(* What wadl-api's handlers read a hull as: the work booked in its spaces, *)
(* the world the mitigation options are computed against, a space under    *)
(* the rules of its category, and its issues.                              *)
(*                                                                         *)
(* A hull h is a record: its couplings, rules and hazards (sequences), the *)
(* register's spaces with their category, zone and deck (functions), its   *)
(* work orders and activities (sets), whether a schedule of record was     *)
(* imported, the schedule's dependencies and the packages.                 *)
(***************************************************************************)
EXTENDS IssueBoard, Readiness, Packages

(* The work orders a board prices: the activities of an imported schedule  *)
(* that have a place and are not finished, else the seeded orders.         *)
booked_orders(h) ==
  IF h.imported
  THEN {[name |-> <<a.code>>, space |-> a.space, hours |-> a.remaining, window |-> a.window] :
          a \in {x \in h.activities : ~x.milestone /\ ~x.complete /\ x.space # None}}
  ELSE h.orders

(* ... and every package's share of a space, with hours left.              *)
packages_with_footprints(h) ==
  UNION {{[name |-> <<p.code, c>>, space |-> c, hours |-> remaining(p.spaces[c]),
           window |-> p.spaces[c].window] :
            c \in {d \in DOMAIN p.spaces : ~is_complete(p.spaces[d])}} : p \in h.packages}

bookings(h) == booked_orders(h) \cup packages_with_footprints(h)

registered(h) == DOMAIN h.category

(* The world the boards evaluate, and the mitigation options are computed  *)
(* against: under every rule in force at the instant, whatever the work.   *)
mitigation_inputs(h, t) ==
  LET w == engine_inputs(h, t)
  IN [graph |-> w.graph, rules |-> w.rules, hazards |-> w.hazards, at |-> w.at,
      spaces |-> registered(h), bookings |-> bookings(h)]

StrandedBy(h, c) ==
  MapThenSumSet(LAMBDA s : s.stranded_downstream,
                {s \in stranded_hours(h.packages).items : s.compartment = c})

(* A space as the deck plan reads it: under the rules of its category.     *)
decide(h, t, space) ==
  LET w == engine_inputs(h, t)
  IN evaluate([w EXCEPT !.rules = for_compartment(h, w, space)], space)

SpaceReadiness(h, t, space) ==
  LET decision == decide(h, t, space)
  IN [space |-> space, zone |-> h.zone[space], deck |-> h.deck[space],
      permits |-> permits_work(decision.state),
      remaining |-> Load(mitigation_inputs(h, t), t, space), stranded |-> StrandedBy(h, space),
      clearing |-> {l.clearing : l \in governing_step(decision)}]

(* The packages' hours at the instant in no space of the register.         *)
Unattributed(h, t) ==
  MapThenSumSet(LAMBDA b : b.hours,
                {b \in packages_with_footprints(h) : b.space \notin registered(h) /\ booked_at(b, t)})

(* The issues of a hull, by the schedule's activities read after the rest. *)
derived_issues(h, t, activities) ==
  derive(mitigation_inputs(h, t),
         {r \in activities : ~r.milestone}, stranded_hours(h.packages).items, h.edges)

(* The set an activity is judged by: its work in its space.                *)
for_activity(h, w, a) ==
  LET category == IF a.space \in registered(h) THEN h.category[a.space] ELSE None
  IN bound_to(w.rules, [work_type |-> a.work_type, category |-> category], w.at)
=============================================================================
