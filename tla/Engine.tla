------------------------------- MODULE Engine -------------------------------
(***************************************************************************)
(* wadl-engine's evaluate as the boards call it: the rules narrowed to a   *)
(* piece of work, the cascade of each hazard over the hull's couplings,    *)
(* the trace it leaves on a compartment and the state that governs.        *)
(*                                                                         *)
(* A world w is a record of what the engine is handed: its graph, rules    *)
(* and hazards, which are sequences (their order is the trace's), and the  *)
(* instant at.  CascadeWalk has the walk step by step, over every order    *)
(* of the edges; here the edges come in the order they are stored in.      *)
(***************************************************************************)
EXTENDS Integers, SequencesExt

CONSTANT None   \* no such instant, code, work type or category

(* The fields of both records; where both have one, the first's.           *)
Merged(f, g) == [x \in DOMAIN f \cup DOMAIN g |-> IF x \in DOMAIN f THEN f[x] ELSE g[x]]

(* SelectSeq, written out: what passes the test, in its order.             *)
Chosen(s, Test(_)) == FlattenSeq([i \in DOMAIN s |-> IF Test(s[i]) THEN <<s[i]>> ELSE <<>>])

(* A function that is a sequence.                                          *)
IsSeq(s) == s \in Seq(ToSet(s))

(* Work as far as its caller knows it; what is unknown binds like any.     *)
AnyWork == [work_type |-> None, category |-> None]

Listed(list, value) == list = <<>> \/ value = None \/ value \in ToSet(list)

(* Whether a rule is in force for the work at an instant: from its         *)
(* effective_from up to, and not at, its effective_to.                     *)
binds(rule, work, at) ==
  /\ Listed(rule.work_types, work.work_type)
  /\ Listed(rule.categories, work.category)
  /\ rule.effective_from = None \/ rule.effective_from <= at
  /\ rule.effective_to = None \/ at < rule.effective_to

bound_to(rules, work, at) == Chosen(rules, LAMBDA rule : binds(rule, work, at))

(* The longest hold anchored at a hazard's end: the tail of a clearance.   *)
EndAnchored(rule) == rule.hold_from = "end" /\ rule.hold # None

longest_end_anchored_hold(rules) ==
  LET holds == {rules[i].hold : i \in {j \in DOMAIN rules : EndAnchored(rules[j])}}
  IN IF holds = {} THEN 0 ELSE Max(holds)

(* The seed: the rules in force until a table is committed.  Hops and      *)
(* holds are the seed's; a rule that names no coupling is a same-space one.*)
Seeded(code, hazard, via, max_hops, state, clearing, hold, hold_from, work_types, authority) ==
  [code |-> code, hazard |-> hazard, via |-> via, max_hops |-> max_hops, state |-> state,
   clearing |-> clearing, hold |-> hold, hold_from |-> hold_from, work_types |-> work_types,
   categories |-> <<>>, effective_from |-> None, effective_to |-> None, authority |-> authority]

HotWork == <<"hot_work">>

seed_coating_rules ==
  << Seeded("R03", "coating_open", None, 0, "block", "marine_chemist", 480, "raise", HotWork, "nfpa_nstm"),
     Seeded("R03", "coating_open", "deck_penetration", 1, "block", "marine_chemist", 480, "raise", HotWork, "nstm_nfpa"),
     Seeded("R06", "coating_open", "shared_bulkhead", 1, "warn", "marine_chemist", 480, "raise", HotWork, "yard_nstm"),
     Seeded("R09", "coating_open", "exhaust_trunk", 2, "suspend", "marine_chemist", 480, "raise", HotWork, "nstm_nfpa"),
     Seeded("R09", "coating_open", "exhaust_trunk", 2, "warn", "marine_chemist", 480, "raise", <<>>, "nstm_nfpa") >>

seed_other_hazard_rules ==
  << Seeded("R04", "hot_work_live", "deck_penetration", 1, "suspend", "fire_marshal", 30, "end", <<>>, "nstm_milstd"),
     Seeded("R07", "energised_bus", None, 0, "block", "isolation_authority", None, "raise", <<>>, "nstm_300"),
     Seeded("R07", "energised_bus", "electrical_bus", 1, "block", "isolation_authority", None, "raise", <<>>, "nstm_300"),
     Seeded("R13", "flammable_stow", "exhaust_trunk", 2, "block", "fire_marshal", None, "raise", HotWork, "nfpa_nstm"),
     Seeded("R22", "stop_work", None, 0, "suspend", "issuing_authority", None, "raise", <<>>, "yard") >>

seed_usn_hot_work == seed_coating_rules \o seed_other_hazard_rules

-----------------------------------------------------------------------------
(* The cascade from an origin: the origin and then the places found are    *)
(* taken in the order they were found, each is expanded along its edges in *)
(* theirs, and a (space, coupling type) pair is found once.                *)
Met(hits, e) == \E i \in DOMAIN hits : hits[i].space = e.to /\ hits[i].type = e.type

Admits(e, place, origin, rule) ==
  /\ e.from = place.space /\ e.to # origin /\ e.code = rule.via
  /\ place.depth + 1 <= e.reach

Hit(place, e) ==
  [space |-> e.to, type |-> e.type, depth |-> place.depth + 1, path |-> Append(place.path, e)]

Expanded(hits, place, graph, origin, rule) ==
  LET along[i \in 0 .. Len(graph)] ==
        IF i = 0 THEN hits
        ELSE IF Admits(graph[i], place, origin, rule) /\ ~Met(along[i - 1], graph[i])
             THEN Append(along[i - 1], Hit(place, graph[i])) ELSE along[i - 1]
  IN along[Len(graph)]

Queue(origin, hits) == <<[space |-> origin, type |-> None, depth |-> 0, path |-> <<>>]>> \o hits

(* No more places are found than there are couplings.                      *)
cascade_from(graph, origin, rule) ==
  LET After(hits, n) ==
        IF n <= Len(hits) + 1 /\ Queue(origin, hits)[n].depth < rule.max_hops
        THEN Expanded(hits, Queue(origin, hits)[n], graph, origin, rule) ELSE hits
      found[n \in 0 .. Len(graph) + 1] == IF n = 0 THEN <<>> ELSE After(found[n - 1], n)
  IN found[Len(graph) + 1]

-----------------------------------------------------------------------------
raised_by(h, t) == h.since <= t

ended_by(h, t) == h.ended # None /\ h.ended <= t

(* When the line clears on a clock: a hold anchored at the hazard's end    *)
(* has none until the hazard has ended.                                    *)
hold_clock(h, rule, t) ==
  IF rule.hold = None \/ (rule.hold_from = "end" /\ ~ended_by(h, t)) THEN None
  ELSE (IF rule.hold_from = "end" THEN h.ended ELSE h.since) + rule.hold

(* One line of the trace; path goes from the hazard's space to the subject.*)
step(h, rule, path, t) ==
  [code |-> rule.code, state |-> rule.state, source |-> h.origin, hazard |-> h.label,
   path |-> path, clearing |-> rule.clearing, earliest_clear |-> hold_clock(h, rule, t)]

Steps(h, rule, paths, t) == [i \in DOMAIN paths |-> step(h, rule, paths[i], t)]

RunOut(clear, t) == clear # None /\ clear <= t

(* The ways a hazard comes to the subject: the empty one where it lies.    *)
PathsTo(w, h, rule, subject) ==
  IF rule.via = None
  THEN IF h.origin = subject THEN << <<>> >> ELSE <<>>
  ELSE LET hits == cascade_from(w.graph, h.origin, rule)
       IN  FlattenSeq([i \in DOMAIN hits |-> IF hits[i].space = subject THEN <<hits[i].path>> ELSE <<>>])

(* The lines a hazard and a rule put in the subject's trace: none before   *)
(* the hazard is raised, none for a raise-anchored rule once it has ended, *)
(* none whose hold has run out.                                            *)
Lines(w, h, rule, subject) ==
  IF \/ ~raised_by(h, w.at) \/ rule.hazard # h.kind
     \/ rule.hold_from = "raise" /\ ended_by(h, w.at)
     \/ RunOut(hold_clock(h, rule, w.at), w.at)
  THEN <<>>
  ELSE Steps(h, rule, PathsTo(w, h, rule, subject), w.at)

LinesUnder(w, h, rules, subject) ==
  FlattenSeq([j \in DOMAIN rules |-> Lines(w, h, rules[j], subject)])

(* Hazard by hazard, and for each rule by rule.                            *)
Trace(w, subject) ==
  FlattenSeq([i \in DOMAIN w.hazards |-> LinesUnder(w, w.hazards[i], w.rules, subject)])

States == {"allow", "warn", "suspend", "block"}

severity(state) ==
  CASE state = "allow" -> 0 [] state = "warn" -> 1
    [] state = "suspend" -> 2 [] state = "block" -> 3

permits_work(state) == severity(state) < 2

(* The most severe state of the trace's lines, allow if it has none.       *)
Worst(states) == CHOOSE s \in states : \A u \in states : severity(u) <= severity(s)

Decided(trace) ==
  [state |-> Worst({"allow"} \cup {trace[i].state : i \in DOMAIN trace}), trace |-> trace]

evaluate(w, subject) == Decided(Trace(w, subject))

(* Whether that state permits work: no line of the trace refuses it.       *)
Permits(w, subject) ==
  \A i \in DOMAIN w.hazards, j \in DOMAIN w.rules :
     permits_work(w.rules[j].state) \/ Lines(w, w.hazards[i], w.rules[j], subject) = <<>>

(* The line that decided the state: the first as severe as it.             *)
governing_step(decision) ==
  LET t == decision.trace
      first == {i \in DOMAIN t : t[i].state = decision.state
                                 /\ \A j \in 1 .. i - 1 : t[j].state # decision.state}
  IN {t[i] : i \in first}

(* The hazards the store hands over for an instant: all but those whose    *)
(* end lies further back than the tail.                                    *)
bearing_on(hazards, t, tail) ==
  Chosen(hazards, LAMBDA h : h.ended = None \/ t < h.ended + tail)

(* What the boards read together, at an instant.                           *)
engine_inputs(hull, t) ==
  LET rules == bound_to(hull.rules, AnyWork, t)
  IN [graph |-> hull.graph, rules |-> rules, at |-> t,
      hazards |-> bearing_on(hull.hazards, t, longest_end_anchored_hold(rules))]

(* The set a space is read under: the rules of its register category.  A   *)
(* space the register lacks is read under every rule.                      *)
for_compartment(hull, w, space) ==
  IF space \in DOMAIN hull.category
  THEN bound_to(w.rules, [work_type |-> None, category |-> hull.category[space]], w.at)
  ELSE w.rules
=============================================================================
