----------------------------- MODULE Mitigation -----------------------------
(***************************************************************************)
(* wadl-mitigate: what could be done about a space the engine refuses.     *)
(* Every option is an action applied to a copy of the world, which is then *)
(* evaluated again; what an action would free or shut is found by          *)
(* evaluating again only the spaces it could have changed.                 *)
(*                                                                         *)
(* A world is the engine's (Engine), with the spaces of the register and   *)
(* the work booked in them: a set of bookings, each with a name, its space,*)
(* its hours and the window it is planned for.  Ranking is left out but    *)
(* for what goes before what: an option list is a set.                     *)
(***************************************************************************)
EXTENDS Engine

CONSTANT SettleCap   \* how often a wait may be pushed out, or a plan grown (32)

ASSUME SettleAssumption == SettleCap \in Nat

-----------------------------------------------------------------------------
(* Work with no date counts at every instant.                              *)
booked_at(b, t) == b.window = None \/ (b.window.start <= t /\ t < b.window.end)

Load(w, t, space) ==
  MapThenSumSet(LAMBDA b : b.hours, {b \in w.bookings : b.space = space /\ booked_at(b, t)})

LatestOf(S) == IF S = {} THEN None ELSE Max(S)

Discharge(origin, hazard, actor) ==
  [kind |-> "discharge", origin |-> origin, hazard |-> hazard, actor |-> actor]
Wait(until) == [kind |-> "wait", until |-> until]
Interrupt(from, to, coupling) ==
  [kind |-> "interrupt", from |-> from, to |-> to, coupling |-> coupling]

(* One closure cuts the coupling both ways, so its ends come in no order;  *)
(* who may discharge a hazard is no part of what is discharged.            *)
key(a) ==
  CASE a.kind = "wait"      -> <<0, a.until>>
    [] a.kind = "discharge" -> <<1, a.origin, a.hazard>>
    [] a.kind = "interrupt" -> <<2, {a.from, a.to}, a.coupling>>

apply(w, a) ==
  CASE a.kind = "wait"      -> [w EXCEPT !.at = a.until]
    [] a.kind = "discharge" ->
         [w EXCEPT !.hazards = Chosen(@, LAMBDA h : <<h.origin, h.label>> # <<a.origin, a.hazard>>)]
    [] a.kind = "interrupt" ->
         [w EXCEPT !.graph = Chosen(@, LAMBDA e : <<e.code, {e.from, e.to}>> # <<a.coupling, {a.from, a.to}>>)]

(* The world once the actions are done, one after the other.               *)
variant_for(w, actions) ==
  LET done[n \in 0 .. Len(actions)] == IF n = 0 THEN w ELSE apply(done[n - 1], actions[n])
  IN done[Len(actions)]

-----------------------------------------------------------------------------
Blocking(lines) == Chosen(lines, LAMBDA line : ~permits_work(line.state))

(* The holds on a space: the first line of each rule code and hazard.      *)
holds_of(decision) ==
  LET t == decision.trace
      Key(i) == <<t[i].code, t[i].source, t[i].hazard>>
  IN FlattenSeq([i \in DOMAIN t |-> IF \A j \in 1 .. i - 1 : Key(j) # Key(i) THEN <<t[i]>> ELSE <<>>])

LatestIfAll(clocks) == IF None \in clocks THEN None ELSE LatestOf(clocks)

(* The last of the clocks that keep a space shut; none if one of its holds *)
(* has no clock.                                                           *)
blocking_expiry(decision) ==
  LatestIfAll({line.earliest_clear : line \in ToSet(Blocking(decision.trace))})

Passes == [n \in 1 .. SettleCap |-> n]

Pushed(p, next) == [p EXCEPT !.until = IF next = None \/ next <= p.until THEN None ELSE next]

Looked(p, after) ==
  IF permits_work(after.state) THEN [p EXCEPT !.settled = TRUE] ELSE Pushed(p, blocking_expiry(after))

Pass(w, subject, p) ==
  IF p.settled \/ p.until = None THEN p ELSE Looked(p, evaluate([w EXCEPT !.at = p.until], subject))

SettledAt(p) == IF p.settled THEN p.until ELSE None

\* Mutant: the wait is priced off the trace as it stands.
settled_at_once(w, subject, first) == first

(* The instant at which waiting alone opens the space: each pass looks at  *)
(* the space when its holds have run out, and pushes the wait to the clock *)
(* of those that came live meanwhile.  None when one of them has no clock, *)
(* or the passes run out.                                                  *)
settled_wait(w, subject, first) ==
  LET passed[n \in 0 .. SettleCap] ==
        IF n = 0 THEN [until |-> first, settled |-> FALSE] ELSE Pass(w, subject, passed[n - 1])
  IN SettledAt(passed[SettleCap])

first_settled(w, subject, first) == IF first = None THEN None ELSE settled_wait(w, subject, first)

Waits(until) == IF until = None THEN {} ELSE {Wait(until)}

(* The actions worth trying, all drawn from the space's own trace: wait,   *)
(* discharge a hazard, cut a coupling a hazard came by.                    *)
candidates(w, subject, decision) ==
  LET t == decision.trace
      First(i) == \A j \in 1 .. i - 1 : <<t[j].source, t[j].hazard>> # <<t[i].source, t[i].hazard>>
  IN Waits(first_settled(w, subject, blocking_expiry(decision)))
     \cup {Discharge(t[i].source, t[i].hazard, t[i].clearing) : i \in {j \in DOMAIN t : First(j)}}
     \cup UNION {{Interrupt(e.from, e.to, e.code) : e \in ToSet(t[i].path)} : i \in DOMAIN t}

-----------------------------------------------------------------------------
\* Mutant: as many hops as the shortest coupling reaches.
nearest(graph, seeds) ==
  LET hops == IF graph = <<>> THEN 0 ELSE Min({graph[i].reach : i \in DOMAIN graph})
      seen[n \in 0 .. hops] ==
        IF n = 0 THEN seeds
        ELSE seen[n - 1] \cup {e.to : e \in {f \in ToSet(graph) : f.from \in seen[n - 1]}}
  IN seen[hops]

(* The spaces within the furthest reach of any coupling from the seeds: no *)
(* hazard in a seed, and no change at one, goes further.                   *)
reach(graph, seeds) ==
  LET hops == Max({0} \cup {graph[i].reach : i \in DOMAIN graph})
      seen[n \in 0 .. hops] ==
        IF n = 0 THEN seeds
        ELSE seen[n - 1] \cup {e.to : e \in {f \in ToSet(graph) : f.from \in seen[n - 1]}}
  IN seen[hops]

(* The spaces whose verdict the actions could change.                      *)
affected_by(w, actions) ==
  LET Seeds(a) ==
        CASE a.kind = "discharge" -> {a.origin}
          [] a.kind = "interrupt" -> {a.from, a.to}
          [] a.kind = "wait"      -> {w.hazards[i].origin : i \in DOMAIN w.hazards}
  IN reach(w.graph, UNION {Seeds(actions[i]) : i \in DOMAIN actions})

(* Which spaces permit work as things stand; those no hazard reaches are   *)
(* open unasked.                                                           *)
baseline(w) ==
  LET shadow == reach(w.graph, {w.hazards[i].origin : i \in DOMAIN w.hazards})
  IN [space \in w.spaces |-> space \notin shadow \/ Permits(w, space)]

LoadOf(w, t, spaces) == MapThenSumSet(LAMBDA s : Load(w, t, s), spaces)

Priced(w, frees, closes, t) ==
  [frees |-> frees, closes |-> closes,
   freed_hours |-> LoadOf(w, t, frees), closed_hours |-> LoadOf(w, t, closes)]

FreedAndShut(w, base, moved, t) ==
  Priced(w, {s \in moved : ~base[s]}, {s \in moved : base[s]}, t)

EffectAsked(w, base, variant, asked) ==
  FreedAndShut(w, base, {s \in asked \cap w.spaces : base[s] # Permits(variant, s)}, variant.at)

(* What the actions would free and shut, priced at the instant they lead   *)
(* to.                                                                     *)
effect_of(w, base, actions) ==
  EffectAsked(w, base, variant_for(w, actions), affected_by(w, actions))

-----------------------------------------------------------------------------
Discharges(found, line) ==
  IF \E i \in DOMAIN found : <<found[i].origin, found[i].hazard>> = <<line.source, line.hazard>>
  THEN found
  ELSE Append(found, Discharge(line.source, line.hazard, line.clearing))

(* A discharge for each line, and one for all lines of a hazard.           *)
Discharged(found, lines) ==
  LET more[n \in 0 .. Len(lines)] == IF n = 0 THEN found ELSE Discharges(more[n - 1], lines[n])
  IN more[Len(lines)]

Ungated(lines) == Chosen(lines, LAMBDA line : line.earliest_clear = None)

PlanOf(p) == (IF p.wait = None THEN <<>> ELSE <<Wait(p.wait)>>) \o p.discharges

Grows(p, lines) ==
  [wait |-> LatestOf(({line.earliest_clear : line \in ToSet(lines)} \cup {p.wait}) \ {None}),
   discharges |-> Discharged(p.discharges, Ungated(lines)),
   pc |-> p.pc]

OrStuck(p, more) == IF more = p THEN [p EXCEPT !.pc = "stuck"] ELSE more

Grown(p, after) ==
  IF permits_work(after.state) THEN [p EXCEPT !.pc = "opens"]
                               ELSE OrStuck(p, Grows(p, Blocking(after.trace)))

NoPlan == [wait |-> None, discharges |-> <<>>, pc |-> "grow"]

GrowPass(w, subject, p) ==
  IF p.pc # "grow" THEN p ELSE Grown(p, evaluate(variant_for(w, PlanOf(p)), subject))

PlanThatOpens(p) == IF p.pc = "opens" /\ Len(PlanOf(p)) > 1 THEN PlanOf(p) ELSE <<>>

\* Mutant: the plan is not looked at again.
combined_blind(w, subject, holds) ==
  LET blocking == Blocking(holds)
      p == [wait |-> LatestOf({h.earliest_clear : h \in ToSet(blocking)} \ {None}),
            discharges |-> Discharged(<<>>, Ungated(blocking))]
  IN IF Len(blocking) < 2 \/ Len(PlanOf(p)) < 2 THEN <<>> ELSE PlanOf(p)

(* The plan for a space that no one action opens: one wait for the holds   *)
(* on a clock and a discharge for each that has none, grown by what the    *)
(* waited instant brings live until it opens the space.  Empty when there  *)
(* is none.                                                                *)
combined_plan(w, subject, holds) ==
  LET grown[n \in 0 .. SettleCap] ==
        IF n = 0 THEN Grows(NoPlan, Blocking(holds)) ELSE GrowPass(w, subject, grown[n - 1])
  IN IF Len(Blocking(holds)) < 2 THEN <<>> ELSE PlanThatOpens(grown[SettleCap])

(* A plan, priced.                                                         *)
combined_for(w, subject, actions) ==
  [actions |-> actions, effect |-> effect_of(w, baseline(w), actions),
   subject_state |-> evaluate(variant_for(w, actions), subject).state]

(* The candidates that alone would open the space, priced.                 *)
Opening(w, subject, decision) ==
  {a \in candidates(w, subject, decision) : Permits(apply(w, a), subject)}

OptionsFrom(w, subject, actions, base) ==
  {[action |-> a, effect |-> effect_of(w, base, <<a>>),
    subject_state |-> evaluate(apply(w, a), subject).state] : a \in actions}

Offers(w, a, options) ==
  [a EXCEPT !.options = options,
            !.combined = IF options = {} THEN combined_plan(w, a.subject, a.holds) ELSE <<>>]

Assessed(w, subject, decision) ==
  LET a == [subject |-> subject, state |-> decision.state, booked |-> Load(w, w.at, subject),
            holds |-> holds_of(decision), options |-> {}, combined |-> <<>>]
  IN IF permits_work(decision.state) THEN a
     ELSE Offers(w, a, OptionsFrom(w, subject, Opening(w, subject, decision), baseline(w)))

(* One refused space and everything that alone would open it; a plan only  *)
(* when nothing alone does.                                                *)
assess(w, subject) == Assessed(w, subject, evaluate(w, subject))

Triaged(w, subject, decision, refused, opens) ==
  [state |-> decision.state, booked |-> Load(w, w.at, subject), holds |-> holds_of(decision),
   single_action_opens |-> opens,
   plan_actions |-> IF refused /\ ~opens
                    THEN Len(combined_plan(w, subject, holds_of(decision))) ELSE 0]

Sorted(w, subject, decision, refused) ==
  Triaged(w, subject, decision, refused, refused /\ Opening(w, subject, decision) # {})

TriageOf(w, subject, decision) == Sorted(w, subject, decision, ~permits_work(decision.state))

(* The same verdicts without the prices, for the issue board.              *)
triage(w, subject) == TriageOf(w, subject, evaluate(w, subject))

OnceEach(actions) == {CHOOSE a \in actions : key(a) = k : k \in {key(a) : a \in actions}}

Moves(w, actions, base) == {[action |-> a, effect |-> effect_of(w, base, <<a>>)] : a \in actions}

(* The hull's actions that free something: the candidates of every refused *)
(* space, each taken once.                                                 *)
leverage(w) ==
  {m \in Moves(w, OnceEach(UNION {candidates(w, s, evaluate(w, s)) :
                                    s \in {x \in w.spaces : ~Permits(w, x)}}), baseline(w)) :
     m.effect.frees # {}}
=============================================================================
