----------------------------- MODULE HullBoards -----------------------------
(***************************************************************************)
(* The boards of a hull: the readings of wadl-api's handlers that join the *)
(* engine's decisions with the work booked, each asked of a hull at an     *)
(* instant, and the two things that move a board without a new document: a *)
(* hazard cleared, and time.                                               *)
(***************************************************************************)
EXTENDS HullWorld

CONSTANTS
  Hulls,      \* the hulls there may be
  Spaces,     \* the spaces a reader may name, of the register or not
  Instants,   \* the instants a reader may ask about
  DayLength,  \* the length of a day, on the clock of the instants
  PairCap     \* how many conflicting pairs a day's board lists (200)

ASSUME BoardsAssumption ==
  Instants \subseteq Nat /\ None \notin Instants /\ DayLength \in Nat \ {0} /\ PairCap \in Nat

(* A hull's couplings, rules and hazards come in an order; a hazard begins *)
(* at an instant, work is planned from one to another, a rule is of one of *)
(* the states and its hold, if it has one, so long, and a schedule ends.   *)
(* A coupling's reach and a rule's hops are numbers.                       *)
ASSUME HullsAssumption ==
  \A h \in Hulls :
    /\ {"graph", "rules", "hazards"} \subseteq DOMAIN h
    /\ IsSeq(h.graph) /\ IsSeq(h.rules) /\ IsSeq(h.hazards)
    /\ \A i \in DOMAIN h.rules :
         /\ h.rules[i].state \in States /\ h.rules[i].max_hops \in Nat
         /\ h.rules[i].hold = None \/ h.rules[i].hold \in Int
    /\ \A i \in DOMAIN h.graph : h.graph[i].reach \in Nat
    /\ \A i \in DOMAIN h.hazards :
         /\ h.hazards[i].since \in Int
         /\ "ended" \in DOMAIN h.hazards[i]
         /\ h.hazards[i].ended = None \/ h.hazards[i].ended \in Int
    /\ IsFiniteSet(h.activities)
    /\ \A a \in h.activities :
         a.window = None \/ (a.window.start \in Int /\ a.window.end \in Int)

(* A register, its orders and its packages are finite; hours left never go *)
(* below nought, and no segment has the code of the root.                  *)
ASSUME HoursAssumption ==
  \A h \in Hulls :
    /\ IsFiniteSet(registered(h)) /\ IsFiniteSet(h.orders) /\ IsFiniteSet(h.packages)
    /\ \A order \in h.orders : order.hours \in Nat
    /\ \A a \in h.activities : a.remaining \in Nat
    /\ \A p \in h.packages :
         /\ IsFiniteSet(DOMAIN p.spaces) /\ IsSeq(p.segments) /\ Root \notin Segments(p)
         /\ \A c \in DOMAIN p.spaces : p.spaces[c].budget \in Int /\ p.spaces[c].earned \in Int

VARIABLES
  hull,    \* the hull as it is
  now,     \* the instant
  taken,   \* the option last acted on, with the space it was offered for
  reply    \* the last board served

boards_vars == <<hull, now, taken, reply>>

Register == registered(hull)
World == mitigation_inputs(hull, now)

\* Nothing was asked, or done, yet.
NoReply == [kind |-> "none"]

-----------------------------------------------------------------------------
Asked(kind, body) ==
  /\ reply' = [kind |-> kind, body |-> body]
  /\ UNCHANGED <<hull, now, taken>>

(* One space, of the register or not, as decide has it.                    *)
compartment_state(space) == Asked("compartment", [space |-> space, decision |-> decide(hull, now, space)])

stranded == Asked("stranded", stranded_hours(hull.packages))

deck_states ==
  Asked("deck_states", [s \in Register |-> readiness_of(SpaceReadiness(hull, now, s))])

readiness == Asked("readiness", roll_up({SpaceReadiness(hull, now, s) : s \in Register}, Unattributed(hull, now)))

(* A space the register does not have is not found, never an open one.     *)
mitigations(space) == space \in Register /\ Asked("mitigations", assess(World, space))

leverage_board == Asked("leverage", leverage(World))

issues == Asked("issues", derived_issues(hull, now, hull.activities))

get_package(p) ==
  Asked("package",
        [package |-> p, analysis |-> analyse(p),
         governing |-> {[constraint |-> g, kind |-> ConstraintKind(decide(hull, now, g.compartment).state)] :
                          g \in governing_constraint(p, {c \in DOMAIN p.spaces :
                                                ~permits_work(decide(hull, now, c).state)})}])

\* Mutant: only the edge out of the hot row's space is looked up.
CoupledOneWay(x, y) == x = y \/ \E e \in ToSet(hull.graph) : <<x, y>> = <<e.from, e.to>>

(* The rows of the day of the reading, one hot and one flammable by their  *)
(* trade, located and unfinished, in one space or in two that a coupling   *)
(* of any kind joins, whichever way it was stored.                         *)
Coupled(x, y) == x = y \/ \E e \in ToSet(hull.graph) : {x, y} = {e.from, e.to}

Today == LET start == (now \div DayLength) * DayLength IN [start |-> start, end |-> start + DayLength]

Live == {a \in hull.activities : /\ a.space # None /\ ~a.milestone /\ ~a.complete
                                 /\ a.window = None \/ Overlaps(a.window, Today)}

Pairs ==
  {<<x[1].code, x[2].code>> : x \in
     {y \in {a \in Live : a.class = "hot"} \X {a \in Live : a.class = "flammable"} :
        Coupled(y[1].space, y[2].space)}}

Conflicts(listed, pairs) ==
  [pairs |-> listed, dropped |-> Cardinality(pairs) - Cardinality(listed), scanned |-> Cardinality(Live)]

(* As many as there is room for.                                           *)
Fit(pairs) == {l \in SUBSET pairs : Cardinality(l) = EarlierOf(PairCap, Cardinality(pairs))}

work_conflicts == \E listed \in Fit(Pairs) : Asked("conflicts", Conflicts(listed, Pairs))

(* Somebody discharges what an option names, and records it: the hazards   *)
(* it names have ended.                                                    *)
TakeDischarge ==
  /\ reply.kind = "mitigations"
  /\ \E o \in reply.body.options :
       /\ o.action.kind = "discharge"
       /\ hull' = [hull EXCEPT !.hazards = [i \in DOMAIN @ |->
                     IF <<@[i].origin, @[i].label>> = <<o.action.origin, o.action.hazard>>
                     THEN [@[i] EXCEPT !.ended = now] ELSE @[i]]]
       /\ taken' = [space |-> reply.body.subject, action |-> o.action]
  /\ reply' = NoReply
  /\ UNCHANGED now

(* ... or everybody waits for as long as an option says.                   *)
TakeWait ==
  /\ reply.kind = "mitigations"
  /\ \E o \in reply.body.options :
       /\ o.action.kind = "wait"
       /\ now' = o.action.until
       /\ taken' = [space |-> reply.body.subject, action |-> o.action]
  /\ reply' = NoReply
  /\ UNCHANGED hull

BoardsInit ==
  /\ hull \in Hulls
  /\ now \in Instants
  /\ taken = NoReply
  /\ reply = NoReply

Read ==
  \/ deck_states \/ readiness \/ stranded \/ leverage_board \/ issues \/ work_conflicts
  \/ \E s \in Spaces : mitigations(s) \/ compartment_state(s)
  \/ \E p \in hull.packages : get_package(p)

(* A board is read, and its reader may act on it once.                     *)
BoardsNext ==
  \/ reply = NoReply /\ taken = NoReply /\ Read
  \/ TakeDischarge
  \/ TakeWait

BoardsSpec == BoardsInit /\ [][BoardsNext]_boards_vars
-----------------------------------------------------------------------------
Served(kind) == reply.kind = kind

(* No recorded end, and no end of a rule's force, lies ahead: what a       *)
(* reading assumes of the time it looks through.                           *)
EndsAhead == \E i \in DOMAIN hull.hazards : hull.hazards[i].ended # None /\ hull.hazards[i].ended > now
Dated == \E i \in DOMAIN hull.rules : hull.rules[i].effective_from # None \/ hull.rules[i].effective_to # None

(* The instants a hold of a world's rules on one of its hazards runs out   *)
(* at.                                                                     *)
ExpiriesOf(w) ==
  {hold_clock(w.hazards[i], w.rules[j], w.at) : i \in DOMAIN w.hazards, j \in DOMAIN w.rules} \ {None}

(* A wait offered is the first instant at which the space opens by itself, *)
(* and where none is offered it never does: however many holds run into    *)
(* each other on the way, and whatever is raised meanwhile (settled_wait,  *)
(* candidates).  A hazard already recorded to end ahead of the reading can *)
(* only open it earlier, and a wait past more clocks than there are passes *)
(* is not found.                                                           *)
WaitsAreExact ==
  Served("mitigations") =>
    LET w == World
        s == reply.body.subject
        Open(t) == Permits([w EXCEPT !.at = t], s)
        waits == {o.action.until : o \in {x \in reply.body.options : x.action.kind = "wait"}}
        Ahead == {t \in Instants : t >= now}
    IN ~permits_work(reply.body.state) =>
         /\ Cardinality(waits) <= 1
         /\ \A until \in waits : Open(until)
         /\ \/ EndsAhead \/ Cardinality(ExpiriesOf(w)) > SettleCap
            \/ \A t \in Ahead : Open(t) => \E until \in waits : until <= t

(* Whoever then waits as long, or discharges the hazard an option names,    *)
(* finds the space open when it is read afresh: under a table whose rules  *)
(* carry no dates, and for a discharge none that holds a space for a time  *)
(* after the hazard's end (engine_inputs, clear_hazard).                   *)
HoldsAfterEnd == \E i \in DOMAIN hull.rules : EndAnchored(hull.rules[i])
TakenOpens ==
  (taken # NoReply /\ ~Dated /\ (taken.action.kind = "wait" \/ ~HoldsAfterEnd))
    => Permits(World, taken.space)

(* "Every option offered has been shown to work" (wadl-mitigate lib.rs).   *)
OptionsOpen == WaitsAreExact /\ TakenOpens

(* The world once a thing is done, from what the thing is: the clock runs  *)
(* on, a hazard is gone from its space, a coupling carries nothing either  *)
(* way.                                                                    *)
Done(w, a) ==
  CASE a.kind = "wait" -> [w EXCEPT !.at = a.until]
    [] a.kind = "discharge" ->
         [w EXCEPT !.hazards = Chosen(@, LAMBDA h : h.origin # a.origin \/ h.label # a.hazard)]
    [] a.kind = "interrupt" ->
         [w EXCEPT !.graph = Chosen(@, LAMBDA e : e.code # a.coupling \/ {e.from, e.to} # {a.from, a.to})]

(* What an option or a lever is said to free and to shut is what the whole *)
(* hull, asked space by space before and after it, would show: looking     *)
(* only near the change misses nothing (affected_by, reach, baseline).     *)
EffectsAreWhole ==
  LET w == World
      Before(s) == Permits(w, s)
      Whole(o) ==
        LET after == Done(w, o.action)
        IN /\ o.effect.frees  = {s \in Register : ~Before(s) /\ Permits(after, s)}
           /\ o.effect.closes = {s \in Register : Before(s) /\ ~Permits(after, s)}
  IN /\ Served("mitigations") => \A o \in reply.body.options : Whole(o)
     /\ Served("leverage") => \A o \in reply.body : Whole(o)

(* What opens one space is on the hull's list of levers, with the same     *)
(* effect: levers are merged only where they are the same thing (key,      *)
(* leverage).                                                              *)
LeverageMissesNothing ==
  Served("leverage") =>
    LET w == World
    IN \A s \in Register : \A o \in assess(w, s).options :
         \E l \in reply.body : l.effect = o.effect /\ Done(w, l.action) = Done(w, o.action)

(* The list of levers is whole: nothing is missing from it or from what it *)
(* says of each.                                                           *)
LeverageIsWhole == EffectsAreWhole /\ LeverageMissesNothing

(* The world once all of these are done.                                   *)
AllDone(w, actions) ==
  LET done[n \in 0 .. Len(actions)] == IF n = 0 THEN w ELSE Done(done[n - 1], actions[n])
  IN done[Len(actions)]

(* A hazard by one name that holds a space on a clock and without one.     *)
Refusing(w, i, j, s) ==
  /\ ~permits_work(w.rules[j].state) /\ w.rules[j].hazard = w.hazards[i].kind
  /\ PathsTo(w, w.hazards[i], w.rules[j], s) # <<>>
HeldBothWays(w, s) ==
  \E i, k \in DOMAIN w.hazards, j, l \in DOMAIN w.rules :
    /\ w.hazards[i].origin = w.hazards[k].origin /\ w.hazards[i].label = w.hazards[k].label
    /\ Refusing(w, i, j, s) /\ hold_clock(w.hazards[i], w.rules[j], w.at) = None
    /\ Refusing(w, k, l, s) /\ hold_clock(w.hazards[k], w.rules[l], w.at) # None

(* A plan of several actions opens the space when all of them are done,    *)
(* and leaves it shut when one is left out (combined_plan): unless a       *)
(* hazard is already recorded to end meanwhile, and but for the wait when  *)
(* a hazard holds the space both ways, where discharging it was enough.    *)
PlansAreNeeded ==
  Served("mitigations") /\ reply.body.combined # <<>> =>
    LET w == World
        plan == reply.body.combined
        s == reply.body.subject
    IN /\ Permits(AllDone(w, plan), s)
       /\ EndsAhead \/ \A i \in DOMAIN plan :
            \/ plan[i].kind = "wait" /\ HeldBothWays(w, s)
            \/ ~Permits(AllDone(w, RemoveAt(plan, i)), s)

(* The boards of one instant agree on what is in trouble.  A space the     *)
(* readiness board counts as held is on the issue board, though one reads  *)
(* it under the rules of its category and the other under all; and work    *)
(* planned over an instant at which its space is refused is there too,     *)
(* whatever the order the hazards were raised in (space_issue, derive).    *)
BoardsAgree ==
  Served("issues") =>
    LET keys == {i.key : i \in reply.body}
        w == World
        UnderWay(r) == r.window # None /\ r.window.start <= now /\ now < r.window.end
    IN /\ \A s \in Register : readiness_of(SpaceReadiness(hull, now, s)) = "held" =>
             <<"held", s>> \in keys \/ <<"compound", s>> \in keys
       /\ \A s \in Register : ~({<<"held", s>>, <<"compound", s>>} \subseteq keys)
       /\ \A r \in hull.activities :
            (~r.milestone /\ r.remaining > 0 /\ r.space # None /\ UnderWay(r) /\ ~Permits(w, r.space))
              => <<"not_executable", r.code>> \in keys

(* The readiness board adds up: the ship is its zones and its decks, what  *)
(* is held and what can be worked is all the work booked for the instant   *)
(* in the register, and with the hours of packages that lie in none of its *)
(* spaces nothing booked is missing or counted twice (SpaceReadiness,      *)
(* roll_up).                                                               *)
ReadinessAddsUp ==
  Served("readiness") =>
    LET b == reply.body
        Sum(groups, f(_)) == MapThenSumSet(LAMBDA g : f(groups[g].tally), DOMAIN groups)
        Parts(f(_)) == Sum(b.zones, f) = f(b.ship.tally) /\ Sum(b.decks, f) = f(b.ship.tally)
        booked == {x \in bookings(hull) : booked_at(x, now) /\ (x.space \in Register
                                                          \/ x \in packages_with_footprints(hull))}
    IN /\ Parts(LAMBDA t : t.held) /\ Parts(LAMBDA t : t.spaces) /\ Parts(LAMBDA t : t.held_hours)
       /\ b.ship.tally.held_hours + b.ship.tally.workable_hours + b.unattributed_hours
            = MapThenSumSet(LAMBDA x : x.hours, booked)

(* A compartment strands a segment just when it is one of those the        *)
(* segment waits for: found upstream from the segment and downstream from  *)
(* the compartment, the same.  The headline counts each waiting segment    *)
(* once however many compartments hold it, and a testable segment is never *)
(* stranded (held_by, stranding, total_stranded).                          *)
StrandingMirrorsHolding ==
  Served("package") =>
    LET p == reply.body.package
        a == reply.body.analysis
        Strands(c) == UNION {s.downstream_segments : s \in {x \in a.stranding : x.compartment = c}}
        waiting == {d \in Segments(p) : a.segments[d].held_by # {}}
    IN (\A f \in a.faults : f[2] # "upstream_cycle") =>
         /\ \A c \in DOMAIN p.spaces, d \in Segments(p) :
              d \in Strands(c) <=> ~is_complete(p.spaces[c]) /\ Homes(p, c) \cap a.segments[d].held_by # {}
         /\ a.total_stranded = MapThenSumSet(LAMBDA d : roll_up_segment(p, d).remaining, waiting)
         /\ \A d \in Segments(p) : a.segments[d].testable => d \notin waiting

(* Hours add up, on the readiness board and behind a package's segments.   *)
HoursAddUp == ReadinessAddsUp /\ StrandingMirrorsHolding

(* Every pair that wadl-issues' own conflict finder has for the day, a     *)
(* flame one hop across a coupling that carries heat or vapour, is on the  *)
(* board the program serves, or counted among those it had no room for.    *)
ConflictsCoverPaths ==
  Served("conflicts") =>
    LET located == {a \in hull.activities : a.space # None /\ ~a.milestone /\ ~a.complete}
        rows == SetToSeq({[code |-> a.code, space |-> a.space, window |-> a.window,
                           remaining |-> a.remaining, ignition_source |-> a.class = "hot",
                           flammable_atmosphere |-> a.class = "flammable"] : a \in located})
        found == ToSet(hot_vs_flammable(hull.graph, rows, Today, Len(rows) * Len(rows)).pairs)
    IN Cardinality(found \ reply.body.pairs) <= reply.body.dropped

=============================================================================
