------------------------------ MODULE Readiness ------------------------------
(***************************************************************************)
(* wadl-plan's readiness: the join of what the engine permits and what is  *)
(* booked, counted for the ship, its zones and its decks.                  *)
(*                                                                         *)
(* Spaces is a set of records: a space with its zone and deck, whether     *)
(* work is permitted in it, the hours booked and who can clear its hold.   *)
(***************************************************************************)
EXTENDS Integers, SequencesExt

CONSTANT ListLimit   \* how long a group's lists may be (6)

Readiness(permits, booked) ==
  CASE permits /\ booked   -> "go"   [] ~permits /\ booked  -> "held"
    [] permits /\ ~booked  -> "idle" [] ~permits /\ ~booked -> "latent"

readiness_of(s) == Readiness(s.permits, s.remaining > 0)

Are(spaces, r) == {s \in spaces : readiness_of(s) = r}

HoursOf(spaces) == MapThenSumSet(LAMBDA s : s.remaining, spaces)

Tally(spaces) ==
  [spaces |-> Cardinality(spaces), go |-> Cardinality(Are(spaces, "go")),
   held |-> Cardinality(Are(spaces, "held")), idle |-> Cardinality(Are(spaces, "idle")),
   latent |-> Cardinality(Are(spaces, "latent")),
   held_hours |-> HoursOf(Are(spaces, "held")), workable_hours |-> HoursOf(Are(spaces, "go"))]

worst(tally) ==
  CASE tally.held > 0 -> "held"
    [] tally.held = 0 /\ tally.go > 0 -> "go"
    [] tally.held = 0 /\ tally.go = 0 /\ tally.idle > 0 -> "idle"
    [] OTHER -> "latent"

(* The first of the elements when nothing outside goes before them, cut to *)
(* the limit.  Equals are told apart by a key, so any of their orders may  *)
(* be the one.                                                             *)
Leads(top, all, Before(_, _)) ==
  /\ top \subseteq all
  /\ Cardinality(top) = (IF Cardinality(all) < ListLimit THEN Cardinality(all) ELSE ListLimit)
  /\ \A a \in top, b \in all \ top : ~Before(b, a)

Holders(spaces) ==
  {LET waiting == {s \in Are(spaces, "held") : s.clearing = who}
   IN [authority |-> who, spaces |-> Cardinality(waiting), hours |-> HoursOf(waiting)] :
   who \in {s.clearing : s \in Are(spaces, "held")}}

HoldsMore(a, b) == a.hours > b.hours \/ (a.hours = b.hours /\ a.spaces > b.spaces)

(* What a hold costs: the hours in the space and those it strands.         *)
Exposure(s) == s.remaining + s.stranded

CostsMore(a, b) ==
  Exposure(a) > Exposure(b) \/ (Exposure(a) = Exposure(b) /\ a.remaining > b.remaining)

build_group(spaces) ==
  [tally |-> Tally(spaces),
   holders |-> CHOOSE top \in SUBSET Holders(spaces) : Leads(top, Holders(spaces), HoldsMore),
   worst_spaces |->
     CHOOSE top \in SUBSET Are(spaces, "held") : Leads(top, Are(spaces, "held"), CostsMore)]

(* The hull at its three altitudes, with the hours that lie in no space of *)
(* the register.                                                           *)
roll_up(spaces, unattributed) ==
  [ship  |-> build_group(spaces),
   zones |-> [z \in {s.zone : s \in spaces} |-> build_group({s \in spaces : s.zone = z})],
   decks |-> [d \in {s.deck : s \in spaces} |-> build_group({s \in spaces : s.deck = d})],
   unattributed_hours |-> unattributed]
=============================================================================
