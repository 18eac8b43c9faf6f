---------------------------- MODULE ViableWindow ----------------------------
(***************************************************************************)
(* Whether an activity can execute as planned, and the earliest window in  *)
(* which it could: the handler of GET /alternatives for one activity.      *)
(*                                                                         *)
(* The handler reads the hull's rules and then the hazards that bear on    *)
(* the instant asked about, in two store calls between which a table may   *)
(* be committed or a hazard cleared.  wadl-issues' executability then      *)
(* evaluates the activity's space at a few instants of its window, and     *)
(* earliest_viable_window slides the window from hold to hold.             *)
(*                                                                         *)
(* The model is of one space, the activity's.  Which spaces a rule reaches *)
(* it from is what CascadeWalk finds; here each rule names them.  Tables   *)
(* hold the rules that bind the activity's work, and instants are minutes. *)
(***************************************************************************)
EXTENDS Integers, FiniteSets

CONSTANTS
  Kinds,       \* the kinds of hazard
  Spaces,      \* the compartments a hazard may be in
  Tables,      \* the rule tables the hull may have: functions to rules
  Registers,   \* the hazards it may have on file: functions to hazards
  AsOfs,       \* the instants a reader may ask about
  Windows,     \* the windows the activity may be planned in
  Horizons,    \* the ends the availability may have
  Instants,    \* the instants a hazard may be cleared at
  MaxJumps,    \* how many windows are tried (32 in the code)
  MaxHold,     \* no hold is longer
  Never        \* no such instant, or no hold

(* A rule is in force from an instant up to another.  Only one with a hold *)
(* may anchor it at the hazard's end: the rule table's door refuses others. *)
Rule ==
  {rule \in [kind : Kinds, reach : SUBSET Spaces,
              state : {"allow", "warn", "suspend", "block"},
              hold : (0 .. MaxHold) \cup {Never}, hold_from : {"raise", "end"},
              effective_from : Nat, effective_to : Nat \cup {Never}] :
     rule.hold_from = "end" => rule.hold # Never}

Hazard == [kind : Kinds, origin : Spaces, since : Nat, ended : Nat \cup {Never}]

Window == [start : Nat, end : Nat]

ASSUME WindowAssumption ==
  /\ MaxJumps \in Nat
  /\ MaxHold \in Nat
  /\ Never \notin Int
  /\ Instants \subseteq Nat /\ AsOfs \subseteq Nat /\ Horizons \subseteq Nat
  /\ Windows \subseteq Window
  /\ \A f \in Tables : DOMAIN f \subseteq Nat /\ f \in [DOMAIN f -> Rule]
  /\ \A f \in Registers : DOMAIN f \subseteq Nat /\ f \in [DOMAIN f -> Hazard]
  /\ \A f \in Tables \cup Registers : IsFiniteSet(DOMAIN f)

VARIABLES
  table,      \* the hull's rules, in application order
  register,   \* its hazards, in the order they were raised
  at,         \* the instant asked about
  planned,    \* the activity's planned window
  horizon,    \* the availability's end
  rules,      \* the rules read: those in force at the instant
  hazards,    \* the hazards read: those bearing on it
  pc,         \* where the handler is
  cursor,     \* the start of the window it tries next
  jumps,      \* how many windows it has tried
  answer      \* what it answered

asked == <<at, planned, horizon>>
vars == <<table, register, at, planned, horizon, rules, hazards, pc, cursor, jumps, answer>>

-----------------------------------------------------------------------------
(* Restriction of a function to part of its domain.                        *)
Only(f, S) == [x \in S |-> f[x]]

InForce(rule, t) ==
  /\ rule.effective_from <= t
  /\ rule.effective_to = Never \/ t < rule.effective_to

bound_to(tab, t) == Only(tab, {j \in DOMAIN tab : InForce(tab[j], t)})

(* The longest hold anchored at a hazard's end: how long past its end a    *)
(* hazard still bears on a decision.                                       *)
EndHolds(rs) ==
  {0} \cup {rs[j].hold : j \in {k \in DOMAIN rs : rs[k].hold_from = "end" /\ rs[k].hold # Never}}

longest_end_anchored_hold(rs) ==
  CHOOSE h \in EndHolds(rs) : \A k \in EndHolds(rs) : k <= h

bearing_on(reg, t, tail) ==
  Only(reg, {i \in DOMAIN reg : reg[i].ended = Never \/ t < reg[i].ended + tail})

ended_by(h, t) == h.ended # Never /\ h.ended <= t

(* When a hold ends on a clock, as far as the instant t can tell.          *)
hold_clock(h, rule, t) ==
  CASE rule.hold # Never /\ rule.hold_from = "raise"                  -> h.since + rule.hold
    [] rule.hold # Never /\ rule.hold_from = "end" /\ ended_by(h, t) -> h.ended + rule.hold
    [] OTHER                                                          -> Never

(* Whether the hazard and the rule put a line in the trace at t.           *)
Fires(h, rule, t) ==
  /\ h.since <= t
  /\ h.kind = rule.kind /\ h.origin \in rule.reach
  /\ ~(rule.hold_from = "raise" /\ ended_by(h, t))
  /\ hold_clock(h, rule, t) = Never \/ t < hold_clock(h, rule, t)

(* The trace: which hazard and rule fire, hazards first in order.          *)
Trace(rs, hs, t) ==
  {l \in (DOMAIN hs) \X (DOMAIN rs) : Fires(hs[l[1]], rs[l[2]], t)}

severity(state) ==
  CASE state = "allow" -> 0 [] state = "warn" -> 1
    [] state = "suspend" -> 2 [] state = "block" -> 3

Refuses(rs, hs, t) == \E l \in Trace(rs, hs, t) : severity(rs[l[2]].state) > 1

(* The line that decides the state: the first of the most severe.          *)
GoverningStep(rs, hs, t) ==
  {l \in Trace(rs, hs, t) :
     \A m \in Trace(rs, hs, t) :
       \/ severity(rs[m[2]].state) < severity(rs[l[2]].state)
       \/ /\ severity(rs[m[2]].state) = severity(rs[l[2]].state)
          /\ \/ l[1] < m[1]
             \/ l[1] = m[1] /\ l[2] <= m[2]}

-----------------------------------------------------------------------------
\* Mutant: only the window's start is looked at.
LookedAtStart(hs, w) == {w.start}

(* The instants looked at: the start, and each raise inside the window.    *)
Looked(hs, w) ==
  {w.start} \cup {t \in {hs[i].since : i \in DOMAIN hs} : w.start < t /\ t < w.end}

FirstRefusal(rs, hs, w) ==
  {t \in Looked(hs, w) :
     /\ Refuses(rs, hs, t)
     /\ \A u \in Looked(hs, w) : u < t => ~Refuses(rs, hs, u)}

Executable(rs, hs, w) == \A t \in Looked(hs, w) : ~Refuses(rs, hs, t)

(* The planned window slid to a start.                                     *)
From(s) == [start |-> s, end |-> s + (planned.end - planned.start)]

Open == [kind |-> "open"]

Init ==
  /\ table \in Tables
  /\ register \in Registers
  /\ at \in AsOfs
  /\ planned \in Windows
  /\ horizon \in Horizons
  /\ rules = Only(table, {})
  /\ hazards = Only(register, {})
  /\ pc = "rules"
  /\ cursor = planned.start
  /\ jumps = 0
  /\ answer = Open

ReadRules ==
  /\ pc = "rules"
  /\ rules' = bound_to(table, at)
  /\ pc' = "hazards"
  /\ UNCHANGED <<table, register, asked, hazards, cursor, jumps, answer>>

\* Mutant: the tail is that of the table as it is by now.
ReadHazardsByTable ==
  /\ pc = "hazards"
  /\ hazards' = bearing_on(register, at, longest_end_anchored_hold(bound_to(table, at)))
  /\ pc' = "try"
  /\ UNCHANGED <<table, register, asked, rules, cursor, jumps, answer>>

ReadHazards ==
  /\ pc = "hazards"
  /\ hazards' = bearing_on(register, at, longest_end_anchored_hold(rules))
  /\ pc' = "try"
  /\ UNCHANGED <<table, register, asked, rules, cursor, jumps, answer>>

Reply(a) ==
  /\ pc' = "done"
  /\ answer' = a
  /\ UNCHANGED <<table, register, asked, rules, hazards, cursor, jumps>>

Fits == From(cursor).end <= horizon /\ jumps < MaxJumps

Trying == pc = "try" /\ Fits

(* Nothing fits before the horizon, or no try is left.                     *)
ReplyNoWindow == pc = "try" /\ ~Fits /\ Reply([kind |-> "no_window"])

ReplyViable ==
  /\ Trying
  /\ Executable(rules, hazards, From(cursor))
  /\ Reply([kind |-> "viable", start |-> cursor])

(* The hold that governs the first refusal clears by no clock.             *)
ReplyGated ==
  /\ Trying
  /\ \E t \in FirstRefusal(rules, hazards, From(cursor)) :
       \E l \in GoverningStep(rules, hazards, t) :
         /\ hold_clock(hazards[l[1]], rules[l[2]], t) = Never
         /\ Reply([kind |-> "gated", refused |-> t, hazard |-> l[1]])

\* Mutant: the window creeps on a minute at a time.
SlideByMinutes(clear) == cursor + 1

(* It clears by one: the window slides to that instant, by at least a      *)
(* minute.                                                                 *)
Slide(clear) == IF clear > cursor + 1 THEN clear ELSE cursor + 1

\* Mutant: the window slides to where the last hold of the trace clears.
JumpToLast ==
  /\ Trying
  /\ \E t \in FirstRefusal(rules, hazards, From(cursor)) :
       LET clears == {hold_clock(hazards[l[1]], rules[l[2]], t) :
                        l \in Trace(rules, hazards, t)} \ {Never}
       IN \E clear \in clears :
            /\ \A c \in clears : c <= clear
            /\ cursor' = Slide(clear)
  /\ jumps' = jumps + 1
  /\ UNCHANGED <<table, register, asked, rules, hazards, pc, answer>>

Jump ==
  /\ Trying
  /\ \E t \in FirstRefusal(rules, hazards, From(cursor)) :
       \E l \in GoverningStep(rules, hazards, t) :
         /\ hold_clock(hazards[l[1]], rules[l[2]], t) # Never
         /\ cursor' = Slide(hold_clock(hazards[l[1]], rules[l[2]], t))
  /\ jumps' = jumps + 1
  /\ UNCHANGED <<table, register, asked, rules, hazards, pc, answer>>

(* Other requests, while the handler reads: a table is committed, a hazard *)
(* is cleared.                                                             *)
CommitTable ==
  /\ pc \in {"rules", "hazards"}
  /\ table' \in Tables
  /\ UNCHANGED <<register, asked, rules, hazards, pc, cursor, jumps, answer>>

ClearHazard ==
  /\ pc \in {"rules", "hazards"}
  /\ \E i \in DOMAIN register, t \in Instants :
       /\ register[i].ended = Never
       /\ t >= register[i].since
       /\ register' = [register EXCEPT ![i].ended = t]
  /\ UNCHANGED <<table, asked, rules, hazards, pc, cursor, jumps, answer>>

Next ==
  \/ ReadRules \/ ReadHazards
  \/ ReplyNoWindow \/ ReplyViable \/ ReplyGated \/ Jump
  \/ CommitTable \/ ClearHazard

Spec == Init /\ [][Next]_vars

-----------------------------------------------------------------------------
Answers ==
  {Open, [kind |-> "no_window"]}
    \cup [kind : {"viable"}, start : Nat]
    \cup [kind : {"gated"}, refused : Nat, hazard : Nat]

IsTable(f)    == DOMAIN f \subseteq Nat /\ f \in [DOMAIN f -> Rule]
IsRegister(f) == DOMAIN f \subseteq Nat /\ f \in [DOMAIN f -> Hazard]

TypeOK ==
  /\ IsTable(table) /\ IsTable(rules)
  /\ IsRegister(register) /\ IsRegister(hazards)
  /\ at \in Nat /\ planned \in Window /\ horizon \in Nat
  /\ pc \in {"rules", "hazards", "try", "done"}
  /\ cursor \in Nat /\ jumps \in 0 .. MaxJumps
  /\ answer \in Answers
  /\ pc = "done" <=> answer # Open

(* Whether the rules and hazards read refuse the work somewhere in a       *)
(* window, at its start included: what executability decides by a few      *)
(* instants, said of all of them.                                          *)
RefusedIn(w) ==
  \/ Refuses(rules, hazards, w.start)
  \/ \E t \in w.start .. w.end - 1 : Refuses(rules, hazards, t)

(* The crate's claim that the answer is exact, not sampled: the few        *)
(* instants looked at decide the whole window, and the first refusal found *)
(* is the first there is.                                                  *)
VerdictIsExact ==
  pc = "try" =>
    /\ Executable(rules, hazards, From(cursor)) <=> ~RefusedIn(From(cursor))
    /\ \A t \in FirstRefusal(rules, hazards, From(cursor)) :
         \A u \in cursor .. t - 1 : ~Refuses(rules, hazards, u)

(* A start at which a line would refuse the work if its hazard's end,      *)
(* after the start planned, were not on file: a hold anchored at the raise *)
(* is priced to run its full length, whatever end the hazard has.          *)
HeldAsPriced(s) ==
  \E i \in DOMAIN hazards, j \in DOMAIN rules :
    /\ severity(rules[j].state) > 1 /\ rules[j].hold_from = "raise"
    /\ hazards[i].ended # Never /\ planned.start < hazards[i].ended
    /\ Fires([hazards[i] EXCEPT !.ended = Never], rules[j], s)

(* Sliding from hold to hold passes over no window the rules permit, but   *)
(* one that a hold would shut were it not for an end on file.              *)
NothingViableSkipped ==
  \A s \in planned.start .. cursor - 1 : RefusedIn(From(s)) \/ HeldAsPriced(s)

(* The window proposed is permitted throughout and ends in the             *)
(* availability.                                                           *)
ProposalIsViable ==
  answer.kind = "viable" =>
    /\ ~RefusedIn(From(answer.start))
    /\ From(answer.start).end <= horizon
    /\ answer.start = cursor

(* "Clears only on verification" is said of a hazard that keeps every      *)
(* window from there on shut until someone ends it.                        *)
GatedUntilEnded ==
  answer.kind = "gated" =>
    LET ended == hazards[answer.hazard].ended
    IN \A s \in cursor .. horizon :
         \/ RefusedIn(From(s))
         \/ ended # Never /\ ended <= s

(* "Nothing fits" is said when the next window would end past the horizon, *)
(* and then no start before it that fits was passed over while open, or    *)
(* when the tries have run out, and then of the starts tried alone.        *)
NoWindowIsTrue ==
  answer.kind = "no_window" =>
    IF From(cursor).end > horizon
    THEN \A s \in planned.start .. horizon - (planned.end - planned.start) :
           RefusedIn(From(s)) \/ HeldAsPriced(s)
    ELSE jumps = MaxJumps

(* What earliest_viable_window answers: the window it proposes is open and *)
(* every start before it was shut, or held as priced; work it calls gated  *)
(* waits for a clearance; and where it finds no window none was passed     *)
(* over, unless the tries ran out.                                         *)
AnswersAreTrue ==
  NothingViableSkipped /\ ProposalIsViable /\ GatedUntilEnded /\ NoWindowIsTrue

(* The pairs of hazard and rule that refuse the work and have run out by   *)
(* the window tried next.                                                  *)
HoldsRunOut(rs, hs, t) ==
  {l \in (DOMAIN hs) \X (DOMAIN rs) :
     /\ hs[l[1]].kind = rs[l[2]].kind /\ hs[l[1]].origin \in rs[l[2]].reach
     /\ severity(rs[l[2]].state) > 1
     /\ hold_clock(hs[l[1]], rs[l[2]], t) \in 0 .. t}

(* Each slide is paid for by a hold of its own that has run out since, so  *)
(* the tries are spent on a hull with as many holds on one space and on no *)
(* other.                                                                  *)
JumpsAreHolds == jumps <= Cardinality(HoldsRunOut(rules, hazards, cursor))

(* The hazards read with the tail of the rules read are enough: from the   *)
(* instant asked about on, the hazards left out put no line in any trace,  *)
(* whatever is committed or cleared between the two reads.                 *)
TailIsEnough ==
  [][pc = "hazards" /\ pc' = "try" =>
       \A t \in at .. at + horizon :
         Trace(rules', hazards', t) = Trace(rules', register', t)]_vars
=============================================================================
