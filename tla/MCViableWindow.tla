--------------------------- MODULE MCViableWindow ---------------------------
(* ViableWindow over a coating, a weld and an energised bus in the         *)
(* activity's space or the next one, under the seed's kinds of rule.       *)
EXTENDS ViableWindow, Sequences

CONSTANTS coating, weld, bus, here, beside

row(kind, reach, state, hold, from) ==
  [kind |-> kind, reach |-> reach, state |-> state, hold |-> hold, hold_from |-> from,
   effective_from |-> 0, effective_to |-> Never]

(* Rows like R03, R06, R04 and R07 of the seed, then a table a yard might  *)
(* commit, in force from an instant on or up to one.                       *)
Seed == <<row(coating, {here}, "block", 2, "raise"), row(coating, {beside}, "warn", 3, "raise"),
          row(weld, {here, beside}, "suspend", 1, "end"), row(bus, {here}, "block", Never, "raise")>>
Authored == <<[row(coating, {here, beside}, "suspend", 3, "raise") EXCEPT !.effective_from = 3],
              [row(weld, {beside}, "block", 2, "end") EXCEPT !.effective_to = 3],
              row(bus, {beside}, "suspend", Never, "raise")>>
TwoTables == {Seed, Authored}

Facts(ends) ==
  {h \in [kind : {coating, weld, bus}, origin : {here, beside}, since : 0 .. 2, ended : ends] :
     h.ended = Never \/ h.ended >= h.since}

(* Registers in the order of their raises: two hazards of any kind, or     *)
(* three coatings.                                                         *)
Pairs == {r \in UNION {[1 .. n -> Facts({Never, 3})] : n \in 1 .. 2} :
            Len(r) = 2 => r[1].since <= r[2].since}
Coats == {<<[kind |-> coating, origin |-> here, since |-> i, ended |-> Never],
            [kind |-> coating, origin |-> beside, since |-> j, ended |-> Never],
            [kind |-> coating, origin |-> here, since |-> k, ended |-> e]>> :
            i \in 0 .. 1, j \in 1 .. 2, k \in 2 .. 4, e \in {Never}}
SmallRegisters == Pairs \cup Coats
SmallWindows == {w \in [start : 0 .. 2, end : 0 .. 4] : w.end - w.start \in {0, 2}}
============================================================================
