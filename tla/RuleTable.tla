------------------------------ MODULE RuleTable ------------------------------
(***************************************************************************)
(* The safety authority's rule table: the sheet a sitting edits, what it   *)
(* compiles to, the version each row carries, and what the door says of it *)
(* against the hull.  The rows come out as the table in force's export, go *)
(* back in through the door, and are what the engine runs.                 *)
(*                                                                         *)
(* A sheet is [handoff, rows]: whether its header is the handoff's twelve  *)
(* columns and names none twice, and its rows.  A row is a record of its   *)
(* cells; a blank cell is None and one that cannot be read is Garbled.  A  *)
(* date cell is a date, a hop depth [lo, hi], a list of words the sequence *)
(* of them, and the first of a version's cell says what the cell is.  Of   *)
(* the prose columns the authority document is part of what a row reads;   *)
(* the others reach no entry and are left out, and so are the labels and   *)
(* the hash (HullDocuments has the hash and its signature).                *)
(*                                                                         *)
(* A request at the door reads the clock, the table in force and the hull  *)
(* one after another, and an import writes last; between its steps other   *)
(* requests commit and revert, the clock is changed and time passes.  The  *)
(* hull's hazards and activities, which a request reads once, stay.        *)
(***************************************************************************)
EXTENDS Engine

Civil == INSTANCE CivilTime

CONSTANTS
  Garbled,       \* a cell with something else than its column takes
  NotApplicable, \* the hop depth n/a
  Clocks,        \* the yard's clocks, the first of which is in effect
  Hull,          \* [graph, hazards, category, activities]
  WallClock,     \* the wall clock's readings, in minutes
  FirstSheets,   \* the sheets that may have been committed before
  Redrafts(_),   \* the sheets an edit makes of a sheet
  Requests,      \* the requests the door may have under way at once
  MaxEvents      \* how many edits, requests, reverts and clocks there may be together

Hops == [lo : Nat, hi : Nat]
Dates == [year : Int, month : Int, day : Int]
Words ==
  {"raise", "end", "deck_penetration", "shared_bulkhead", "exhaust_trunk", "electrical_bus"}
    \cup UNION {{e.code, e.hazard, e.clearing} \cup ToSet(e.work_types) : e \in ToSet(seed_usn_hot_work)}

(* What is blank or unreadable is no word, number, hop depth or date.      *)
ASSUME BlankAssumption ==
  /\ Cardinality({None, Garbled, NotApplicable}) = 3
  /\ \A sign \in {None, Garbled, NotApplicable} : sign \notin Words \cup Int \cup Hops \cup Dates
ASSUME ClocksAssumption == None \notin Clocks /\ \A c \in Clocks : Civil!valid_clock(c)
ASSUME HullAssumption ==
  /\ IsSeq(Hull.graph) /\ IsSeq(Hull.hazards)
  /\ \A i \in DOMAIN Hull.hazards : Hull.hazards[i].ended \in Int \cup {None}
ASSUME WallClockAssumption == WallClock \subseteq Int
ASSUME BoundsAssumption == MaxEvents \in Nat

VARIABLES
  clock,   \* the yard clock in effect
  at,      \* the wall clock
  doc,     \* the table committed, or NoTable; with the clock it was read on,
           \* which the store does not keep
  sheet,   \* the sheet on the sitting's desk
  req,     \* the requests at the door
  named,   \* history: the readings each version has been served under
  events   \* the count MaxEvents bounds

vars == <<clock, at, doc, sheet, req, named, events>>

NoTable == [rows |-> <<>>, entries |-> <<>>, clock |-> None]
HazardKinds == {"coating_open", "hot_work_live", "energised_bus", "flammable_stow", "stop_work"}
Refused == [ok |-> FALSE, rows |-> <<>>, entries |-> <<>>]

-----------------------------------------------------------------------------
(* Parsing: refused whole for its header or a row wider than it; a row     *)
(* that begins with # is a comment.                                        *)
is_comment_or_blank(row) == row.rule = "#"

Cells(row) == IF is_comment_or_blank(row) THEN <<>> ELSE <<row>>

parse(s) ==
  LET rows == FlattenSeq([i \in DOMAIN s.rows |-> Cells(s.rows[i])])
  IN  [ok |-> s.handoff /\ \A i \in DOMAIN rows : ~rows[i].wide, rows |-> rows]

(* A date cell is yard-local midnight, and only of a day on the calendar.  *)
OnCalendar(cell, days, c) ==
  IF Civil!civil_from_days(days) = cell THEN Civil!to_utc(c, days, 0).at ELSE Garbled

parse_date(cell, c) ==
  IF cell \in {None, Garbled} THEN cell
  ELSE OnCalendar(cell, Civil!days_from_civil(cell.year, cell.month, cell.day), c)

\* Mutant: the day it is in UTC.
date_cell_utc(instant, c) ==
  IF instant = None THEN None ELSE Civil!civil_from_days(instant \div Civil!Day)

date_cell(instant, c) ==
  IF instant = None THEN None ELSE Civil!civil_from_days(Civil!local(c, instant).days)

(* What is honestly not compiled - another kind, a process word, no hazard *)
(* kind, nothing to walk - stays on file whatever its other cells say.     *)
NotCompiled(row) ==
  \/ row.kind # "Hazard cascade"
  \/ row.state \notin States
  \/ row.hazard = None
  \/ row.hops = NotApplicable

(* What refuses the file: a hazard kind there is none of, hops that do not *)
(* read or run backwards, hops without a coupling, an unreadable token or  *)
(* number, a hold from the end of nothing, no clearing authority, dates    *)
(* that do not read or do not run forwards, an id that is no id.           *)
NoId == <<"blank">>
BadId == <<"garbled">>

parse_hold_refuses(row) ==
  \/ row.minutes = Garbled
  \/ row.from = Garbled
  \/ row.from = "end" /\ row.minutes = None

DatesRefuse(from, to) ==
  \/ Garbled \in {from, to}
  \/ from \in Int /\ to \in Int /\ to <= from

parse_binding_refuses(row, c) ==
  \/ Garbled \in ToSet(row.work_types)
  \/ DatesRefuse(parse_date(row.effective_from, c), parse_date(row.effective_to, c))

compile_row_refuses(row, c) ==
  \/ row.hazard \notin HazardKinds
  \/ row.hops = Garbled
  \/ row.hops # Garbled /\ row.hops.lo > row.hops.hi
  \/ row.hops # Garbled /\ row.hops.hi > 0 /\ row.code = None
  \/ row.code = Garbled
  \/ parse_hold_refuses(row)
  \/ row.clearing \in {None, Garbled}
  \/ parse_binding_refuses(row, c)
  \/ row.version = BadId

entry(row, c) ==
  [code |-> row.rule, hazard |-> row.hazard, via |-> row.code, max_hops |-> row.hops.hi,
   state |-> row.state, clearing |-> row.clearing, hold |-> row.minutes,
   hold_from |-> IF row.from = "end" THEN "end" ELSE "raise",
   work_types |-> row.work_types, categories |-> row.categories,
   effective_from |-> parse_date(row.effective_from, c),
   effective_to |-> parse_date(row.effective_to, c), authority |-> row.authority,
   version |-> row.version]

Spread(hops, e) ==
  (IF hops.lo = 0 THEN <<[e EXCEPT !.via = None, !.max_hops = 0]>> ELSE <<>>)
    \o (IF hops.hi > 0 THEN <<e>> ELSE <<>>)

(* The entries of a row: a range from 0 makes a same-space one and, when   *)
(* it goes further, one along the coupling.                                *)
entries_of(row, c) == Spread(row.hops, entry(row, c))

(* Two rows of one rule with the same reach, state and binding are         *)
(* duplicates, whatever their holds and the document they cite; the same   *)
(* words in another order are another binding.                             *)
duplicate_key(e) ==
  <<e.code, e.hazard, e.via, e.max_hops, e.state, e.work_types, e.categories,
    e.effective_from, e.effective_to>>

Filed(rows, entries) ==
  IF IsInjective([i \in DOMAIN entries |-> duplicate_key(entries[i])])
  THEN [ok |-> TRUE, rows |-> rows, entries |-> entries] ELSE Refused

Compiled(row, c) == IF NotCompiled(row) THEN <<>> ELSE entries_of(row, c)

compile(rows, c) ==
  IF \E i \in DOMAIN rows : rows[i].rule = None \/ (~NotCompiled(rows[i]) /\ compile_row_refuses(rows[i], c))
  THEN Refused
  ELSE Filed(rows, FlattenSeq([i \in DOMAIN rows |-> Compiled(rows[i], c)]))

-----------------------------------------------------------------------------
(* Versions.  A minted id is the address of what the row reads; the seed's *)
(* are fixed.                                                              *)
Reading(e) == [e EXCEPT !.version = NoId]
same_reading(a, b) == Reading(a) = Reading(b)
mint_version(e) == <<"minted", Reading(e)>>

seed == [i \in DOMAIN seed_usn_hot_work |->
           Merged([version |-> <<"seed", i>>], seed_usn_hot_work[i])]

\* Mutant: an id that is carried is kept.
settle_kept(entries) ==
  [i \in DOMAIN entries |->
     IF entries[i].version # NoId THEN entries[i]
     ELSE [entries[i] EXCEPT !.version = mint_version(entries[i])]]

(* An id a row carries is kept while the row reads as it did when the id   *)
(* was given; any other row is given a new one.                            *)
Kept(e) ==
  /\ e.version # NoId
  /\ \/ e.version = mint_version(e)
     \/ \E i \in DOMAIN seed : seed[i] = e

settle_versions(entries) ==
  [i \in DOMAIN entries |->
     IF Kept(entries[i]) THEN entries[i]
     ELSE [entries[i] EXCEPT !.version = mint_version(entries[i])]]

Settled(compiled) == [compiled EXCEPT !.entries = settle_versions(@)]

compile_text(s, c) == IF parse(s).ok THEN Settled(compile(parse(s).rows, c)) ELSE Refused

(* The export: one row an entry, its id in the last column.                *)
export_row(e, c) ==
  [rule |-> e.code, kind |-> "Hazard cascade", state |-> e.state, hazard |-> e.hazard,
   hops |-> IF e.via = None THEN [lo |-> 0, hi |-> 0] ELSE [lo |-> e.max_hops, hi |-> e.max_hops],
   code |-> e.via, minutes |-> e.hold, from |-> e.hold_from, clearing |-> e.clearing,
   work_types |-> e.work_types, categories |-> e.categories,
   effective_from |-> date_cell(e.effective_from, c),
   effective_to |-> date_cell(e.effective_to, c), authority |-> e.authority,
   version |-> e.version, wide |-> FALSE]

export_csv(entries, c) ==
  [handoff |-> TRUE, rows |-> [i \in DOMAIN entries |-> export_row(entries[i], c)]]

(* A document compiles again when it is read.  The versions in force are   *)
(* those stored with it, as long as the two agree.                         *)
StoredIfSame(stored, compiled) ==
  IF /\ Len(compiled) = Len(stored)
     /\ \A i \in DOMAIN compiled : same_reading(compiled[i], stored[i])
  THEN stored ELSE settle_versions(compiled)

document_table(d, c) == StoredIfSame(d.entries, compile(d.rows, c).entries)

seed_table(c) == compile_text(export_csv(seed, c), c).entries

table_in_effect(d, c) == IF d = NoTable THEN seed_table(c) ELSE document_table(d, c)

\* What the store hands the engine.
rules_in_force(d) == IF d = NoTable THEN seed ELSE d.entries

-----------------------------------------------------------------------------
(* What the door says of a table against the hull as it stands.            *)
WorldOf(rules, hazards, t) == [graph |-> Hull.graph, rules |-> rules, hazards |-> hazards, at |-> t]
HullSpaces == DOMAIN Hull.category

states_under(rules, hazards, t) ==
  [s \in HullSpaces |-> evaluate(WorldOf(bound_to(rules, AnyWork, t), hazards, t), s).state]

\* Mutant: the tail of the table in force.
current_tail(current, proposed) == longest_end_anchored_hold(current)

(* The hull is read once for both tables, with the longer of their tails.  *)
tail_of(current, proposed) ==
  Max({longest_end_anchored_hold(current), longest_end_anchored_hold(proposed)})

(* The spaces that change state now if the one replaces the other.         *)
moved(current, proposed, hazards, t) ==
  LET before == states_under(current, hazards, t)
      after  == states_under(proposed, hazards, t)
  IN  {s \in HullSpaces : before[s] # after[s]}

\* Mutant: a hazard that has ended fires nothing.
LiveSources(e, hazards, t) ==
  {i \in DOMAIN hazards : /\ hazards[i].kind = e.hazard /\ raised_by(hazards[i], t)
                          /\ ~ended_by(hazards[i], t)}

(* What an entry fires on today: the hazards of its kind, without the ones *)
(* that ended unless its hold runs from there, and the spaces they reach.  *)
Sources(e, hazards, t) ==
  {i \in DOMAIN hazards : /\ hazards[i].kind = e.hazard /\ raised_by(hazards[i], t)
                          /\ e.hold_from = "end" \/ ~ended_by(hazards[i], t)}

fires_on(e, hazards, t) ==
  UNION {IF e.via = None THEN {hazards[i].origin}
         ELSE LET hits == cascade_from(Hull.graph, hazards[i].origin, e)
              IN  {hits[j].space : j \in DOMAIN hits} : i \in Sources(e, hazards, t)}

\* The activities in those spaces whose work the entry binds.
activities_bound(e, hazards, t) ==
  {a \in Hull.activities :
     /\ ~a.milestone /\ a.space \in fires_on(e, hazards, t)
     /\ binds(e, [work_type |-> a.work_type, category |-> Hull.category[a.space]], t)}

coupling_codes == {Hull.graph[i].code : i \in DOMAIN Hull.graph}
work_types_on_schedule == {a.work_type : a \in {b \in Hull.activities : ~b.milestone}} \ {None}
work_types_bound(entries) == UNION {ToSet(entries[i].work_types) : i \in DOMAIN entries}

row_findings(entries) ==
  {<<"fires on nothing", entries[i].code, entries[i].via>> :
     i \in {j \in DOMAIN entries : entries[j].via \notin coupling_codes \cup {None}}}

findings(entries) ==
  row_findings(entries)
    \cup (IF entries = <<>> THEN {<<"nothing compiles">>} ELSE {})
    \cup {<<"judged by the any-work rows only", wt>> :
            wt \in work_types_on_schedule \ work_types_bound(entries)}

Report(entries, hazards) ==
  [entries |-> entries, hazards |-> hazards,
   fires |-> [i \in DOMAIN entries |-> fires_on(entries[i], hazards, at)],
   bound |-> [i \in DOMAIN entries |-> activities_bound(entries[i], hazards, at)],
   findings |-> findings(entries)]

(* What a request that has read the table in force reports on: that table, *)
(* or the one it brings.                                                   *)
Reported(q) ==
  IF q.op = "get" THEN Report(q.current, bearing_on(Hull.hazards, at, longest_end_anchored_hold(q.current)))
  ELSE Report(q.entries, bearing_on(Hull.hazards, at, tail_of(q.current, q.entries)))

-----------------------------------------------------------------------------
Names(entries) == {<<entries[i].version, Reading(entries[i])>> : i \in DOMAIN entries}

(* What the columns of a sheet take: hops and minutes are not negative.    *)
IsRow(row) ==
  /\ row.hops \in Hops \cup {Garbled, NotApplicable}
  /\ row.minutes \in Nat \cup {None, Garbled}
  /\ {row.effective_from, row.effective_to} \subseteq Dates \cup {None, Garbled}

IsSheet(s) == IsSeq(s.rows) /\ \A i \in DOMAIN s.rows : IsRow(s.rows[i])

ASSUME FirstSheetsAssumption == \A s \in FirstSheets : IsSheet(s)

Idle == [pc |-> "idle"]

Table(q) == [rows |-> q.rows, entries |-> q.entries, clock |-> q.clock]

(* A sheet compiled on a clock, as it is committed.                        *)
Compiles(s, c) == compile_text(s, c).ok /\ compile_text(s, c).entries # <<>>
Earlier(s, c) == [rows |-> compile_text(s, c).rows, entries |-> compile_text(s, c).entries, clock |-> c]

Init ==
  /\ clock \in Clocks
  /\ at \in WallClock
  /\ \/ doc = NoTable
     \/ \E s \in FirstSheets, c \in Clocks : Compiles(s, c) /\ doc = Earlier(s, c)
  /\ sheet = export_csv(table_in_effect(doc, clock), clock)
  /\ req = [r \in Requests |-> Idle]
  /\ named = Names(seed) \cup Names(doc.entries) \cup Names(table_in_effect(doc, clock))
  /\ events = 0

Happens == events < MaxEvents /\ events' = events + 1

Edit ==
  /\ Happens
  /\ sheet' \in {s \in Redrafts(sheet) : IsSheet(s)}
  /\ UNCHANGED <<clock, at, doc, req, named>>

(* A request's first read is the clock; with a table, its text is compiled *)
(* on it and is refused or goes on, and to be committed it must compile to *)
(* something.                                                              *)
Asks(r, q) ==
  /\ Happens /\ req[r] = Idle
  /\ req' = [req EXCEPT ![r] = q]
  /\ UNCHANGED <<clock, at, doc, sheet, named>>

AskTable(r) == \E op \in {"csv", "get"} : Asks(r, [op |-> op, pc |-> "table", clock |-> clock])

Proposes(r, op, proposed) ==
  /\ proposed.ok
  /\ op = "commit" => proposed.entries # <<>>
  /\ Asks(r, [op |-> op, pc |-> "table", clock |-> clock, rows |-> proposed.rows, entries |-> proposed.entries])

AskImport(r) == \E op \in {"preview", "commit"} : Proposes(r, op, compile_text(sheet, clock))

Goes(r, q) == req' = [req EXCEPT ![r] = q]

(* The table in force, read on the clock read before; replaces is history: *)
(* the document it was.                                                    *)
ReadTable(r) ==
  /\ req[r].pc = "table" /\ req[r].op # "csv"
  /\ Goes(r, Merged([pc |-> "hull", current |-> table_in_effect(doc, req[r].clock), replaces |-> doc], req[r]))
  /\ UNCHANGED <<clock, at, doc, sheet, named, events>>

(* ?format=csv: what a sitting starts from.                                *)
Export(r) ==
  /\ req[r].pc = "table" /\ req[r].op = "csv"
  /\ LET entries == table_in_effect(doc, req[r].clock)
     IN sheet' = export_csv(entries, req[r].clock) /\ named' = named \cup Names(entries)
  /\ Goes(r, Idle)
  /\ UNCHANGED <<clock, at, doc, events>>

(* The hull, at the wall clock's reading then.                             *)
get_rule_table(r) ==
  /\ req[r].pc = "hull" /\ req[r].op = "get"
  /\ named' = named \cup Names(req[r].current)
  /\ Goes(r, Idle)
  /\ UNCHANGED <<clock, at, doc, sheet, events>>

ReadHull(r) ==
  /\ req[r].pc = "hull" /\ req[r].op # "get"
  /\ LET q == req[r]
         hazards == bearing_on(Hull.hazards, at, tail_of(q.current, q.entries))
     IN Goes(r, Merged([pc |-> "answer", at |-> at, moved |-> moved(q.current, q.entries, hazards, at)], q))
  /\ UNCHANGED <<clock, at, doc, sheet, named, events>>

Preview(r) ==
  /\ req[r].pc = "answer" /\ req[r].op = "preview"
  /\ Goes(r, Idle)
  /\ UNCHANGED <<clock, at, doc, sheet, named, events>>

(* Whatever table is in force by now is replaced.                          *)
Commit(r) ==
  /\ req[r].pc = "answer" /\ req[r].op = "commit"
  /\ doc' = Table(req[r])
  /\ named' = named \cup Names(req[r].entries)
  /\ Goes(r, Idle)
  /\ UNCHANGED <<clock, at, sheet, events>>

revert_rule_table ==
  /\ Happens /\ doc # NoTable
  /\ doc' = NoTable
  /\ UNCHANGED <<clock, at, sheet, req, named>>

\* The yard signs another clock.
import_yard_clock ==
  /\ Happens
  /\ clock' \in Clocks \ {clock}
  /\ UNCHANGED <<at, doc, sheet, req, named>>

Tick ==
  /\ \E t \in WallClock : t > at /\ at' = t
  /\ UNCHANGED <<clock, doc, sheet, req, named, events>>

Step(r) ==
  \/ AskTable(r) \/ AskImport(r)
  \/ ReadTable(r) \/ Export(r) \/ get_rule_table(r) \/ ReadHull(r) \/ Preview(r) \/ Commit(r)

Next == Edit \/ (\E r \in Requests : Step(r)) \/ revert_rule_table \/ import_yard_clock \/ Tick

Spec == Init /\ [][Next]_vars
-----------------------------------------------------------------------------
(* "Every decision records the version that produced it": a version that   *)
(* has been in force, or was served, has one reading for good - a cell     *)
(* edited in the spreadsheet is a new version, never the old id.           *)
VersionsNameOneReading ==
  \A x, y \in named : x[1] = y[1] => x[2] = y[2]

(* compile(parse(export(set))) is the identity: the sheet a sitting starts *)
(* from, put back untouched, is the table in effect with every id kept,    *)
(* whatever was committed, reverted or signed since the clock was read -   *)
(* on a clock whose daylight time is ahead of its standard time, by less   *)
(* than a day.  On another, a midnight the clock skipped is read as one of *)
(* the day before.                                                         *)
ReadsBack(entries, c) == compile_text(export_csv(entries, c), c).entries = entries
SpringsForward(c) ==
  c.daylight # None => c.daylight.offset - c.standard \in 1 .. Civil!Day - 1
ExportReadsBack ==
  \A r \in Requests : req[r].pc = "table" /\ req[r].op = "csv" /\ SpringsForward(req[r].clock) =>
    ReadsBack(table_in_effect(doc, req[r].clock), req[r].clock)

(* What the door says is what the engine does.  The spaces an import names *)
(* are those whose state, as the engine is asked for it at the instant the *)
(* hull was read, is another under the table it previews or commits than   *)
(* under the one it found in force, whatever was committed, reverted or    *)
(* signed in between - when the dates of the table found were read on the  *)
(* clock the import read.                                                  *)
StatesServed(d, t) ==
  LET w == engine_inputs([graph |-> Hull.graph, hazards |-> Hull.hazards,
                          rules |-> rules_in_force(d)], t)
  IN  [s \in HullSpaces |-> evaluate(w, s).state]

Changed(d, e, t) == {s \in HullSpaces : StatesServed(d, t)[s] # StatesServed(e, t)[s]}

MovedIsExact ==
  [][\A r \in Requests :
       LET q == req[r]
           found == q.replaces
       IN /\ q.pc = "answer" /\ req'[r].pc # "answer"
          /\ found = NoTable \/ found.clock = q.clock
          => q.moved = Changed(found, IF q.op = "commit" THEN doc' ELSE Table(q), q.at)]_vars

(* ... and a line in a space's trace is from an entry reported to fire     *)
(* there, an activity it judges is counted, and an entry found to fire on  *)
(* nothing leaves no line.                                                 *)
Leaves(w, e, s) ==
  /\ binds(e, AnyWork, at)
  /\ \E i \in DOMAIN w.hazards : Lines(w, w.hazards[i], e, s) # <<>>
Tells(report, w) ==
  \A i \in DOMAIN report.entries :
    LET e == report.entries[i]
    IN  /\ \A s \in HullSpaces : Leaves(w, e, s) =>
             /\ s \in report.fires[i]
             /\ <<"fires on nothing", e.code, e.via>> \notin report.findings
        /\ \A a \in Hull.activities :
             /\ ~a.milestone /\ Leaves(w, e, a.space)
             /\ binds(e, [work_type |-> a.work_type, category |-> Hull.category[a.space]], at)
             => a \in report.bound[i]
ToldBy(report) == Tells(report, WorldOf(report.entries, report.hazards, at))
FiringIsReported == \A r \in Requests : req[r].pc = "hull" => ToldBy(Reported(req[r]))
=============================================================================
