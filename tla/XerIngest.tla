------------------------------ MODULE XerIngest ------------------------------
(* A schedule export read into activities and logic (wadl-ingest xer.rs)     *)
(* through the hull's field map (field_map.rs), its wall times read in the   *)
(* yard's clock.  A file is a sequence of lines,                             *)
(*   [tag |-> "T", name], [tag |-> "F" or "R", cells], [tag |-> "E"] or      *)
(*   [tag |-> "noise"],                                                      *)
(* whose cells are strings as they read once trimmed, "" when nothing is     *)
(* left.  What a cell says is given by the constants: WallOf the wall time   *)
(* of every cell that is one, QtyOf the whole hours, PlacardIn the first     *)
(* compartment number written in a task's name, FoldOf the lower-case        *)
(* spelling of a name that is not its own.                                   *)
EXTENDS CivilTime, SequencesExt

CONSTANTS
  Inputs,     \* the imports asked for: [file, map, clock]
  WallOf, QtyOf, PlacardIn, FoldOf,
  MaxCells,   \* the most cells a document may carry (20,000,000)
  MaxDepth    \* the most steps up the WBS (32)

Lines ==
  [tag : {"T"}, name : STRING] \cup [tag : {"F", "R"}, cells : Seq(STRING)]
    \cup [tag : {"E", "noise"}]

(* An export is of lines; nothing said is no name and no word of this one's. *)
Words ==
  {"TASK", "TASKPRED", "UDFTYPE", "ACTVTYPE", "RSRC", "TASKRSRC", "no_code", "no_name",
   "unknown_status", "structure", "cross_project_logic", "unknown_task_in_logic", "project",
   "name", "label", "gap", "overlap", "unparseable_date", "backwards_window"}
ASSUME ExportsAssumption ==
  /\ None \notin STRING /\ None \notin Words
  /\ None \notin [name : STRING \cup {None}, kind : {"labor", "material", "equipment", "untyped"}]
  /\ \A i \in Inputs : i.file \in Seq(Lines)
ASSUME CellsAssumption == MaxCells \in Nat
ASSUME WallAssumption ==
  \A cell \in DOMAIN WallOf : WallOf[cell] \in [days : Int, minute : 0..(Day - 1)]
ASSUME QtyAssumption == \A cell \in DOMAIN QtyOf : QtyOf[cell] \in Int

VARIABLES
  input,      \* the export, the map and the clock of this import
  stage,      \* "reading", "tables", "tasks", "logic" or "done"
  line,       \* lines read
  at,         \* TASK rows done, then TASKPRED rows done
  current,    \* the section a row belongs to, None outside every one
  tables,     \* section name -> [fields, rows], a row being [line, cells]
  cellCount,  \* cells kept so far
  ctx,        \* the lookups a row is resolved against
  codeOf,     \* task id -> the code it is served under
  absent,     \* task id -> why it is not served
  report

vars == <<input, stage, line, at, current, tables, cellCount, ctx, codeOf, absent, report>>
file == input.file
map == input.map
-----------------------------------------------------------------------------
(* Reading a table by field name; None for an absent or an empty cell.       *)
get(table, row, name) ==
  LET index == SelectInSeq(table.fields, LAMBDA f : f = name)
  IN  IF index \notin DOMAIN row.cells \/ row.cells[index] = "" THEN None ELSE row.cells[index]

Empty == [fields |-> << >>, rows |-> << >>]
Table(name) == IF name \in DOMAIN tables THEN tables[name] ELSE Empty

parse_qty(cell) == IF cell \in DOMAIN QtyOf THEN QtyOf[cell] ELSE 0
same_field(a, b) ==
  LET lower(s) == IF s \in DOMAIN FoldOf THEN FoldOf[s] ELSE s
  IN  lower(a) = lower(b)

(* What a loop of inserts leaves: the last value given to each key.          *)
LastOf(rows, key(_), value(_)) ==
  LET kept == {i \in DOMAIN rows : key(rows[i]) # None /\ value(rows[i]) # None}
  IN  [k \in {key(rows[i]) : i \in kept} |->
         value(rows[Max({i \in kept : key(rows[i]) = k})])]
At(f, key, default) == IF key \in DOMAIN f THEN f[key] ELSE default
Put(f, key, value) == [k \in DOMAIN f \cup {key} |-> IF k = key THEN value ELSE f[k]]

Count(seq, Test(_)) == Cardinality({k \in DOMAIN seq : Test(seq[k])})

Reject(row, table, code, class) ==
  [row |-> row, table |-> table, code |-> code, class |-> class]
-----------------------------------------------------------------------------
(* parse_xer, one line at a time.                                            *)
Line == file[line + 1]
Reads(tag) == stage = "reading" /\ line < Len(file) /\ Line.tag = tag /\ line' = line + 1
Rejects(name, class) ==
  report' = [report EXCEPT !.rejected = Append(@, Reject(line + 1, name, None, class))]
KeepsRead == UNCHANGED <<input, at, ctx, codeOf, absent>>

ReadSection ==
  /\ Reads("T")
  /\ current' = Line.name
  /\ tables' = Put(tables, Line.name, Table(Line.name))
  /\ UNCHANGED <<stage, cellCount, report>> /\ KeepsRead

ReadFields ==
  /\ Reads("F") /\ current # None
  /\ tables' = [tables EXCEPT ![current].fields = Line.cells]
  /\ UNCHANGED <<stage, current, cellCount, report>> /\ KeepsRead

ReadOrphan ==
  /\ Reads("F") \/ Reads("R")
  /\ current = None
  /\ Rejects("", "structure")
  /\ UNCHANGED <<stage, current, tables, cellCount>> /\ KeepsRead

ReadMisfitSilently ==
  /\ Reads("R") /\ current # None /\ Len(Line.cells) # Len(tables[current].fields)
  /\ UNCHANGED <<stage, current, tables, cellCount, report>> /\ KeepsRead
Fits == Len(Line.cells) = Len(tables[current].fields)
ReadMisfit ==
  /\ Reads("R") /\ current # None /\ ~Fits
  /\ Rejects(current, "width")
  /\ UNCHANGED <<stage, current, tables, cellCount>> /\ KeepsRead

(* The row past the cell limit is refused and the rest is not read.          *)
ReadTooMuch ==
  /\ Reads("R") /\ current # None /\ Fits
  /\ cellCount' = cellCount + Len(Line.cells)
  /\ cellCount' > MaxCells
  /\ Rejects(current, "structure")
  /\ stage' = "tables"
  /\ UNCHANGED <<current, tables>> /\ KeepsRead

ReadRow ==
  /\ Reads("R") /\ current # None /\ Fits
  /\ cellCount' = cellCount + Len(Line.cells)
  /\ cellCount' <= MaxCells
  /\ tables' = [tables EXCEPT ![current].rows =
                  Append(@, [line |-> line + 1, cells |-> Line.cells])]
  /\ UNCHANGED <<stage, current, report>> /\ KeepsRead

ReadEnd ==
  /\ Reads("E")
  /\ current' = None
  /\ UNCHANGED <<stage, tables, cellCount, report>> /\ KeepsRead

ReadNoise ==
  /\ Reads("noise")
  /\ UNCHANGED <<stage, current, tables, cellCount, report>> /\ KeepsRead

EndOfFile ==
  /\ stage = "reading" /\ line = Len(file)
  /\ stage' = "tables"
  /\ UNCHANGED <<line, current, tables, cellCount, report>> /\ KeepsRead

-----------------------------------------------------------------------------
(* The lookups.  Resources by id, with what each one is; every assignment to *)
(* a task, labor's hours summed, the others' counted aside.                  *)
KindTwo(table, row) ==
  IF get(table, row, "rsrc_type") = "RT_Mat" THEN "material" ELSE "labor"
Kind(table, row) ==
  LET type == get(table, row, "rsrc_type")
  IN  CASE type = "RT_Labor" -> "labor" [] type = "RT_Mat" -> "material"
        [] type = "RT_Equip" -> "equipment" [] OTHER -> "untyped"
resources ==
  LET t == Table("RSRC")
  IN  LastOf(t.rows, LAMBDA r : get(t, r, "rsrc_id"),
             LAMBDA r : [name |-> get(t, r, "rsrc_short_name"), kind |-> Kind(t, r)])
resource_findings ==
  LET t == Table("RSRC")
      untyped == {r \in ToSet(t.rows) : get(t, r, "rsrc_id") # None /\ Kind(t, r) = "untyped"}
  IN  IF t.rows = << >> THEN {}
      ELSE IF Contains(t.fields, "rsrc_type")
        THEN {[what |-> "untyped_resource", name |-> get(t, r, "rsrc_short_name")] :
                r \in untyped}
        ELSE {[what |-> "no_rsrc_type"]}

Assignment(k, field) == get(Table("TASKRSRC"), Table("TASKRSRC").rows[k], field)
Assigned == {k \in DOMAIN Table("TASKRSRC").rows : Assignment(k, "task_id") # None}
KindOf(k) ==
  LET id == Assignment(k, "rsrc_id")
  IN  IF id \in DOMAIN resources THEN resources[id].kind ELSE "untyped"
Hours(rows, field) == MapThenSumSet(LAMBDA k : parse_qty(Assignment(k, field)), rows)
skipped(kind) == Cardinality({k \in Assigned : KindOf(k) = kind})
assignments ==
  LET labor == {k \in Assigned : KindOf(k) \notin {"material", "equipment"}}
      trade(k) == LET id == Assignment(k, "rsrc_id")
                  IN  IF id \in DOMAIN resources THEN resources[id].name ELSE None
      of(id) == {k \in labor : Assignment(k, "task_id") = id}
      named(id) == {k \in of(id) : trade(k) # None}
  IN  [id \in {Assignment(k, "task_id") : k \in labor} |->
         [budget |-> Hours(of(id), "target_qty"), earned |-> Hours(of(id), "act_reg_qty"),
          trade |-> IF named(id) = {} THEN None ELSE trade(Min(named(id)))]]

(* What the export is seen to carry, and what the map means against it.      *)
Named(table, row, name, id) ==
  IF get(table, row, name) # None THEN get(table, row, name) ELSE get(table, row, id)
survey ==
  LET p == Table("PROJECT") u == Table("UDFTYPE") c == Table("ACTVTYPE")
  IN  [projects |-> {Named(p, r, "proj_short_name", "proj_id") : r \in ToSet(p.rows)},
       udfs |-> {[name |-> Named(u, r, "udf_type_name", "udf_type_id"),
                  label |-> get(u, r, "udf_type_label")] : r \in ToSet(u.rows)},
       code_types |-> {Named(c, r, "actv_code_type", "actv_code_type_id") :
                         r \in ToSet(c.rows)}]

Slots == {"compartment", "work_item", "work_type", "trade"}
carries_udf(seen, wanted) ==
  \E u \in seen.udfs : \E n \in {u.name, u.label} \ {None} : same_field(n, wanted)
carries_code_type(seen, wanted) == \E c \in seen.code_types : same_field(c, wanted)
findings_against(seen) ==
  LET unseen(slot) ==
        \/ map[slot].source = "udf" /\ ~carries_udf(seen, map[slot].name)
        \/ map[slot].source = "activity_code" /\ ~carries_code_type(seen, map[slot].name)
  IN  {[what |-> "field_not_carried", name |-> slot] : slot \in {s \in Slots : unseen(s)}}
      \cup {[what |-> "project_not_carried", name |-> p] :
              p \in {q \in ToSet(map.projects) : ~\E s \in seen.projects : same_field(s, q)}}
      \cup IF map.compartment.source = "none" /\ ~map.placards_from_names
             THEN {[what |-> "every_row_unlocated"]} ELSE {}

(* A map the door accepts names a field wherever it names a kind of one,     *)
(* reads only the trade from resources and lists no project twice.           *)
validate(m) ==
  /\ \A slot \in Slots :
       /\ m[slot].source = "resource" => slot = "trade"
       /\ m[slot].source \in {"udf", "activity_code"} => m[slot].name # ""
  /\ "" \notin ToSet(m.projects)
  /\ \A i, j \in DOMAIN m.projects : m.projects[i] = m.projects[j] => i = j

projects ==
  LET t == Table("PROJECT")
      id(r) == get(t, r, "proj_id")
      name(r) == Named(t, r, "proj_short_name", "proj_id")
      named == SelectSeq(t.rows, LAMBDA r : id(r) # None)
      served(r) == map.projects = << >> \/ \E p \in ToSet(map.projects) : same_field(p, name(r))
  IN  [all |-> LastOf(t.rows, id, name),
       served |-> {id(r) : r \in {s \in ToSet(named) : served(s)}}]
serves(proj_id) ==
  IF proj_id = None THEN map.projects = << >>
  ELSE \/ proj_id \in ctx.projects.served
       \/ map.projects = << >> /\ proj_id \notin DOMAIN ctx.projects.all

(* A mapped slot, resolved: the first field type of the wanted name - or,    *)
(* for a user-defined field, of the wanted label - then its values by task.  *)
NoSlot == [values |-> << >>, grade |-> "low", by |-> None]

udf_type(wanted) ==
  LET t == Table("UDFTYPE")
      first(field) == SelectInSeq(t.rows, LAMBDA r :
                        get(t, r, field) # None /\ same_field(get(t, r, field), wanted))
      found(i, by) == [id |-> get(t, t.rows[i], "udf_type_id"), by |-> by]
  IN  IF first("udf_type_name") # 0 THEN found(first("udf_type_name"), "name")
      ELSE IF first("udf_type_label") # 0 THEN found(first("udf_type_label"), "label")
      ELSE [id |-> None, by |-> None]
udf_values(type) ==
  LET t == Table("UDFVALUE")
  IN  LastOf(SelectSeq(t.rows, LAMBDA r : type # None /\ get(t, r, "udf_type_id") = type),
             LAMBDA r : get(t, r, "fk_id"), LAMBDA r : get(t, r, "udf_text"))
activity_code_type(wanted) ==
  LET t == Table("ACTVTYPE")
      first == SelectInSeq(t.rows, LAMBDA r :
                 /\ get(t, r, "actv_code_type") # None
                 /\ same_field(get(t, r, "actv_code_type"), wanted)
                 /\ get(t, r, "actv_code_type_id") # None)
  IN  IF first = 0 THEN None ELSE get(t, t.rows[first], "actv_code_type_id")
activity_code_values(type) ==
  LET codes == Table("ACTVCODE") links == Table("TASKACTV")
      short_name == LastOf(SelectSeq(codes.rows, LAMBDA r :
                                       get(codes, r, "actv_code_type_id") = type),
                           LAMBDA r : get(codes, r, "actv_code_id"),
                           LAMBDA r : get(codes, r, "short_name"))
  IN  LastOf(links.rows, LAMBDA r : get(links, r, "task_id"),
             LAMBDA r : At(short_name, get(links, r, "actv_code_id"), None))
resolve_slot(source) ==
  LET udf == udf_type(source.name)
      code_type == activity_code_type(source.name)
  IN  IF source.source = "udf" /\ udf.by # None
        THEN [values |-> udf_values(udf.id), grade |-> "high", by |-> udf.by]
      ELSE IF source.source = "activity_code" /\ code_type # None
        THEN [values |-> activity_code_values(code_type), grade |-> "medium", by |-> "name"]
      ELSE NoSlot

(* Each WBS node's area: the ancestor directly under the root, found in a    *)
(* bounded number of steps so that a cycle of parents ends too.              *)
wbs_area_by_id ==
  LET t == Table("PROJWBS")
      id(r) == get(t, r, "wbs_id")
      short == LastOf(t.rows, id, LAMBDA r : get(t, r, "wbs_short_name"))
      parent == LastOf(t.rows, id, LAMBDA r : get(t, r, "parent_wbs_id"))
      up(node) == CASE node \notin DOMAIN parent -> None
                    [] parent[node] \in DOMAIN parent -> parent[node]
                    [] OTHER -> node
      climb[start \in DOMAIN short, n \in 0..MaxDepth] ==
        IF n = 0 THEN start ELSE up(climb[start, n - 1])
  IN  [node \in {s \in DOMAIN short : climb[s, MaxDepth] \in DOMAIN short} |->
         short[climb[node, MaxDepth]]]

(* ingest_xer_with, up to its rows.                                          *)
ResolveTables ==
  /\ stage = "tables"
  /\ LET slots == [s \in Slots |-> resolve_slot(map[s])]
     IN  /\ ctx' = [slots |-> slots, resources |-> assignments, areas |-> wbs_area_by_id,
                    projects |-> projects]
         /\ report' = [report EXCEPT
              !.material_skipped = skipped("material"),
              !.equipment_skipped = skipped("equipment"),
              !.task_rows = IF "TASK" \notin DOMAIN tables THEN 0
                 ELSE Len(Table("TASK").rows)
                        + Count(report.rejected, LAMBDA r : r.table = "TASK"),
              !.findings = resource_findings \cup findings_against(survey)
                \cup (IF map.projects = << >> /\ Cardinality(DOMAIN projects.all) > 1
                        THEN {[what |-> "many_projects"]} ELSE {})
                \cup {[what |-> "matched_by_label", name |-> s] :
                        s \in {q \in Slots : slots[q].by = "label"}}]
  /\ stage' = "tasks"
  /\ UNCHANGED <<input, line, at, current, tables, cellCount, codeOf, absent>>

-----------------------------------------------------------------------------
(* The TASK rows, in the file's order.                                       *)
Tasks == Table("TASK")
Row == Tasks.rows[at + 1]
Of(name) == get(Tasks, Row, name)
AtTask == stage = "tasks" /\ at < Len(Tasks.rows) /\ at' = at + 1
KeepsTasks == UNCHANGED <<input, stage, line, current, tables, cellCount, ctx>>

Excluded(list, why) ==
  /\ absent' = Put(absent, Of("task_id"), why)
  /\ report' = [report EXCEPT ![list] = Append(@, Of("task_code"))]
  /\ UNCHANGED codeOf /\ KeepsTasks

(* A row with no project of its own is listed, but not remembered for the    *)
(* logic that names it.                                                      *)
ExcludeProject ==
  /\ AtTask /\ ~serves(Of("proj_id"))
  /\ IF Of("proj_id") # None THEN Excluded("excluded_project", "project")
     ELSE /\ report' = [report EXCEPT !.excluded_project = Append(@, Of("task_code"))]
          /\ UNCHANGED <<codeOf, absent>> /\ KeepsTasks
ExcludeLoe ==
  /\ AtTask /\ serves(Of("proj_id")) /\ Of("task_type") = "TT_LOE"
  /\ Excluded("excluded_loe", "loe")
ExcludeWbs ==
  /\ AtTask /\ serves(Of("proj_id")) /\ Of("task_type") = "TT_WBS"
  /\ Excluded("excluded_wbs", "wbs")

(* The planned window: actuals over the forward pass, field by field.  The   *)
(* dates are read in order up to the first that is no date, each one that    *)
(* the clock skipped or repeated with a finding; an instant gets a minute.   *)
parse_when(cell) ==
  IF cell \notin DOMAIN WallOf THEN None
  ELSE to_utc(input.clock, WallOf[cell].days, WallOf[cell].minute)
Cell(actual, early) == IF Of(actual) # None THEN Of(actual) ELSE Of(early)
Note(a, what) ==
  IF a = None \/ a.note = None THEN {}
  ELSE {[row |-> Row.line, what |-> what, note |-> a.note]}

WindowOf(start, finish, a, b) ==
  LET bad_start == start # None /\ a = None
      bad == bad_start \/ (finish # None /\ b = None)
      dated == None \notin {a, b}
  IN  [findings |-> Note(a, "start") \cup (IF bad_start THEN {} ELSE Note(b, "finish")),
       class |-> IF bad THEN "unparseable_date"
                 ELSE IF dated /\ b.at < a.at THEN "backwards_window" ELSE None,
       window |-> IF ~dated THEN None
                  ELSE [start |-> a.at, end |-> IF b.at = a.at THEN b.at + 1 ELSE b.at]]
Window(start, finish) == WindowOf(start, finish, parse_when(start), parse_when(finish))
planned_window ==
  Window(Cell("act_start_date", "early_start_date"), Cell("act_end_date", "early_end_date"))

(* Why a row cannot be accepted, in the order the reasons are sought.        *)
Statuses == {"TK_NotStart", "TK_Active", "TK_Complete"}
Anonymous ==
  IF Of("task_code") = None THEN "no_code"
  ELSE IF Of("task_name") = None THEN "no_name"
  ELSE IF Of("status_code") \notin Statuses THEN "unknown_status"
  ELSE None
Refusal == IF Anonymous # None THEN Anonymous ELSE planned_window.class
Noted == IF Anonymous # None THEN {} ELSE planned_window.findings

Extracts ==
  /\ AtTask /\ serves(Of("proj_id")) /\ Of("task_type") \notin {"TT_LOE", "TT_WBS"}
  /\ KeepsTasks
QuarantineRemembered ==
  /\ Extracts /\ Refusal # None
  /\ codeOf' = Put(codeOf, Of("task_id"), Of("task_code"))
  /\ report' = [report EXCEPT !.rejected =
       Append(@, Reject(Row.line, "TASK", Of("task_code"), Refusal))]
  /\ UNCHANGED absent
Quarantine ==
  /\ Extracts /\ Refusal # None
  /\ absent' = Put(absent, Of("task_id"), "quarantined")
  /\ report' = [report EXCEPT
       !.rejected = Append(@, Reject(Row.line, "TASK", Of("task_code"), Refusal)),
       !.wall_clock_findings = @ \cup Noted]
  /\ UNCHANGED codeOf

(* The compartment is the mapped field's, graded as the field is, or - where *)
(* the map allows it - the number written in the task's name.                *)
Slot(name) == At(ctx.slots[name].values, Of("task_id"), None)
Placard == IF map.placards_from_names THEN At(PlacardIn, Of("task_name"), None) ELSE None
NoLabor == [budget |-> 0, earned |-> 0, trade |-> None]
Labor == At(ctx.resources, Of("task_id"), NoLabor)
extract_activity ==
  [code |-> Of("task_code"), work_order |-> Slot("work_item"), work_type |-> Slot("work_type"),
   compartment |-> IF Slot("compartment") # None THEN Slot("compartment") ELSE Placard,
   grade |-> IF Slot("compartment") # None THEN ctx.slots["compartment"].grade
             ELSE IF Placard # None THEN "medium" ELSE "low",
   trade |-> IF map.trade.source = "resource" THEN Labor.trade ELSE Slot("trade"),
   planned |-> planned_window.window, budget |-> Labor.budget, earned |-> Labor.earned,
   status |-> Of("status_code"), milestone |-> Of("task_type") \in {"TT_Mile", "TT_FinMile"},
   area |-> At(ctx.areas, Of("wbs_id"), None)]
Serve ==
  /\ Extracts /\ Refusal = None
  /\ codeOf' = Put(codeOf, Of("task_id"), Of("task_code"))
  /\ report' = [report EXCEPT !.activities = Append(@, extract_activity),
                              !.wall_clock_findings = @ \cup Noted]
  /\ UNCHANGED absent

TasksDone ==
  /\ stage = "tasks" /\ at = Len(Tasks.rows)
  /\ stage' = "logic" /\ at' = 0
  /\ UNCHANGED <<input, line, current, tables, cellCount, ctx, codeOf, absent, report>>

-----------------------------------------------------------------------------
(* The TASKPRED rows, resolved from task ids to the codes served.            *)
Preds == Table("TASKPRED")
End(name) == get(Preds, Preds.rows[at + 1], name)
AtPred == stage = "logic" /\ at < Len(Preds.rows) /\ at' = at + 1
KeepsLogic ==
  UNCHANGED <<input, stage, line, current, tables, cellCount, ctx, codeOf, absent>>

in_unserved_project(id) == id # None /\ At(absent, id, None) = "project"
Unresolved(id, its_project) ==
  IF id \in DOMAIN codeOf THEN None
  ELSE IF \/ in_unserved_project(id)
          \/ /\ id \notin DOMAIN absent
             /\ its_project # None
             /\ End("proj_id") \notin {None, its_project}
    THEN "cross_project_logic"
  ELSE "unknown_task_in_logic"
BothUnserved ==
  in_unserved_project(End("task_id")) /\ in_unserved_project(End("pred_task_id"))

(* What is wrong with a relationship, in the order it is looked for.         *)
Flaw ==
  LET succ == Unresolved(End("task_id"), End("proj_id"))
      pred == Unresolved(End("pred_task_id"), End("pred_proj_id"))
  IN  IF None \in {End("task_id"), End("pred_task_id")} THEN "structure"
      ELSE IF succ # None THEN succ
      ELSE IF pred # None THEN pred
      ELSE IF End("pred_type") = None THEN "structure" ELSE None

ExcludeEdge ==
  /\ AtPred /\ BothUnserved
  /\ report' = [report EXCEPT !.excluded_edges = @ + 1]
  /\ KeepsLogic
QuarantineEdge ==
  /\ AtPred /\ ~BothUnserved /\ Flaw # None
  /\ report' = [report EXCEPT !.rejected =
       Append(@, Reject(Preds.rows[at + 1].line, "TASKPRED",
                        At(codeOf, End("task_id"), None), Flaw))]
  /\ KeepsLogic
Relate ==
  /\ AtPred /\ ~BothUnserved /\ Flaw = None
  /\ report' = [report EXCEPT !.relationships =
       Append(@, [pred |-> codeOf[End("pred_task_id")], succ |-> codeOf[End("task_id")],
                  kind |-> End("pred_type"), lag |-> parse_qty(End("lag_hr_cnt"))])]
  /\ KeepsLogic

(* The quarantine is listed by line, rows of one line as they came.          *)
Place(list, k) ==
  LET precedes(j) == list[j].row < list[k].row \/ (list[j].row = list[k].row /\ j <= k)
  IN  Cardinality({j \in DOMAIN list : precedes(j)})
ByRow(list) == [n \in DOMAIN list |-> list[CHOOSE k \in DOMAIN list : Place(list, k) = n]]
LogicDone ==
  /\ stage = "logic" /\ at = Len(Preds.rows)
  /\ stage' = "done"
  /\ report' = [report EXCEPT !.rejected = ByRow(@)]
  /\ UNCHANGED <<input, line, at, current, tables, cellCount, ctx, codeOf, absent>>

NoReport ==
  [activities |-> << >>, relationships |-> << >>, rejected |-> << >>,
   wall_clock_findings |-> {}, findings |-> {}, excluded_loe |-> << >>,
   excluded_wbs |-> << >>, excluded_project |-> << >>, excluded_edges |-> 0,
   material_skipped |-> 0, equipment_skipped |-> 0, task_rows |-> 0]
NoLookups ==
  [slots |-> << >>, resources |-> << >>, areas |-> << >>,
   projects |-> [all |-> << >>, served |-> {}]]
Init ==
  /\ input \in {i \in Inputs : validate(i.map) /\ valid_clock(i.clock)}
  /\ stage = "reading" /\ line = 0 /\ at = 0 /\ current = None
  /\ tables = << >> /\ cellCount = 0
  /\ ctx = NoLookups /\ codeOf = << >> /\ absent = << >>
  /\ report = NoReport

Next ==
  \/ ReadSection \/ ReadFields \/ ReadOrphan \/ ReadMisfit \/ ReadTooMuch
  \/ ReadRow \/ ReadEnd \/ ReadNoise \/ EndOfFile \/ ResolveTables
  \/ ExcludeProject \/ ExcludeLoe \/ ExcludeWbs \/ Quarantine \/ Serve \/ TasksDone
  \/ ExcludeEdge \/ QuarantineEdge \/ Relate \/ LogicDone
Spec == Init /\ [][Next]_vars

-----------------------------------------------------------------------------
(* The export as its own lines say it, whatever was made of it: the section  *)
(* and the header above a row, and what the row says under a field's name.   *)
Above(i, tags) == {j \in 1..(i - 1) : file[j].tag \in tags}
OpenedBy(J) == IF J = {} \/ file[Max(J)].tag = "E" THEN None ELSE file[Max(J)].name
SectionOf(i) == OpenedBy(Above(i, {"T", "E"}))
HeadersOf(i, section) == {j \in Above(i, {"F"}) : SectionOf(j) = section}
HeadedBy(J) == IF J = {} THEN << >> ELSE file[Max(J)].cells
HeaderOf(i) == HeadedBy(HeadersOf(i, SectionOf(i)))
CellIn(cells, K) == IF K = {} \/ cells[Min(K)] = "" THEN None ELSE cells[Min(K)]
SaidUnder(i, header, field) == CellIn(file[i].cells, {k \in DOMAIN header : header[k] = field})
Said(i, field) == SaidUnder(i, HeaderOf(i), field)
RowsOf(name) == {i \in 1..line : file[i].tag = "R" /\ SectionOf(i) = name}
Whole(name) ==
  {i \in RowsOf(name) : /\ Len(HeaderOf(i)) = Len(file[i].cells)
                        /\ cellCount > MaxCells => i # line}
Done == stage = "done"

(* The rows of an export are read by the header above them, and a task goes  *)
(* by one id and one code.  Of an export where a section's fields are named  *)
(* anew, or two rows are one task, less is so.                               *)
HeadedOnce == \A name \in DOMAIN tables : \A i \in Whole(name) : HeaderOf(i) = tables[name].fields
TasksAreNamedOnce ==
  \A i, j \in Whole("TASK"), field \in {"task_id", "task_code"} :
    Said(i, field) = Said(j, field) /\ Said(i, field) # None => i = j

(* "The rest of the file is served around it" (xer.rs, the report): of the   *)
(* rows of TASK and of TASKPRED that were read, each one is in exactly one   *)
(* list - served, excluded by its kind or its project, or quarantined - and  *)
(* the quarantine names no line twice.                                       *)
EveryRowAnswered ==
  Done =>
    LET refused(table) == Count(report.rejected, LAMBDA r : r.table = table)
        told(code) ==
          Count(report.activities, LAMBDA a : a.code = code)
          + Count(report.excluded_loe, LAMBDA c : c = code)
          + Count(report.excluded_wbs, LAMBDA c : c = code)
          + Count(report.excluded_project, LAMBDA c : c = code)
          + Count(report.rejected, LAMBDA r : r.table = "TASK" /\ r.code = code)
    IN  /\ report.task_rows = Cardinality(RowsOf("TASK"))
        /\ HeadedOnce =>
             \A code \in {Said(i, "task_code") : i \in Whole("TASK")} \ {None} :
               told(code) = Cardinality({i \in Whole("TASK") : Said(i, "task_code") = code})
        /\ report.task_rows = Len(report.activities) + Len(report.excluded_loe)
             + Len(report.excluded_wbs) + Len(report.excluded_project) + refused("TASK")
        /\ Cardinality(RowsOf("TASKPRED")) =
             Len(report.relationships) + report.excluded_edges + refused("TASKPRED")
        /\ \A i, j \in DOMAIN report.rejected :
             report.rejected[i].row = report.rejected[j].row => i = j

(* Logic between two served activities is served, and no other, wherever its *)
(* section stands in the file and whatever else was refused: of an export    *)
(* whose tasks have an id and a code of their own.                           *)
LogicIsWhole ==
  Done /\ HeadedOnce /\ TasksAreNamedOnce =>
    LET served == {report.activities[k].code : k \in DOMAIN report.activities}
        codes(id) == {Said(i, "task_code") : i \in {j \in Whole("TASK") :
                                                      Said(j, "task_id") = id}}
        joined == {i \in Whole("TASKPRED") :
                     /\ \A end \in {"task_id", "pred_task_id"} :
                          /\ Said(i, end) # None
                          /\ codes(Said(i, end)) \cap served # {}
                     /\ Said(i, "pred_type") # None}
    IN  /\ Len(report.relationships) = Cardinality(joined)
        /\ \A i \in joined : \E r \in ToSet(report.relationships) :
             /\ r.succ \in codes(Said(i, "task_id"))
             /\ r.pred \in codes(Said(i, "pred_task_id"))
             /\ r.kind = Said(i, "pred_type")

(* A served window is the one the file states on the yard's wall: its start  *)
(* and finish read as the cells do, one of two instants that do with a       *)
(* finding then - the first of them, where daylight time is ahead of         *)
(* standard time.  Of a wall time the clock skipped no instant is stated,    *)
(* and it has its finding.  An actual date stands for its planned one.       *)
Instants(wall) ==
  {at_ \in {wall.days * Day + wall.minute - 15 * k : k \in -56..56} :
     local(input.clock, at_) = wall}
Stated(i, actual, early) ==
  IF Said(i, actual) # None THEN Said(i, actual) ELSE Said(i, early)
ReadsAs(i, cell, what, instant) ==
  LET S == Instants(WallOf[cell])
      noted == {n.note : n \in {w \in report.wall_clock_findings :
                                  w.row = i /\ w.what = what}}
  IN  CASE S = {} -> noted = {"gap"}
        [] Cardinality(S) = 1 -> instant \in S /\ noted = {}
        [] OTHER -> /\ instant \in S /\ noted = {"overlap"}
                    /\ input.clock.daylight.offset > input.clock.standard => instant = Min(S)
WindowsAreHonest ==
  Done /\ HeadedOnce =>
    \A a \in ToSet(report.activities) : a.planned # None =>
      \E i \in Whole("TASK") :
        /\ Said(i, "task_code") = a.code
        /\ a.planned.start < a.planned.end
        /\ ReadsAs(i, Stated(i, "act_start_date", "early_start_date"), "start",
                   a.planned.start)
        /\ \/ ReadsAs(i, Stated(i, "act_end_date", "early_end_date"), "finish", a.planned.end)
           \/ /\ a.planned.end = a.planned.start + 1
              /\ ReadsAs(i, Stated(i, "act_end_date", "early_end_date"), "finish",
                         a.planned.start)

(* "Only labor is man-hours" (xer.rs, ResourceKind): an activity's budget is *)
(* the hours of the assignments to it but for those of material and of       *)
(* equipment, and each of those is counted as skipped: of an export that     *)
(* says of each resource once what it is.                                    *)
ResourcesAreNamedOnce ==
  \A i, j \in Whole("RSRC") :
    Said(i, "rsrc_id") = Said(j, "rsrc_id") /\ Said(i, "rsrc_id") # None => i = j
HoursSaid(rows) == MapThenSumSet(LAMBDA i : parse_qty(Said(i, "target_qty")), rows)
HoursAreLabor ==
  Done /\ HeadedOnce /\ ResourcesAreNamedOnce =>
    LET hauled == {i \in Whole("TASKRSRC") :
                     /\ Said(i, "rsrc_id") # None
                     /\ \E j \in Whole("RSRC") : /\ Said(j, "rsrc_id") = Said(i, "rsrc_id")
                                               /\ Said(j, "rsrc_type") \in {"RT_Mat", "RT_Equip"}}
    IN  /\ \A a \in ToSet(report.activities) :
             \E t \in Whole("TASK") :
               /\ Said(t, "task_code") = a.code
               /\ a.budget =
                    HoursSaid({i \in Whole("TASKRSRC") \ hauled :
                                 /\ Said(i, "task_id") # None
                                 /\ Said(i, "task_id") = Said(t, "task_id")})
        /\ report.material_skipped + report.equipment_skipped =
             Cardinality({i \in hauled : Said(i, "task_id") # None})

(* "A field the file does not carry has already been reported" (xer.rs,      *)
(* resolve_slot): a slot whose field is not found has its finding, and only  *)
(* such a slot; one found by its label alone says so.  A type without a name *)
(* is surveyed by its id and resolved by nothing.                            *)
TypesAreNamed ==
  /\ \A i \in Whole("UDFTYPE") : Said(i, "udf_type_name") # None
  /\ \A i \in Whole("ACTVTYPE") : None \notin {Said(i, "actv_code_type"), Said(i, "actv_code_type_id")}
MissingFieldsAreSaid ==
  Done /\ HeadedOnce /\ TypesAreNamed =>
    \A s \in Slots : map[s].source \in {"udf", "activity_code"} =>
      LET said(what) == \E f \in report.findings : f.what = what /\ f.name = s
      IN  /\ said("field_not_carried") <=> ctx.slots[s] = NoSlot
          /\ said("matched_by_label") <=>
               /\ map[s].source = "udf"
               /\ \A i \in Whole("UDFTYPE") :
                    Said(i, "udf_type_name") # None =>
                      ~same_field(Said(i, "udf_type_name"), map[s].name)
               /\ \E i \in Whole("UDFTYPE") :
                    /\ Said(i, "udf_type_label") # None
                    /\ same_field(Said(i, "udf_type_label"), map[s].name)

(* What the export does not carry, and what is made of every row it does,  *)
(* is said.                                                                *)
NothingIsSilent == EveryRowAnswered /\ MissingFieldsAreSaid
=============================================================================
