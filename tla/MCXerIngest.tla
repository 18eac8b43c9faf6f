---------------------------- MODULE MCXerIngest ----------------------------
(* Small exports for XerIngest: what can be wrong with two tasks and the     *)
(* logic between them, sections and fields in either order; a task's dates   *)
(* around the changes of six clocks; the fields, codes and resources a map   *)
(* may name; and lines out of place.                                         *)
EXTENDS XerIngest

T(name) == [tag |-> "T", name |-> name]
F(cells) == [tag |-> "F", cells |-> cells]
R(cells) == [tag |-> "R", cells |-> cells]
E == [tag |-> "E"]
Noise == [tag |-> "noise"]
Section(name, fields, rows) ==
  <<T(name), F(fields)>> \o [i \in DOMAIN rows |-> R(rows[i])]
Turned(section) ==
  [i \in DOMAIN section |-> IF section[i].tag = "T" THEN section[i]
                            ELSE [section[i] EXCEPT !.cells = Reverse(@)]]

TaskFields == <<"task_id", "proj_id", "wbs_id", "task_code", "task_name", "task_type",
  "status_code", "act_start_date", "act_end_date", "early_start_date", "early_end_date">>
Task(id, proj, code, name, type, status, as, ae, es, ee) ==
  <<id, proj, "w2", code, name, type, status, as, ae, es, ee>>
Plain(id, code) == Task(id, "P1", code, "weld 3-160-2-Q", "TT_Task", "TK_Active",
                        "", "", "0601 0800", "0601 1600")
Variants(id, code) ==
  LET with(k, cell) == [Plain(id, code) EXCEPT ![k] = cell]
  IN  {Plain(id, code), with(4, ""), with(5, ""), with(6, "TT_LOE"), with(6, "TT_WBS"),
       with(7, "TK_Odd"), with(2, "P2"), with(2, "P9"), with(2, ""), Tail(Plain(id, code)),
       with(10, "soon"), with(10, "0602 0800")}
PredFields == <<"task_id", "pred_task_id", "proj_id", "pred_proj_id", "pred_type", "lag_hr_cnt">>
Logic == Section("TASKPRED", PredFields,
  <<<<"2", "1", "P1", "P1", "PR_FS", "8">>, <<"3", "2", "P1", "P2", "PR_SS", "">>,
    <<"3", "9", "P1", "P9", "PR_FS", "">>, <<"2", "1", "P1", "P1", "", "">>,
    <<"3", "", "P1", "P1", "PR_FS", "">>>>)
Projects == Section("PROJECT", <<"proj_id", "proj_short_name">>,
                    <<<<"P1", "HULL">>, <<"P2", "YARD">>>>)
Tasks2(a, b) == Section("TASK", TaskFields, <<a, b, Plain("3", "A30")>>)

DefaultMap ==
  [compartment |-> [source |-> "udf", name |-> "compartment"],
   work_item |-> [source |-> "udf", name |-> "wi_number"],
   work_type |-> [source |-> "none", name |-> ""],
   trade |-> [source |-> "resource", name |-> ""],
   projects |-> << >>, placards_from_names |-> TRUE]
HullOnly == [DefaultMap EXCEPT !.projects = <<"hull">>]
UTC == [standard |-> 0, daylight |-> None]

RowInputs ==
  {[file |-> f, map |-> m, clock |-> UTC] :
     f \in UNION {{Projects \o Tasks2(a, b) \o Logic,
                   Logic \o <<E>> \o Turned(Tasks2(a, b)) \o Projects} :
                    a \in Variants("1", "A10"), b \in Variants("2", "A20")},
     m \in {DefaultMap, HullOnly}}

(* Six clocks: none that moves, one north, one south, one that moves half an *)
(* hour, one whose changes fall on the last Sunday of a month, and one whose *)
(* daylight time is the one behind, in winter.                               *)
Change(month, week, minute) == [month |-> month, week |-> week, weekday |-> 0, minute |-> minute]
Clocks ==
  {UTC,
   [standard |-> -300, daylight |-> [offset |-> -240, start |-> Change(3, 2, 120),
                                     end |-> Change(11, 1, 120)]],
   [standard |-> 600, daylight |-> [offset |-> 660, start |-> Change(10, 1, 120),
                                    end |-> Change(4, 1, 180)]],
   [standard |-> 630, daylight |-> [offset |-> 660, start |-> Change(10, 1, 120),
                                    end |-> Change(4, 1, 120)]],
   [standard |-> 0, daylight |-> [offset |-> 60, start |-> Change(3, 5, 60),
                                  end |-> Change(10, 5, 120)]],
   [standard |-> 60, daylight |-> [offset |-> 0, start |-> Change(10, 5, 120),
                                   end |-> Change(3, 5, 60)]]}
Written ==
  "0601 0800" :> <<6, 1, 480>> @@ "0601 1600" :> <<6, 1, 960>> @@ "0602 0800" :> <<6, 2, 480>>
  @@ "0308 0159" :> <<3, 8, 119>> @@ "0308 0200" :> <<3, 8, 120>> @@ "0308 0259" :> <<3, 8, 179>>
  @@ "0308 0300" :> <<3, 8, 180>> @@ "1101 0059" :> <<11, 1, 59>> @@ "1101 0100" :> <<11, 1, 60>>
  @@ "1101 0200" :> <<11, 1, 120>> @@ "1004 0215" :> <<10, 4, 135>> @@ "1004 0245" :> <<10, 4, 165>>
  @@ "0405 0145" :> <<4, 5, 105>> @@ "0405 0245" :> <<4, 5, 165>> @@ "0101 0005" :> <<1, 1, 5>>
  @@ "1231 2355" :> <<12, 31, 1435>> @@ "0329 0130" :> <<3, 29, 90>> @@ "1025 0130" :> <<10, 25, 90>>
MCWallOf ==
  [cell \in DOMAIN Written |->
     [days |-> days_from_civil(2026, Written[cell][1], Written[cell][2]), minute |-> Written[cell][3]]]
Dates == {"0308 0159", "0308 0200", "0308 0259", "0308 0300", "1101 0059", "1101 0100",
          "1101 0200", "1004 0215", "1004 0245", "0405 0145", "0405 0245", "0101 0005",
          "1231 2355", "0329 0130", "1025 0130", "soon", ""}
DateFile(as, ae, es, ee) ==
  Section("TASK", TaskFields,
          <<Task("1", "P1", "A10", "fit up", "TT_Mile", "TK_Active", as, ae, es, ee)>>)
DateInputs ==
  {[file |-> f, map |-> DefaultMap, clock |-> c] : c \in Clocks,
     f \in {DateFile("", "", s, e) : s, e \in Dates}
           \cup {DateFile(s, "", "0601 0800", "0602 0800") : s \in Dates}
           \cup {DateFile("", e, "0601 0800", "0101 0005") : e \in Dates}}

(* What the fields, the codes and the resources of a file may be.            *)
Udfs == Section("UDFTYPE", <<"udf_type_id", "udf_type_name", "udf_type_label">>,
                <<<<"u1", "COMPT", "Compartment">>, <<"u2", "WI", "">>>>)
UdfValues == Section("UDFVALUE", <<"udf_type_id", "fk_id", "udf_text">>,
  <<<<"u1", "1", "3-160-2-Q">>, <<"u2", "1", "WI-7">>, <<"u1", "2", "">>, <<"u1", "3", "2-90-0-E">>>>)
Codes ==
  Section("ACTVTYPE", <<"actv_code_type_id", "actv_code_type">>, <<<<"t1", "LOC">>>>)
  \o Section("ACTVCODE", <<"actv_code_id", "actv_code_type_id", "short_name">>,
             <<<<"c1", "t1", "4-0-1-T">>, <<"c2", "t9", "GRIT">>>>)
  \o Section("TASKACTV", <<"task_id", "actv_code_id">>, <<<<"1", "c1">>, <<"2", "c2">>>>)
Wbs == Section("PROJWBS", <<"wbs_id", "parent_wbs_id", "wbs_short_name">>,
  <<<<"w0", "", "CVN">>, <<"w1", "w0", "Z6">>, <<"w2", "w1", "Z6.1">>, <<"w3", "w4", "X">>,
    <<"w4", "w3", "Y">>>>)
Assignments == Section("TASKRSRC", <<"task_id", "rsrc_id", "target_qty", "act_reg_qty">>,
  <<<<"1", "r1", "40", "8">>, <<"1", "r2", "3", "">>, <<"1", "r4", "8", "x">>,
    <<"2", "r3", "40", "8">>, <<"2", "r9", "8", "8">>, <<"", "r2", "3", "3">>>>)
Resources(typed) ==
  IF typed THEN Section("RSRC", <<"rsrc_id", "rsrc_short_name", "rsrc_type">>,
                  <<<<"r1", "WELD", "RT_Labor">>, <<"r2", "STEEL", "RT_Mat">>,
                    <<"r3", "CRANE", "RT_Equip">>, <<"r4", "FIT", "RT_Odd">>>>)
  ELSE Section("RSRC", <<"rsrc_id", "rsrc_short_name">>, <<<<"r1", "WELD">>, <<"r2", "STEEL">>>>)
Sources == {[source |-> s, name |-> n] : s \in {"udf", "activity_code"},
              n \in {"compt", "compartment", "loc", "bay"}}
           \cup {[source |-> "none", name |-> ""]}
FieldMaps ==
  {[DefaultMap EXCEPT !.compartment = c, !.placards_from_names = p, !.trade = t] :
     c \in Sources, p \in BOOLEAN,
     t \in {DefaultMap.trade, [source |-> "udf", name |-> "wi"]}}
  \cup {[DefaultMap EXCEPT !.work_type = [source |-> "udf", name |-> ""]],
        [DefaultMap EXCEPT !.projects = <<"hull", "hull">>],
        [DefaultMap EXCEPT !.projects = <<"dock">>]}
FieldInputs ==
  {[file |-> Projects \o before \o Tasks2(Plain("1", "A10"), Plain("2", "A20")) \o after,
    map |-> m, clock |-> UTC] :
     m \in FieldMaps,
     before \in {Udfs \o UdfValues \o Codes \o Wbs, UdfValues \o Wbs},
     after \in {Resources(TRUE) \o Assignments, Assignments \o Resources(FALSE), Resources(TRUE)}}

(* Lines out of place, and more of them than the limit.                      *)
Loose ==
  {<<R(<<"1">>)>>, <<E, F(<<"task_id">>)>>, <<Noise>>, <<E, R(<<"1">>)>>,
   <<T("TASK"), R(<<"1">>)>>, <<T("TASKPRED"), E>>, <<T("TASK"), E>>}
Others == <<"71", "72", "73", "74", "75", "76", "77", "78">>
BrokenInputs ==
  {[file |-> a \o Tasks2(Plain("1", "A10"), Plain("2", "A20")) \o b \o Logic \o c,
    map |-> DefaultMap, clock |-> UTC] : a, b, c \in Loose}
  \cup {[file |-> Tasks2(Plain("1", "A10"), Plain("2", "A20"))
                  \o [i \in 1..n |-> R(Plain(Others[i], Others[i]))] \o Logic,
         map |-> DefaultMap, clock |-> UTC] : n \in 7..8}

(* A section headed anew, an id or a code given to two tasks, a field type   *)
(* with an id and no name, and a resource of two kinds or with no id.        *)
DisorderlyInputs ==
  {[file |-> Tasks2(Plain("1", "A10"), Plain("2", "A20")) \o more \o Logic,
    map |-> [DefaultMap EXCEPT !.compartment.name = "bay"], clock |-> UTC] :
     more \in {Turned(Section("TASK", TaskFields, <<Plain("4", "A40")>>)),
              <<R(Plain("1", "A70"))>>, <<R(Plain("7", "A10"))>>,
              Section("UDFTYPE", <<"udf_type_id", "udf_type_name">>, <<<<"bay", "">>>>),
              Resources(TRUE) \o <<R(<<"r2", "HELPER", "RT_Labor">>)>> \o Assignments,
              Resources(TRUE) \o <<R(<<"", "TON", "RT_Mat">>)>>
                \o Assignments \o <<R(<<"1", "", "8", "">>)>>}}

MCInputs == RowInputs \cup DateInputs \cup FieldInputs \cup BrokenInputs \cup DisorderlyInputs
MCQtyOf == "40" :> 40 @@ "8" :> 8 @@ "3" :> 3
MCPlacardIn == "weld 3-160-2-Q" :> "3-160-2-Q"
MCFoldOf == "HULL" :> "hull" @@ "COMPT" :> "compt" @@ "Compartment" :> "compartment"
            @@ "LOC" :> "loc" @@ "WI" :> "wi"
=============================================================================
