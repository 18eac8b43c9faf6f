------------------------------- MODULE MCDesk -------------------------------
(* Desk over two spaces joined by a trunk, a coating and perhaps a stop    *)
(* work, two activities and the schedules an import may bring: the first   *)
(* moved by hours, or gone.                                                *)
EXTENDS Desk

trunk(x, y) == [from |-> x, to |-> y, code |-> "exhaust_trunk", type |-> "exhaust_trunk", reach |-> 2,
                carries |-> {"vapour"}]

fact(origin, label, kind, since) ==
  [origin |-> origin, label |-> label, kind |-> kind, since |-> since, ended |-> None]

coat == fact("a", "coat", "coating_open", 0)
stop == fact("b", "stop", "stop_work", 20)

activity(code, space, window, work_type) ==
  [code |-> code, space |-> space, window |-> window, remaining |-> 4, milestone |-> FALSE,
   complete |-> FALSE, work_type |-> work_type]

span(from, to) == [start |-> from, end |-> to]

weld(window) == activity("weld", "b", window, "hot_work")
paint == activity("paint", "a", span(0, 50), None)

weld_then_paint == {[pred |-> "weld", succ |-> "paint", lag |-> 0]}

(* The schedule of record, and what may replace it: the weld moved by      *)
(* hours and loosed from the paint, or gone.                               *)
Planned == {weld(span(10, 40)), paint}
Imports == {[activities |-> {weld(span(12, 38)), paint}, edges |-> {}],
            [activities |-> {paint}, edges |-> {}]}

HullFixed ==
        [graph |-> <<trunk("a", "b"), trunk("b", "a")>>, rules |-> seed_usn_hot_work,
         category |-> [s \in {"a", "b"} |-> "tank"], zone |-> [s \in {"a", "b"} |-> "z"],
         deck |-> [s \in {"a", "b"} |-> 1], orders |-> {}, imported |-> TRUE, packages |-> {}]

Hulls == {[hazards |-> <<coat>>, activities |-> Planned, edges |-> weld_then_paint]}

(* What boards showed: what could be done about the coating, with the      *)
(* hours of both activities, and the plan for when there is a stop work.   *)
opening(actions, hours) ==
  [actions |-> actions, subject_state |-> "allow",
   effect |-> [frees |-> {"a", "b"}, closes |-> {}, freed_hours |-> hours, closed_hours |-> 0]]

dry == opening(<<Discharge("a", "coat", "marine_chemist")>>, 8)
SeenOptions == {dry, opening(<<Wait(480), Discharge("b", "stop", "issuing_authority")>>, 0)}
SeenKeys == {<<"held", "b">>, <<"not_executable", "weld">>}

entry(action, subject, what) ==
  [action |-> action, subject |-> subject, what |-> what, at |-> 30, asked |-> 1, entered |-> 1]

(* An issue answered for, a proposal overtaken by a schedule since, and a  *)
(* decision.                                                               *)
Histories ==
  {<<entry("ISSUE_ACKNOWLEDGED", <<"held", "a">>, 1),
    entry("SCHEDULE_CHANGE_PROPOSED", <<"weld">>,
          [from |-> span(2010, 2040), to |-> span(1000, 1020), verdict |-> TRUE, pushes |-> {}]),
    entry("MITIGATION_REJECTED", <<"a">>, dry)>>}

MCRaisable == {stop}
MCWindows == {span(1000, 1020), span(40, 40)}
=============================================================================
