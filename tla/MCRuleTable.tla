----------------------------- MODULE MCRuleTable -----------------------------
(* RuleTable over a hull of three spaces: a coat in a tank, hot work above  *)
(* it that ended a quarter of an hour into a day and in a room later.  The  *)
(* sitting edits a cell at a time: what the table takes, what refuses it.   *)
EXTENDS RuleTable

Doors == Permutations(Requests)

Utc == [standard |-> 0, daylight |-> None]
Rota ==
  [standard |-> 60,
   daylight |-> [offset |-> 120,
                 start |-> [month |-> 3, week |-> 5, weekday |-> 0, minute |-> 120],
                 end |-> [month |-> 10, week |-> 5, weekday |-> 0, minute |-> 180]]]
\* Daylight time behind standard time, in the winter; it ends at a midnight.
Winter ==
  [standard |-> 60,
   daylight |-> [offset |-> 0,
                 start |-> [month |-> 10, week |-> 5, weekday |-> 0, minute |-> 120],
                 end |-> [month |-> 3, week |-> 5, weekday |-> 0, minute |-> 0]]]
MCClocks == {Rota, Winter}

\* 2024-03-31, the Sunday daylight time begins on; midnight UTC.
TheDay == [year |-> 2024, month |-> 3, day |-> 31]
NextDay == [year |-> 2024, month |-> 4, day |-> 1]
Midnight == 19813 * 1440

coupling(from, to, code) ==
  [from |-> from, to |-> to, code |-> code, type |-> code, reach |-> 2, carries |-> {}]

hazard(origin, kind, since, ended) ==
  [origin |-> origin, label |-> kind, kind |-> kind, since |-> since, ended |-> ended]

MCHull ==
  [graph |-> <<coupling("tank", "deck", "deck_penetration"),
               coupling("deck", "tank", "deck_penetration"),
               coupling("deck", "room", "deck_penetration"),
               coupling("tank", "room", "shared_bulkhead")>>,
   hazards |-> <<hazard("tank", "coating_open", Midnight - 60, None),
                 hazard("deck", "hot_work_live", Midnight - 120, Midnight + 15),
                 hazard("room", "hot_work_live", Midnight - 120, Midnight + 40)>>,
   category |-> [s \in {"tank", "deck", "room"} |-> IF s = "tank" THEN "tank" ELSE "living"],
   activities |-> {[code |-> "weld", space |-> "deck", work_type |-> "hot_work", milestone |-> FALSE],
                   [code |-> "survey", space |-> "room", work_type |-> "survey", milestone |-> FALSE],
                   [code |-> "ready", space |-> "tank", work_type |-> None, milestone |-> TRUE]}]

\* The day has begun at the yard, and in UTC as well.
MCWallClock == {Midnight - 30, Midnight + 60}

Put(row, field, value) == [row EXCEPT ![field] = value]

\* What a sitting may write in a row of any sheet ...
Readable(row) ==
  CASE row.rule = "R04" -> {Put(row, "minutes", 60)}
    [] row.rule = "R06" /\ Len(row.work_types) > 1 -> {Put(row, "work_types", Reverse(row.work_types))}
    [] row.rule = "R03" /\ row.code # None -> {Put(row, "effective_from", TheDay), Put(row, "version", NoId)}
    [] OTHER -> {}

\* ... what it may write in the seed's ...
AtFirst(row) ==
  CASE row.rule = "R04" -> {Put(row, "hops", [lo |-> 0, hi |-> 1])}
    [] row.rule = "R03" /\ row.code # None ->
         {Put(row, "effective_to", TheDay), Put(row, "categories", <<"living">>),
          Put(row, "hops", [lo |-> 1, hi |-> 2]), Put(row, "code", "vent"),
          Put(row, "rule", "#")}
    [] row.rule = "R06" ->
         {Put(row, "state", "Conditional"), Put(row, "hops", NotApplicable),
          Put(row, "work_types", <<"survey", "hot_work">>), Put(row, "authority", "Yard order"), Put(row, "version", <<"seed", 2>>)}
    [] OTHER -> {}

\* ... and what makes the door refuse it.
Unreadable(row) ==
  IF row.rule # "R07" \/ row.code = None THEN {}
  ELSE {Put(row, f, Garbled) : f \in {"hops", "code", "minutes", "from", "clearing", "hazard"}}
       \cup {Put(row, f, None) : f \in {"rule", "code", "clearing"}}
       \cup {Put(row, "version", BadId), Put(row, "effective_from", [TheDay EXCEPT !.day = 32]),
             Put(row, "hops", [lo |-> 2, hi |-> 1]), Put(row, "work_types", <<Garbled>>),
             Put(row, "from", "end"), Put(row, "wide", TRUE),
             [row EXCEPT !.effective_from = NextDay, !.effective_to = TheDay]}

\* A hold shortened, and a row dated and minted afresh.
MCFirstSheets ==
  {[handoff |-> TRUE,
    rows |-> [i \in DOMAIN seed |->
                LET row == export_row(seed[i], Utc)
                IN CASE row.rule = "R04" -> Put(row, "minutes", 20)
                     [] row.rule = "R03" /\ row.code # None -> Put(Put(row, "effective_from", TheDay), "version", NoId)
                     [] OTHER -> row]]}

Rewritten(s, To(_)) ==
  {[s EXCEPT !.rows[i] = row] : <<i, row>> \in UNION {{i} \X To(s.rows[i]) : i \in DOMAIN s.rows}}

\* A row is changed, or copied below itself, or all are struck out but the
\* gates; the seed's sheet may be spoilt.  A sheet the door refuses is dropped.
MCRedrafts(s) ==
  IF ~compile_text(s, Utc).ok THEN {}
  ELSE Rewritten(s, Readable)
       \cup {[s EXCEPT !.rows = Append(@, [row EXCEPT !.minutes = 90])] :
                row \in {s.rows[i] : i \in {j \in DOMAIN s.rows : s.rows[j].rule = "R04"}}}
       \cup {[s EXCEPT !.rows = SelectSeq(@, LAMBDA row : row.kind # "Hazard cascade")]}
       \cup (IF s = export_csv(seed, Utc)
             THEN Rewritten(s, AtFirst) \cup Rewritten(s, Unreadable) \cup {[s EXCEPT !.handoff = FALSE]} ELSE {})
=============================================================================
