------------------------------ MODULE CivilTime ------------------------------
(* The yard's clock (wadl-domain civil.rs): days and dates, the daylight     *)
(* rule a yard signs, the wall-clock reading of an instant and the instant   *)
(* of a reading.  An instant is a count of minutes since 1970-01-01T00:00Z;  *)
(* the milliseconds of a minute never reach a decision.  A clock is          *)
(*   [standard |-> minutes east of UTC, daylight |-> a rule or None],        *)
(* a rule is [offset, start, end], a transition [month, week, weekday,       *)
(* minute].                                                                  *)
EXTENDS Integers

CONSTANT None

Day == 1440

(* Days since 1970-01-01 of a proleptic Gregorian date, and back: years     *)
(* start in March, and 400 of them are an era of 146,097 days.  \div and %   *)
(* are Euclidean, as div_euclid is.                                          *)
DaysToMarch(shifted_month) == (153 * shifted_month + 2) \div 5

DaysToYear(year) == 365 * year + year \div 4 - year \div 100 + year \div 400

days_from_civil(y, m, d) ==
  IF m <= 2 THEN DaysToYear(y - 1) + DaysToMarch(m + 9) + d - 719469
            ELSE DaysToYear(y) + DaysToMarch(m - 3) + d - 719469

DateOf(year, shifted_month, day) ==
  IF shifted_month < 10 THEN [year |-> year, month |-> shifted_month + 3, day |-> day]
                        ELSE [year |-> year + 1, month |-> shifted_month - 9, day |-> day]

DateInMonth(year, shifted_month, day_of_year) ==
  DateOf(year, shifted_month, day_of_year - DaysToMarch(shifted_month) + 1)

DateInYear(year, day_of_year) == DateInMonth(year, (5 * day_of_year + 2) \div 153, day_of_year)

DateInEra(era, day_of_era, year_of_era) ==
  DateInYear(era * 400 + year_of_era, day_of_era - DaysToYear(year_of_era))

DateOnDay(era, day_of_era) ==
  DateInEra(era, day_of_era, (day_of_era - day_of_era \div 1460 + day_of_era \div 36524
                                - day_of_era \div 146096) \div 365)

civil_from_days(days) == DateOnDay((days + 719468) \div 146097, (days + 719468) % 146097)

(* 0 is Sunday; 1970-01-01 was a Thursday.                                   *)
weekday(days) == (days + 4) % 7

(* The day of a transition in a year: the nth such weekday of its month, the *)
(* last one when the week is five.                                           *)
OnOrAfter(days, day) == days + ((day - weekday(days)) % 7)
OnOrBefore(days, day) == days - ((weekday(days) - day) % 7)

month_after(year, month) ==
  days_from_civil(IF month = 12 THEN year + 1 ELSE year, (month % 12) + 1, 1)

day_in(t, year) ==
  IF t.week >= 5 THEN OnOrBefore(month_after(year, t.month) - 1, t.weekday)
  ELSE OnOrAfter(days_from_civil(year, t.month, 1), t.weekday) + 7 * (t.week - 1)

(* A transition is written as the wall reads before it moves.                *)
utc_ms_in(t, year, offset_before) ==
  day_in(t, year) * Day + t.minute - offset_before

(* Daylight time runs from start to end, or across the new year when the     *)
(* rule starts in a later month than it ends.  The year is the UTC year.     *)
Between(rule, start, end, at) ==
  IF rule.start.month <= rule.end.month THEN start <= at /\ at < end
                                        ELSE ~(end <= at /\ at < start)

in_force_in(rule, standard, year, at) ==
  Between(rule, utc_ms_in(rule.start, year, standard), utc_ms_in(rule.end, year, rule.offset), at)

in_force(rule, standard, at) == in_force_in(rule, standard, civil_from_days(at \div Day).year, at)

offset_at(clock, at) ==
  IF clock.daylight # None /\ in_force(clock.daylight, clock.standard, at)
    THEN clock.daylight.offset ELSE clock.standard

OnTheWall(shifted) == [days |-> shifted \div Day, minute |-> shifted % Day]

local(clock, at) == OnTheWall(at + offset_at(clock, at))

\* Mutant: standard time is taken where it is valid.
ReadInStandard(standard, daylight, standard_valid, daylight_valid) ==
  [at |-> IF standard_valid \/ ~daylight_valid THEN standard ELSE daylight,
   note |-> CASE standard_valid /\ daylight_valid -> "overlap"
              [] ~standard_valid /\ ~daylight_valid -> "gap"
              [] OTHER -> None]

(* A reading taken in standard and in daylight time: each is valid when the  *)
(* rule agrees with it at the instant it names.  Both valid is the repeated  *)
(* hour, and daylight is taken; neither is the skipped one, and standard is. *)
ReadIn(standard, daylight, standard_valid, daylight_valid) ==
  [at |-> IF daylight_valid THEN daylight ELSE standard,
   note |-> CASE standard_valid /\ daylight_valid -> "overlap"
              [] ~standard_valid /\ ~daylight_valid -> "gap"
              [] OTHER -> None]

WallRead(clock, wall) ==
  IF clock.daylight = None THEN [at |-> wall - clock.standard, note |-> None]
  ELSE ReadIn(wall - clock.standard, wall - clock.daylight.offset,
              ~in_force(clock.daylight, clock.standard, wall - clock.standard),
              in_force(clock.daylight, clock.standard, wall - clock.daylight.offset))

to_utc(clock, days, minute) == WallRead(clock, days * Day + minute)

(* What the clock's door refuses: an offset past fourteen hours or off the   *)
(* quarter hour, a daylight rule that moves nothing, a transition that is no *)
(* minute of no weekday.                                                     *)
offset_problem(minutes) == minutes \notin {15 * k : k \in -56..56}
problems(t) ==
  ~ /\ t.month \in 1..12 /\ t.week \in 1..5
    /\ t.weekday \in 0..6 /\ t.minute \in 0..(Day - 1)
valid_clock(clock) ==
  /\ ~offset_problem(clock.standard)
  /\ clock.daylight # None =>
       /\ ~offset_problem(clock.daylight.offset)
       /\ clock.daylight.offset # clock.standard
       /\ ~problems(clock.daylight.start) /\ ~problems(clock.daylight.end)
=============================================================================
