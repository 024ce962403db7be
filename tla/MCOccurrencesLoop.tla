------------------------- MODULE MCOccurrencesLoop --------------------------
(* Calls of Occurrences for TLC, across a month of 31 days, one of 30 and one *)
(* of 28.                                                                     *)
EXTENDS OccurrencesLoop

CalendarWithFebruary == <<0, 31, 61, 89, 120>>

Rules ==
  LET of(type, interval, weekdays, day) ==
        [type |-> type, interval |-> interval, weekdays |-> weekdays, day |-> day]
  IN {of("daily", 0, {}, 0), of("one_off", 0, {}, 0)}
     \cup {of("every_n_days", n, {}, 0) : n \in {0, 1, 2, 7, 40}}
     \cup {of("weekly_days", 0, days, 0) : days \in {{}, {0}, {1, 6}, 0..6}}
     \cup {of("monthly_day", 0, {}, k) : k \in {0, 1, 28, 29, 30, 31, 32}}

Windows ==
  [rule: Rules, start: {0, 2, 30, 45, 100}, end: {NoEnd, 1, 45, 61},
   windowStart: {1, 30, 44}, windowEnd: {0, 44, 61, 104}]

\* No midnight is missing, or that of the first of a month or of a day within one.
Zones == {<<NoDay, FALSE>>} \cup ({31, 45} \X BOOLEAN)

Arguments ==
  {[rule |-> w.rule, start |-> w.start, end |-> w.end, windowStart |-> w.windowStart,
    windowEnd |-> w.windowEnd, without |-> z[1], west |-> z[2]] : w \in Windows, z \in Zones}
=============================================================================
