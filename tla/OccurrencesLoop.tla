--------------------------- MODULE OccurrencesLoop --------------------------
(***************************************************************************)
(* scheduling.Occurrences as the code computes it: validate, clip the      *)
(* window, then walk it with the loop of the rule's type, one iteration a  *)
(* step.  The result is compared with the set Recurrence defines.          *)
(*                                                                         *)
(* A date of the code is a local midnight.  Here it is the hour since day  *)
(* 0 that the clock on the wall shows then.  On one day the clocks may go  *)
(* forward at midnight, which that day does not have: time.Date then gives *)
(* the hour before it west of Greenwich, and the hour after it east of it. *)
(***************************************************************************)
EXTENDS Recurrence

CONSTANT Calls     \* the arguments Occurrences may be called with

\* RuleArgument has the rules ValidateRule refuses too.
RuleArgument == [type: RuleType, interval: Int, weekdays: SUBSET (0..6), day: Int]

NoDay == -2        \* every day has a midnight

\* The dates that generate calls it with, and the time zone of the household: the day
\* without a midnight, and where that is.  The calendar has the whole window, and the eve
\* of that day.
Call == [rule: RuleArgument, start: Nat, end: Nat \cup {NoEnd},
         windowStart: Nat, windowEnd: 0..(MonthStart[Len(MonthStart)] - 1),
         without: (Nat \ {0}) \cup {NoDay}, west: BOOLEAN]

ASSUME CallsAssumption == Calls \subseteq Call

VARIABLES
  call,            \* the arguments
  pc,              \* "clip", "skip", "walk", "done" or "error"
  from, through,   \* the clipped window
  date,            \* the loop's date or, in the monthly loop, its month
  dates            \* the result so far

vars == <<call, pc, from, through, date, dates>>

rule == call.rule

\* The day on the calendar at some hour.
DayOf(hour) == hour \div 24

\* The month day d falls in.
MonthOf(d) == CHOOSE m \in Months : MonthStart[m] <= d /\ d < MonthStart[m + 1]

\* time.Date, which moves a time there is not.
Shown(hour) ==
  IF hour # 24 * call.without THEN hour ELSE IF call.west THEN hour - 1 ELSE hour + 1

Midnight(d) == Shown(24 * d)

\* AddDate(0, 0, days) keeps the time of the day, and so does AddDate(0, 1, 0), which
\* rolls a day the month does not have over to the next.
AddDays(hour, days) == Shown(hour + 24 * days)

AddMonth(hour) == AddDays(hour, MonthLength(MonthOf(DayOf(hour))))

Init ==
  /\ call \in Calls
  /\ pc = "clip"
  /\ from = 0 /\ through = 0 /\ date = 0
  /\ dates = <<>>

\* The rule is refused.
Refuse ==
  /\ pc = "clip"
  /\ ~ ValidRule(rule)
  /\ pc' = "error"
  /\ UNCHANGED <<call, from, through, date, dates>>

\* Where the loop of the rule's type starts.
FirstDate(first) ==
  CASE rule.type \in {"daily", "weekly_days"} -> first
    [] rule.type \in {"every_n_days", "one_off"} -> Midnight(call.start)
    [] rule.type = "monthly_day" -> Midnight(MonthStart[MonthOf(DayOf(first))])

\* The window is cut to the schedule's own dates, and may be empty.  generate counts its
\* end from its beginning, today.
Clip ==
  LET today == Midnight(call.windowStart)
      windowEnd == AddDays(today, call.windowEnd - call.windowStart)
      first == IF Midnight(call.start) > today THEN Midnight(call.start) ELSE today
      last == IF call.end # NoEnd /\ Midnight(call.end) < windowEnd
              THEN Midnight(call.end) ELSE windowEnd
  IN /\ pc = "clip"
     /\ ValidRule(rule)
     /\ IF windowEnd < today \/ last < first
        THEN pc' = "done" /\ UNCHANGED <<from, through, date>>
        ELSE /\ from' = first
             /\ through' = last
             /\ date' = FirstDate(first)
             /\ pc' = IF rule.type = "every_n_days" THEN "skip" ELSE "walk"
     /\ UNCHANGED <<call, dates>>

\* every_n_days: from the start in strides up to the window.
Stride ==
  /\ pc = "skip"
  /\ IF date < from
     THEN date' = AddDays(date, rule.interval) /\ UNCHANGED pc
     ELSE pc' = "walk" /\ UNCHANGED date
  /\ UNCHANGED <<call, from, through, dates>>

\* Fault: a date that is not allowed is passed over before the loop advances.
WalkDateStuck ==
  /\ pc = "walk"
  /\ rule.type \in {"daily", "weekly_days", "every_n_days"}
  /\ date <= through
  /\ rule.type = "weekly_days" => Weekday(DayOf(date)) \in rule.weekdays
  /\ dates' = Append(dates, date)
  /\ date' = AddDays(date, IF rule.type = "every_n_days" THEN rule.interval ELSE 1)
  /\ UNCHANGED <<call, pc, from, through>>

\* daily, weekly_days and every_n_days: one date of the walk.
WalkDate ==
  /\ pc = "walk"
  /\ rule.type \in {"daily", "weekly_days", "every_n_days"}
  /\ date <= through
  /\ dates' = IF rule.type = "weekly_days" /\ Weekday(DayOf(date)) \notin rule.weekdays
              THEN dates ELSE Append(dates, date)
  /\ date' = AddDays(date, IF rule.type = "every_n_days" THEN rule.interval ELSE 1)
  /\ UNCHANGED <<call, pc, from, through>>

\* Fault: a day the month does not have is not noticed.
WalkMonthRolling ==
  LET candidate == Midnight(MonthStart[MonthOf(DayOf(date))] + rule.day - 1)
  IN /\ pc = "walk"
     /\ rule.type = "monthly_day"
     /\ date <= through
     /\ dates' = IF candidate >= from /\ candidate <= through
                 THEN Append(dates, candidate) ELSE dates
     /\ date' = AddMonth(date)
     /\ UNCHANGED <<call, pc, from, through>>

\* monthly_day: one month.  time.Date rolls a day the month does not have over
\* to the next one, which the comparison of the months notices.
WalkMonth ==
  LET month == MonthOf(DayOf(date))
      candidate == Midnight(MonthStart[month] + rule.day - 1)
      sameMonth == MonthOf(DayOf(candidate)) = month
  IN /\ pc = "walk"
     /\ rule.type = "monthly_day"
     /\ date <= through
     /\ dates' = IF sameMonth /\ candidate >= from /\ candidate <= through
                 THEN Append(dates, candidate) ELSE dates
     /\ date' = AddMonth(date)
     /\ UNCHANGED <<call, pc, from, through>>

\* one_off: the start, when the window has it; any other loop: past the window.
Return ==
  /\ pc = "walk"
  /\ \/ /\ rule.type = "one_off"
        /\ dates' = IF date >= from /\ date <= through
                    THEN Append(dates, date) ELSE dates
     \/ /\ rule.type # "one_off"
        /\ date > through
        /\ UNCHANGED dates
  /\ pc' = "done"
  /\ UNCHANGED <<call, from, through, date>>

Next == Refuse \/ Clip \/ Stride \/ WalkDate \/ WalkMonth \/ Return

\* A call runs on: nothing in it waits.
Spec == Init /\ [][Next]_vars /\ WF_vars(Next)

-----------------------------------------------------------------------------
Contents(s) == {DayOf(s[n]) : n \in DOMAIN s}

InOrder(s) == \A m, n \in DOMAIN s : m < n => DayOf(s[m]) < DayOf(s[n])

\* The set the rest of the project plans with.
Expected ==
  Occurrences(rule, call.start, call.end, call.windowStart, call.windowEnd)

\* The day without a midnight is one that the loops may come to, from the first of the
\* month that the schedule or the window starts in.
Reached ==
  LET first == IF call.start < call.windowStart THEN call.start ELSE call.windowStart
  IN call.without \in MonthStart[MonthOf(first)]..call.windowEnd

\* What is returned is every date of the rule in the window, none else, in order and none
\* twice; generate and its UNIQUE constraints depend on each of these.  East of Greenwich a
\* day without a midnight costs no more than the last date of the window, and west of it
\* what comes before the eve of that day is whole.
ReturnsOccurrences ==
  /\ pc = "done" =>
       /\ ~Reached => Contents(dates) = Expected
       /\ ~call.west => Expected \ {DayOf(through)} \subseteq Contents(dates)
                        /\ Contents(dates) \subseteq Expected
       /\ ~(Reached /\ call.west) => InOrder(dates)
       /\ Reached => {d \in Contents(dates) : d < call.without - 1} =
                     {d \in Expected : d < call.without - 1}
  /\ pc = "error" => dates = <<>>

\* Every call returns: no rule that is accepted makes a loop that does not end.
Terminates == <>(pc \in {"done", "error"})
=============================================================================
