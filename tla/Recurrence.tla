----------------------------- MODULE Recurrence -----------------------------
(***************************************************************************)
(* The pure part of internal/scheduling: dates, recurrence rules, their    *)
(* validation, the dates a rule matches in a window, and the person an     *)
(* occurrence falls to.                                                    *)
(*                                                                         *)
(* A date is the number of days since day 0, the first day of a month and  *)
(* a Saturday (1 August 2026 is one); MonthStart holds the first days of   *)
(* the calendar's months and, last, the day the calendar ends.             *)
(***************************************************************************)
EXTENDS Integers, Sequences

CONSTANT MonthStart

Months == 1..(Len(MonthStart) - 1)

ASSUME CalendarAssumption ==
  /\ MonthStart \in Seq(Nat)
  /\ MonthStart # <<>> /\ MonthStart[1] = 0
  /\ \A m \in Months : MonthStart[m + 1] - MonthStart[m] \in 28..31

MonthLength(m) == MonthStart[m + 1] - MonthStart[m]

\* Date d is day k of month m, a month that has one.
IsMonthDay(d, m, k) == k <= MonthLength(m) /\ d = MonthStart[m] + k - 1

\* time.Weekday: Sunday is 0, Saturday 6.
Weekday(d) == (d + 6) % 7

-----------------------------------------------------------------------------
RuleType == {"daily", "every_n_days", "weekly_days", "monthly_day", "one_off"}

\* domain.RecurrenceRule: only the field relevant to the type is populated.
Rule == [type: RuleType, interval: Nat, weekdays: SUBSET (0..6), day: Nat]

NoEnd == -1                      \* an end date that is not set

AssignmentMode == {"fixed", "rotate"}

\* What ValidateRule accepts.
ValidRule(rule) ==
  /\ rule \in Rule
  /\ IF rule.type = "every_n_days" THEN rule.interval \in 1..3650
                                   ELSE rule.interval = 0
  /\ (rule.weekdays # {}) <=> (rule.type = "weekly_days")
  /\ IF rule.type = "monthly_day" THEN rule.day \in 1..31 ELSE rule.day = 0

\* What ValidateSchedule accepts.  "person" is the fixed person of a fixed
\* schedule and the starting person of a rotating one.
ValidSchedule(sched) ==
  /\ ValidRule(sched.rule)
  /\ sched.mode \in AssignmentMode
  /\ sched.person > 0
  /\ sched.end # NoEnd => /\ sched.end >= sched.start
                          /\ sched.rule.type # "one_off"

-----------------------------------------------------------------------------
\* Does the rule of a schedule that starts on "start" match date d >= start?
Matches(rule, start, d) ==
  \/ rule.type = "daily"
  \/ rule.type = "every_n_days" /\ (d - start) % rule.interval = 0
  \/ rule.type = "weekly_days" /\ Weekday(d) \in rule.weekdays
  \/ rule.type = "monthly_day" /\ \E m \in Months : IsMonthDay(d, m, rule.day)
  \/ rule.type = "one_off" /\ d = start

\* The dates of the inclusive window from..through on which the rule falls.
Occurrences(rule, start, end, from, through) ==
  {d \in from..through : /\ d >= start
                         /\ end # NoEnd => d <= end
                         /\ Matches(rule, start, d)}

-----------------------------------------------------------------------------
\* "people" is the sequence of the active people's ids, in id order.
IsActive(people, p) == \E i \in DOMAIN people : people[i] = p

PositionOf(people, p) == CHOOSE i \in DOMAIN people : people[i] = p

\* Assignee finds somebody (returns no error) for any positive sequence number.
Assignable(sched, people) ==
  /\ IsActive(people, sched.person)
  /\ sched.mode = "rotate" => Len(people) >= 2

\* The person the n-th occurrence of the schedule falls to.
Assignee(sched, people, n) ==
  IF sched.mode = "fixed"
  THEN sched.person
  ELSE people[((PositionOf(people, sched.person) - 1 + ((n - 1) % Len(people)))
                 % Len(people)) + 1]
=============================================================================
