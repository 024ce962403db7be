----------------------------- MODULE BoardPages -----------------------------
(* What the weekly and monthly pages and the dashboard of the administrator    *)
(* make of the rows of DailyBoard: internal/service/calendar.go and admin.go,  *)
(* internal/store/analytics.go and the pages themselves.  Each counts for      *)
(* itself: the daily page with a query of its own, the others per week, per    *)
(* month or per person and date.                                               *)
EXTENDS DailyBoard, Recurrence

CONSTANT RatedDays   \* days a rate looks back: 30, AdminDashboard

ASSUME RatedDaysAssumption == RatedDays \in Nat \ {0}

\* The window in which a week or month of the calendar has rows.
Days == 0..(today + Horizon)

MondayOf(d) == d - ((Weekday(d) + 6) % 7)

\* ListScheduledInstances
ListScheduled(from, through) ==
  {ReadCard(i) : i \in {j \in Ids : rows[j].due \in from..through}}

\* Fault: the days are counted from one.
WeekCellFromOne(items, start, p, n) ==
  {c \in items : c.row.assignee = p /\ c.row.due - start = n + 1}

\* The cell of a person and the n-th day of the week that begins on "start".
WeekCell(items, start, p, n) ==
  {c \in items : c.row.assignee = p /\ c.row.due - start = n}

\* WeeklyView: seven cells for everyone listed or assigned.
WeeklyView(d) ==
  LET start == MondayOf(d)
      items == ListScheduled(start, start + 6)
  IN [p \in Columns(people, items) |-> [n \in 0..6 |-> WeekCell(items, start, p, n)]]

DoneOf(cards) == {c \in cards : c.row.status = "done"}

Ratio(cards) == <<Cardinality(cards), Cardinality(DoneOf(cards))>>

\* CalendarTask, and monthDayOverdue of one card.
IsOverdue(card) == card.row.status = "pending" /\ card.row.due < today

\* weeklySummary: all the cells of the view, and those done.
WeeklySummary(view) == Ratio(UNION {UNION {view[p][n] : n \in 0..6} : p \in DOMAIN view})

\* weeklyContent: every cell of the view, each card a link, marked when overdue.
WeeklyPage(d) ==
  LET view == WeeklyView(d)
  IN [summary |-> WeeklySummary(view),
      cells |-> [p \in DOMAIN view |-> [n \in 0..6 |->
                   [shown |-> view[p][n], marked |-> {c \in view[p][n] : IsOverdue(c)}]]]]

\* MonthlyView: the cell of each of 42 days from a Monday on.
MonthlyView(m) ==
  LET start == MondayOf(MonthStart[m])
      items == ListScheduled(start, start + 41)
  IN [d \in start..(start + 41) |-> {c \in items : c.row.due = d}]

\* monthlySummary: the days of the month only.
MonthlySummary(m, view) ==
  Ratio(UNION {view[d] : d \in MonthStart[m]..(MonthStart[m + 1] - 1)})

\* monthlyContent: each day with its ratio, a dot for each item, and a mark if one of
\* them is overdue.
MonthlyPage(m) ==
  LET view == MonthlyView(m)
  IN [summary |-> MonthlySummary(m, view),
      cells |-> [d \in DOMAIN view |->
                   [dots |-> view[d], ratio |-> Ratio(view[d]),
                    marked |-> \E c \in view[d] : IsOverdue(c)]]]

\* ListPersonDailyStats: a chore-day of a person has its rows, and those done.
Assigned(p, from) == {i \in Ids : rows[i].assignee = p /\ rows[i].due \in from..today}

ChoreDays(p) == {rows[i].due : i \in Assigned(p, 0)}

CompleteDays(p) ==
  {d \in ChoreDays(p) : \A i \in Assigned(p, 0) : rows[i].due = d => rows[i].status = "done"}

\* ListPersonOverdueCounts
OverdueCount(p) ==
  Cardinality({i \in Ids : /\ rows[i].assignee = p
                           /\ rows[i].due < today
                           /\ rows[i].status = "pending"})

\* completionRate, in percent.
Rate(completed, assigned) ==
  IF assigned = 0 THEN 0 ELSE (completed * 100 + assigned \div 2) \div assigned

\* Fault: a day that is not complete is passed over.
StreakOfAll(p) == Cardinality(CompleteDays(p))

\* currentStreak: from the last chore-day back to the first that is not complete.
Streak(p) ==
  LET broken == ChoreDays(p) \ CompleteDays(p)
  IN Cardinality({d \in ChoreDays(p) : \A b \in broken : d > b})

\* The share of a person's rows since a date that are done.
Rated(p, from) ==
  LET mine == Assigned(p, from)
  IN Rate(Cardinality({i \in mine : rows[i].status = "done"}), Cardinality(mine))

\* The first of the days that a rate counts.
RatedFrom == IF today < RatedDays THEN 0 ELSE today - RatedDays + 1

\* AdminDashboard: one line for each person.
Dashboard ==
  [p \in people |-> [rate |-> Rated(p, RatedFrom),
                     streak |-> Streak(p),
                     overdue |-> OverdueCount(p)]]

\* adminContent: the lines, and the sum of what is overdue.
AdminPage ==
  [lines |-> Dashboard,
   overdue |-> MapThenSumSet(LAMBDA p : Dashboard[p].overdue, people)]

-----------------------------------------------------------------------------
\* The pages agree with each other about every date: the cards of a week's column and
\* of a month's cell are those the daily page has for that date, its numbers are the
\* daily ones, and a month marks exactly the dates whose cards the page of today lists
\* as overdue.
PagesAgree ==
  LET daily(d) == {c \in ListDaily(d) : c.row.due = d}
      overdue == {c \in ListDaily(today) : c.row.due < today}
      all(dates) == UNION {daily(d) : d \in dates}
  IN /\ \A start \in {MondayOf(d) : d \in Days} :
          LET page == WeeklyPage(start)
              week == start..(start + 6)
          IN /\ page.summary = Ratio(all(week))
             /\ \A d \in week \cap Days : \A p \in DOMAIN page.cells :
                  LET cell == page.cells[p][d - start]
                  IN /\ cell.shown = {c \in daily(d) : c.row.assignee = p}
                     /\ cell.marked = cell.shown \cap overdue
     /\ \A m \in Months :
          LET page == MonthlyPage(m)
              month == MonthStart[m]..(MonthStart[m + 1] - 1)
          IN /\ page.summary = Ratio(all(month))
             /\ \A d \in Days \cap month :
                  /\ page.cells[d].dots = daily(d)
                  /\ page.cells[d].ratio = Ratio(daily(d))
                  /\ page.cells[d].marked <=> daily(d) \cap overdue # {}

\* The dashboard agrees with the pages: it counts the overdue cards of today's page, a
\* streak is as long as the run of dates up to today whose daily pages are done, and
\* the rate is the whole number next to what the daily pages add up to.
DashboardAgrees ==
  /\ AdminPage.overdue = Cardinality({c \in ListDaily(today) : c.row.due < today})
  /\ \A p \in people :
    LET line == Dashboard[p]
        tally(d) == TallyOf(ListDaily(d), d)[p]
        done(d) == tally(d).done = tally(d).all
        count(what) == MapThenSumSet(LAMBDA d : tally(d)[what], RatedFrom..today)
        run == {d \in 0..today : tally(d).all > 0 /\ \A e \in d..today : done(e)}
    IN /\ line.overdue =
            Cardinality({c \in ListDaily(today) : c.row.assignee = p /\ c.row.due < today})
       /\ line.streak = Cardinality(run)
       /\ 2 * (100 * count("done") - line.rate * count("all"))
            \in (0 - count("all"))..count("all")
=============================================================================
