------------------------------- MODULE Events -------------------------------
(***************************************************************************)
(* Household events and the occurrences planned for them:                  *)
(* internal/service/events.go over internal/events and internal/store,     *)
(* with the second half of a maintenance run of cmd/kinops/main.go and the *)
(* agenda the pages show of them (service/daily.go, calendar.go).          *)
(*                                                                         *)
(* A time of day counts half hours, an instant counts them since day 0.    *)
(* Once, on SkipDay, the clocks go forward by an hour: time.Date moves a   *)
(* time the household skips an hour back west of Greenwich, where it takes *)
(* the new offset, and an hour ahead east of it.                           *)
(***************************************************************************)
EXTENDS Recurrence, FiniteSets

CONSTANTS
  Client,        \* requests that can be under way at once
  Person,        \* the active people; nobody is ever deactivated
  Form,          \* what an event form may hold: sets of EventForm
  Horizon,       \* days planned ahead: 400, events.HorizonDays
  West,          \* is the household west of Greenwich?
  SkipDay, SkipAt,       \* the day, and the first half hour, that is skipped
  MaxEvents,     \* bound on the events ever created
  MaxDay         \* bound on the calendar

Event == 1..MaxEvents

DayLength == 48
Time == 0..(DayLength - 1)
NoTime == -1                     \* of an all-day event

EventRuleType == RuleType \cup {"annual"}

\* domain.EventRecurrenceRule
EventRule == [type: EventRuleType, interval: Nat, weekdays: SUBSET (0..6),
              day: Nat, month: Nat]

\* What eventFromForm yields.  The end of an all-day event is exclusive; "stop" ends
\* the recurrence.
EventForm == [rule: EventRule, start: Nat, end: Nat, from: Time \cup {NoTime},
              to: Time \cup {NoTime}, stop: Nat \cup {NoEnd},
              audience: SUBSET Nat]

\* The horizon is a number of days; the skipped hour is within its day.
ASSUME EventsAssumption ==
  /\ Form \subseteq EventForm
  /\ {Horizon, SkipDay, SkipAt, MaxEvents, MaxDay} \subseteq Nat
  /\ SkipAt \in 1..(DayLength - 3)
  /\ West \in BOOLEAN

\* eventFromForm reads of the rule what its type needs, and the page disables the end of
\* the recurrence of an event that has none.
ASSUME FormAssumption ==
  \A form \in Form :
    LET rule == form.rule
    IN /\ rule.type # "every_n_days" => rule.interval = 0
       /\ rule.type # "weekly_days" => rule.weekdays = {}
       /\ rule.type \notin {"monthly_day", "annual"} => rule.day = 0
       /\ rule.type # "annual" => rule.month = 0
       /\ rule.type = "one_off" => form.stop = NoEnd

VARIABLES
  today,         \* the household's date
  events,        \* row of each event
  occurrences,   \* rows of event_occurrences, by event
  requests,      \* what each request under way has read so far
  phase,         \* what the process is doing
  wake,          \* the day the timer waits for; during a run, the day it began
  listed,        \* copies the run of EnsureEventHorizon still has to plan from
  run,           \* what the run is at, or how the last one ended
  outdated,      \* history: events planned from a copy no longer current
  revived,       \* history: events edited since they were archived
  reached,       \* history: active events a run has planned, or that were saved
                 \* since, unless it has succeeded: that one reached all of them
  savedOn        \* history: the day each active event was last saved

data == <<events, occurrences>>
process == <<phase, wake, listed, run>>
history == <<outdated, revived, reached, savedOn>>
vars == <<today, data, requests, process, history>>

RowState == {"absent", "active", "archived"}
EventRow == [state: RowState, form: EventForm]

NoForm == [rule |-> [type |-> "one_off", interval |-> 0, weekdays |-> {}, day |-> 0,
                     month |-> 0],
           start |-> 0, end |-> 0, from |-> NoTime, to |-> NoTime, stop |-> NoEnd,
           audience |-> {}]
NoEvent == [state |-> "absent", form |-> NoForm]

Occurrence == [start: Nat, end: Nat, from: Int, to: Int]

Request == [op: {"none", "archive", "update"}, id: Nat, asOf: Nat]
Idle == [op |-> "none", id |-> 0, asOf |-> 0]

Serving == phase \in {"waiting", "maintaining"}
Maintaining == phase \in {"starting", "maintaining"}

Active(i) == events[i].state = "active"

-----------------------------------------------------------------------------
(* internal/events: times, validation, the occurrences of a window. *)

\* The instant of time t of day d, localDateTime.
Instant(d, t) ==
  LET skipped == DayLength * SkipDay + SkipAt + (IF West THEN 0 ELSE 2)
  IN DayLength * d + t - (IF DayLength * d + t >= skipped THEN 2 ELSE 0)

\* The month of the year; the calendar begins with August.
MonthOfYear(m) == ((m + 6) % 12) + 1

\* validMonthDay of a leap year
IsAnnualDay(month, day) ==
  day \in 1..(IF month = 2 THEN 29 ELSE IF month \in {4, 6, 9, 11} THEN 30 ELSE 31)

ValidEventRule(rule) ==
  /\ rule.type = "every_n_days" => rule.interval \in 1..3650
  /\ rule.type = "weekly_days" => rule.weekdays # {}
  /\ rule.type = "monthly_day" => rule.day \in 1..31
  /\ rule.type = "annual" => rule.month \in 1..12 /\ IsAnnualDay(rule.month, rule.day)

\* Validate, and normalizeAndValidateEvent's look at the audience.
ValidEvent(form) ==
  /\ IF form.from = NoTime
     THEN form.end > form.start /\ form.to = NoTime
     ELSE form.to # NoTime /\ Instant(form.end, form.to) > Instant(form.start, form.from)
  /\ form.stop # NoEnd => form.stop >= form.start
  /\ ValidEventRule(form.rule)
  /\ form.audience \subseteq Person

ChoreRule(rule) ==
  [type |-> rule.type, interval |-> rule.interval, weekdays |-> rule.weekdays,
   day |-> rule.day]

\* The dates of the window, by year for an annual rule, else as for a chore.
Dates(form, from, through) ==
  IF form.rule.type = "annual"
  THEN {d \in from..through :
          /\ d >= form.start
          /\ form.stop # NoEnd => d <= form.stop
          /\ \E m \in Months : /\ MonthOfYear(m) = form.rule.month
                               /\ IsMonthDay(d, m, form.rule.day)}
  ELSE Occurrences(ChoreRule(form.rule), form.start, form.stop, from, through)

\* A date read from the database is a midnight of Greenwich.  West of it that is
\* before the household's, and Generate does not rebase the end it passes on: the
\* last date of the recurrence is lost.  (It does for an annual rule.)
DatesAsRead(form, from, through) ==
  Dates(form, from, through)
    \ (IF West /\ form.rule.type # "annual" THEN {form.stop} ELSE {})

\* occurrenceForDate
OccurrenceOn(form, d) ==
  LET days == form.end - form.start
  IN IF form.from = NoTime
     THEN [start |-> d, end |-> d + days, from |-> NoTime, to |-> NoTime]
     ELSE [start |-> d, end |-> d + days + 1,
           from |-> Instant(d, form.from), to |-> Instant(d + days, form.to)]

-----------------------------------------------------------------------------
(* The store's statements on event_occurrences. *)

\* occurrence_key: the date, and Greenwich's time of day.
Key(r) == <<r.start, IF r.from = NoTime THEN NoTime ELSE r.from % DayLength>>

\* The table's CHECKs.
Accepted(r) == r.end > r.start /\ (r.from # NoTime => r.to > r.from)

\* Fault: > for >=.
BeforeOrOn(rows, from) == {r \in rows : r.start <= from}

\* Fault: what is not over goes, too.
OverBy(rows, from) == {r \in rows : r.end <= from}

\* DeleteEventOccurrencesFrom
Before(rows, from) == {r \in rows : r.start < from}

\* CreateEventOccurrence, of each: a key there is already is left alone.
Inserted(rows, new) ==
  rows \cup {r \in new : \A q \in rows : Key(q) # Key(r)}

\* What generateEvent plans of a form that was just submitted.
Window(form) == {OccurrenceOn(form, d) : d \in Dates(form, today, today + Horizon)}

\* Fault: the window starts where the event does.
WindowFromStart(form) ==
  {OccurrenceOn(form, d) : d \in DatesAsRead(form, form.start, today + Horizon)}

\* What it plans of a row that was read.
WindowAsRead(form) ==
  {OccurrenceOn(form, d) : d \in DatesAsRead(form, today, today + Horizon)}

\* generateEvent returns no error.
CanGenerate(new) == \A r \in new : Accepted(r)

-----------------------------------------------------------------------------
(* What the pages show: DailyView, WeeklyView and MonthlyView. *)

\* Fault: an occurrence under way since an earlier day is left out.
ListScheduledBegun(from, through) ==
  UNION {{<<i, r>> : r \in {q \in occurrences[i] : q.start \in from..through}} :
           i \in {j \in Event : Active(j)}}

\* ListScheduledEvents: the end of an occurrence is exclusive.
ListScheduled(from, through) ==
  UNION {{<<i, r>> : r \in {q \in occurrences[i] : q.start <= through /\ q.end > from}} :
           i \in {j \in Event : Active(j)}}

\* Fault: the end of an occurrence is taken for its last day.
GroupedInclusively(items, from, through) ==
  [d \in from..through |-> {o \in items : o[2].start <= d /\ d <= o[2].end}]

\* groupEventsByDate: an item stands under each of its days in the window.
GroupedByDate(items, from, through) ==
  LET first(o) == IF o[2].start < from THEN from ELSE o[2].start
      after(o) == IF o[2].end > through + 1 THEN through + 1 ELSE o[2].end
  IN [d \in from..through |-> {o \in items : d \in first(o)..(after(o) - 1)}]

MondayOf(d) == d - ((Weekday(d) + 6) % 7)

DailyAgenda(d) == ListScheduled(d, d)

WeeklyAgenda(d) ==
  LET start == MondayOf(d)
  IN GroupedByDate(ListScheduled(start, start + 6), start, start + 6)

\* Six weeks from the Monday of the month's first day on.
MonthlyAgenda(m) ==
  LET start == MondayOf(MonthStart[m])
  IN GroupedByDate(ListScheduled(start, start + 41), start, start + 41)

-----------------------------------------------------------------------------
Init ==
  /\ today = 0
  /\ events = [i \in Event |-> NoEvent]
  /\ occurrences = [i \in Event |-> {}]
  /\ requests = [k \in Client |-> Idle]
  /\ phase = "down"
  /\ wake = 0
  /\ listed = [i \in Event |-> NoEvent]
  /\ run = "ok"
  /\ outdated = {}
  /\ revived = {}
  /\ reached = {}
  /\ savedOn = [i \in Event |-> 0]

Saved(i) ==
  /\ outdated' = outdated \ {i}
  /\ reached' = IF run = "ok" THEN reached ELSE reached \cup {i}
  /\ savedOn' = [savedOn EXCEPT ![i] = today]

CreateEvent(i, form) ==
  LET new == Window(form)
  IN /\ Serving
     /\ ValidEvent(form)
     /\ events[i].state = "absent"
     /\ \A j \in Event : j < i => events[j].state # "absent"
     /\ CanGenerate(new)
     /\ events' = [events EXCEPT ![i] = [state |-> "active", form |-> form]]
     /\ occurrences' = [occurrences EXCEPT ![i] = Inserted({}, new)]
     /\ Saved(i)
     /\ UNCHANGED <<today, requests, process, revived>>

\* The list of events has an edit link and an archive button for each active one,
\* and a page of it may be as old as it likes.
Offered(i) == events[i].state # "absent"

\* UpdateEvent and DeactivateEvent read the clock before their transaction.
Begin(k, op, i) ==
  /\ Serving
  /\ requests[k] = Idle
  /\ Offered(i)
  /\ requests' = [requests EXCEPT ![k] = [op |-> op, id |-> i, asOf |-> today]]
  /\ UNCHANGED <<today, data, process, history>>

Finish(k) == requests' = [requests EXCEPT ![k] = Idle]

\* The request is cancelled, or its transaction fails: no effect.
Abandon(k) ==
  /\ requests[k] # Idle
  /\ Finish(k)
  /\ UNCHANGED <<today, data, process, history>>

BeginUpdateEvent(k, i) == Begin(k, "update", i)

\* The form came with the request, and nothing looked at it before.  The active flag
\* is kept, and not looked at either: an archived event is planned too.
FinishUpdateEvent(k, form) ==
  LET request == requests[k]
      i == request.id
      new == Window(form)
  IN /\ request.op = "update"
     /\ ValidEvent(form)
     /\ CanGenerate(new)
     /\ events' = [events EXCEPT ![i].form = form]
     /\ occurrences' = [occurrences EXCEPT ![i] = Inserted(Before(@, request.asOf), new)]
     /\ revived' = IF Active(i) THEN revived ELSE revived \cup {i}
     /\ Saved(i)
     /\ Finish(k)
     /\ UNCHANGED <<today, process>>

BeginDeactivateEvent(k, i) == Begin(k, "archive", i)

\* Of an event archived since, an error.
FinishDeactivateEvent(k) ==
  LET request == requests[k]
      i == request.id
  IN /\ request.op = "archive"
     /\ Active(i)
     /\ events' = [events EXCEPT ![i].state = "archived"]
     /\ occurrences' = [occurrences EXCEPT ![i] = Before(@, request.asOf)]
     /\ outdated' = outdated \ {i}
     /\ reached' = reached \ {i}
     /\ savedOn' = [savedOn EXCEPT ![i] = 0]
     /\ Finish(k)
     /\ UNCHANGED <<today, process, revived>>

-----------------------------------------------------------------------------
(* The process.  A run plans the chores first, in whatever time they take and *)
(* even if they fail, and then the events.                                    *)

Start ==
  /\ phase = "down"
  /\ phase' = "starting"
  /\ wake' = today
  /\ run' = "chores"
  /\ reached' = {}
  /\ UNCHANGED <<today, data, requests, listed, outdated, revived, savedOn>>

\* Fault: the goroutine returns at its first error.
MidnightTimerUnlessFailed ==
  /\ phase = "waiting"
  /\ run = "ok"
  /\ today >= wake
  /\ phase' = "maintaining"
  /\ wake' = today
  /\ run' = "chores"
  /\ reached' = {}
  /\ UNCHANGED <<today, data, requests, listed, outdated, revived, savedOn>>

\* maintainHorizon: the timer set for a midnight fires.
MidnightTimer ==
  /\ phase = "waiting"
  /\ today >= wake
  /\ phase' = "maintaining"
  /\ wake' = today
  /\ run' = "chores"
  /\ reached' = {}
  /\ UNCHANGED <<today, data, requests, listed, outdated, revived, savedOn>>

\* Fault: the list breaks off after the first event.
ListFirstEvent ==
  /\ Maintaining
  /\ run = "chores"
  /\ run' = "events"
  /\ listed' = [i \in Event |-> IF i = 1 /\ Active(i) THEN events[i] ELSE NoEvent]
  /\ UNCHANGED <<today, data, requests, phase, wake, history>>

\* EnsureEventHorizon lists the active events, outside any transaction.
ListEvents ==
  /\ Maintaining
  /\ run = "chores"
  /\ run' = "events"
  /\ listed' = [i \in Event |-> IF Active(i) THEN events[i] ELSE NoEvent]
  /\ UNCHANGED <<today, data, requests, phase, wake, history>>

\* The next event of the list: ordered by start, then by title, which may go
\* either way.
IsNext(i) ==
  /\ run = "events"
  /\ listed[i].state # "absent"
  /\ \A j \in Event :
       listed[j].state # "absent" => listed[j].form.start >= listed[i].form.start

\* One transaction of EnsureEventHorizon: generateEvent from the listed copy.
EnsureEvent(i) ==
  LET copy == listed[i]
      new == WindowAsRead(copy.form)
  IN /\ IsNext(i)
     /\ CanGenerate(new)
     /\ occurrences' = [occurrences EXCEPT ![i] = Inserted(@, new)]
     /\ listed' = [listed EXCEPT ![i] = NoEvent]
     /\ outdated' = IF copy # events[i] THEN outdated \cup {i} ELSE outdated
     /\ reached' = reached \cup (IF Active(i) THEN {i} ELSE {})
     /\ UNCHANGED <<today, events, requests, phase, wake, run, revived, savedOn>>

\* The loop of maintainHorizon computes the midnight after now.
RunEnds(how) ==
  /\ run' = how
  /\ listed' = [i \in Event |-> NoEvent]
  /\ phase' = "waiting"
  /\ wake' = today + 1
  /\ reached' = IF how = "ok" THEN {} ELSE reached
  /\ UNCHANGED <<today, data, requests, outdated, revived, savedOn>>

RunSucceeds ==
  /\ run = "events"
  /\ \A i \in Event : listed[i].state = "absent"
  /\ RunEnds("ok")

\* An event that cannot be planned ends the run for those after it.
RunIsRefused(i) ==
  /\ IsNext(i)
  /\ ~ CanGenerate(WindowAsRead(listed[i].form))
  /\ RunEnds("failed")

\* A statement fails.
RunBreaks ==
  /\ Maintaining
  /\ RunEnds("failed")

\* What was under way is lost.
Crash ==
  /\ phase # "down"
  /\ phase' = "down"
  /\ wake' = 0
  /\ listed' = [i \in Event |-> NoEvent]
  /\ run' = "ok"
  /\ requests' = [k \in Client |-> Idle]
  /\ reached' = {}
  /\ UNCHANGED <<today, data, outdated, revived, savedOn>>

\* Midnight.  Bound: neither a request nor a run sees two.
NextDay ==
  /\ today < MaxDay
  /\ \A k \in Client : requests[k] # Idle => requests[k].asOf = today
  /\ Maintaining => wake = today
  /\ today' = today + 1
  /\ UNCHANGED <<data, requests, process, history>>

Next ==
  \/ \E i \in Event, form \in Form : CreateEvent(i, form)
  \/ \E k \in Client, i \in Event : BeginUpdateEvent(k, i)
  \/ \E k \in Client, form \in Form : FinishUpdateEvent(k, form)
  \/ \E k \in Client, i \in Event : BeginDeactivateEvent(k, i)
  \/ \E k \in Client : FinishDeactivateEvent(k)
  \/ \E k \in Client : Abandon(k)
  \/ Start
  \/ MidnightTimer
  \/ ListEvents
  \/ \E i \in Event : EnsureEvent(i)
  \/ RunSucceeds
  \/ \E i \in Event : RunIsRefused(i)
  \/ RunBreaks
  \/ Crash
  \/ NextDay

Spec == Init /\ [][Next]_vars

\* The goroutine of maintainHorizon is scheduled and its timer fires.
FairSpec ==
  /\ Spec
  /\ WF_vars(MidnightTimer)
  /\ WF_vars(ListEvents)
  /\ WF_vars(\E i \in Event : EnsureEvent(i))
  /\ WF_vars(RunSucceeds \/ \E i \in Event : RunIsRefused(i))

-----------------------------------------------------------------------------
(* What the service promises. *)

\* Every variable keeps its type, and the table's CHECKs hold.
TypeOK ==
  /\ today \in Nat
  /\ events \in [Event -> EventRow]
  /\ occurrences \in [Event -> SUBSET Occurrence]
  /\ \A i \in Event : \A r \in occurrences[i] : Accepted(r)
  /\ requests \in [Client -> Request]
  /\ phase \in {"down", "starting", "waiting", "maintaining"}
  /\ wake \in Nat
  /\ listed \in [Event -> EventRow]
  /\ run \in {"chores", "events", "ok", "failed"}
  /\ outdated \cup revived \cup reached \subseteq Event
  /\ savedOn \in [Event -> Nat]

\* What is planned from today on is what the event says now, whatever was saved,
\* archived and planned before: each occurrence is the one of its date, and the
\* event is active or was edited since its archiving.  Excepted: events a run
\* planned from an outdated copy.
PlannedAsTold ==
  \A i \in Event \ outdated : \A r \in occurrences[i] :
    r.start >= today =>
      /\ r \in Window(events[i].form)
      /\ Active(i) \/ i \in revived

\* Every date the event has from today to "through" is planned, but for the last
\* one of its recurrence, where a row read west of Greenwich loses it.
FilledThrough(i, through) ==
  DatesAsRead(events[i].form, today, through) \subseteq {r.start : r \in occurrences[i]}

\* A run passes over no active event: each is still listed, or was reached, and one
\* reached is planned a whole horizon from the day the run began.  Between two runs
\* this still holds of the day before the last run ended, of all active events if
\* it succeeded, else of those reached before it failed.
HorizonFilled ==
  \A i \in {j \in Event : Active(j)} :
    /\ run = "events" => i \in reached \/ listed[i].state # "absent"
    /\ Maintaining /\ i \in reached => FilledThrough(i, wake + Horizon)
    /\ phase = "waiting" /\ (run = "ok" \/ i \in reached)
         => FilledThrough(i, wake - 2 + Horizon)

\* When its day comes, and on every later day it lasts, an occurrence is on the
\* agenda as the event was saved, if it was saved before it began and at most a
\* horizon before: no run, no restart and no overlapping request loses it.
AgendaShowsWhatWasSaved ==
  \A i \in Event : Active(i) =>
    \A d \in Dates(events[i].form, savedOn[i], savedOn[i] + Horizon) :
      LET r == OccurrenceOn(events[i].form, d)
      IN d <= today /\ today < r.end => <<i, r>> \in DailyAgenda(today)

\* The first date of the event that a step may withdraw: today's, or the date a request
\* read from the clock before midnight.
CutOff(i) ==
  IF \E k \in Client : requests[k].id = i /\ requests[k].asOf < today
  THEN today - 1 ELSE today

\* An edit, a run or a restart leaves alone what has begun: an occurrence that began on an
\* earlier day vanishes from no agenda on which it was, as long as its event is active,
\* and none is planned beside it after the fact.
OngoingStays ==
  [][\A i \in Event, d \in today..(today + Horizon) :
       LET begun(agenda) == {o \in agenda : o[1] = i /\ o[2].start < CutOff(i)}
       IN Active(i) /\ Active(i)' => begun(DailyAgenda(d)') = begun(DailyAgenda(d))]_vars

\* The three pages agree: a day of the week's and of the month's page shows what
\* the day's own page shows.
AgendasAgree ==
  LET days == 0..(today + Horizon)
  IN /\ \A start \in {MondayOf(d) : d \in days} :
          LET page == WeeklyAgenda(start)
          IN \A d \in days \cap (start..(start + 6)) : page[d] = DailyAgenda(d)
     /\ \A m \in Months :
          LET page == MonthlyAgenda(m)
          IN \A d \in days \cap (MonthStart[m]..(MonthStart[m + 1] - 1)) :
               page[d] = DailyAgenda(d)

\* When a run ends, one of a midnight or of startup, every active event is planned through
\* the horizon of the day the run began; if this very run failed or was refused an event,
\* every one that it reached.
RunsFill ==
  [][\A d \in {wake} : Maintaining /\ phase' = "waiting" =>
       \A i \in Event : Active(i)' /\ (run' = "ok" \/ i \in reached)
                          => FilledThrough(i, d + Horizon)']_vars

\* A run that is due, at a midnight, begins, however the last one ended. One that has
\* begun ends, unless the process stops, and has filled the horizon then.
MaintenanceFills ==
  /\ phase = "waiting" /\ today >= wake ~> phase \in {"maintaining", "down"}
  /\ Maintaining ~> phase \in {"waiting", "down"}
  /\ RunsFill

\* Events implement the chores' ledger, without ticking: an open occurrence is an
\* event's date.  Nothing is planned for a past date, or beyond the horizon.
Ledger == INSTANCE ChoreLedger
            WITH Schedule <- Event, done <- {},
                 open <- UNION {{<<i, r.start>> : r \in occurrences[i]} : i \in Event}

ImplementsLedger == Ledger!Spec

-----------------------------------------------------------------------------
(* What the event form says of it, and the code does not keep. *)

\* "Stop repeating (optional)" (events.templ) asks for the last date, and Occurrences
\* returns "the inclusive requested window" (generator.go): between two runs that
\* succeed, no date up to the last one is missing.
FilledToTheLastDate ==
  phase = "waiting" /\ run = "ok" =>
    \A i \in Event : Active(i) =>
      Dates(events[i].form, today, wake - 2 + Horizon)
        \subseteq {r.start : r \in occurrences[i]}
=============================================================================
