----------------------------- MODULE EventPages -----------------------------
(* The pages of internal/views/pages/events.templ around Events: what the form *)
(* of an event shows in its inputs, and what internal/handlers/events.go makes *)
(* of the inputs a browser sends back.                                         *)
EXTENDS Events

\* A disabled input is not sent, an empty one is sent as such: both are Blank.
Blank == -1

\* Fault: the exclusive end of an all-day event is shown as it is stored.
FinalDayAsStored(form) == form.end

\* eventFormEndDateValue: people are shown the final day.
FinalDay(form) == IF form.from = NoTime THEN form.end - 1 ELSE form.end

\* eventFormContent: the inputs the form enables, as it fills them in.
FormFields(form) ==
  LET rule == form.rule
      enabled(type, value) == IF rule.type = type THEN value ELSE Blank
  IN [allDay    |-> form.from = NoTime,
      startDate |-> form.start,
      endDate   |-> FinalDay(form),
      startTime |-> form.from,
      endTime   |-> form.to,
      ruleType  |-> rule.type,
      interval  |-> enabled("every_n_days", rule.interval),
      weekdays  |-> IF rule.type = "weekly_days" THEN rule.weekdays ELSE {},
      day       |-> enabled("monthly_day", rule.day),
      month     |-> enabled("annual", rule.month),
      annualDay |-> enabled("annual", rule.day),
      stop      |-> IF rule.type = "one_off" THEN Blank ELSE form.stop,
      audience  |-> form.audience \cap Person]

\* eventFromForm: of the recurrence only what its type uses is read.
EventFromForm(f) ==
  LET only(type, value) == IF f.ruleType = type THEN value ELSE 0
  IN [rule |-> [type |-> f.ruleType,
                interval |-> only("every_n_days", f.interval),
                weekdays |-> IF f.ruleType = "weekly_days" THEN f.weekdays ELSE {},
                day |-> only("monthly_day", f.day) + only("annual", f.annualDay),
                month |-> only("annual", f.month)],
      start |-> f.startDate,
      end |-> IF f.allDay THEN f.endDate + 1 ELSE f.endDate,
      from |-> IF f.allDay THEN NoTime ELSE f.startTime,
      to |-> IF f.allDay THEN NoTime ELSE f.endTime,
      stop |-> IF f.stop = Blank THEN NoEnd ELSE f.stop,
      audience |-> f.audience]

\* What New shows: an all-day event of the day asked for.
NewEvent(d) == [NoForm EXCEPT !.start = d, !.end = d + 1]

-----------------------------------------------------------------------------
\* An edit that changes nothing keeps the event, all-day or not, whatever its rule:
\* neither its end nor its recurrence drifts from one save to the next.  A new form
\* saved as it is opened is valid.
EditKeepsTheEvent ==
  /\ \A i \in Event : events[i].state # "absent" =>
       EventFromForm(FormFields(events[i].form)) = events[i].form
  /\ ValidEvent(EventFromForm(FormFields(NewEvent(today))))
=============================================================================
