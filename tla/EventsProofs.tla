---------------------------- MODULE EventsProofs -----------------------------
(***************************************************************************)
(* What holds of household events for every household, calendar and        *)
(* horizon: what is planned is what was saved, what was saved is on the    *)
(* agenda when its day comes, active events stay planned a horizon ahead,  *)
(* the agendas agree, and the rows implement the ledger of the chores.     *)
(*                                                                         *)
(* One lemma says what a step may do to the rows of an event: nothing,     *)
(* plan a form that was just saved, withdraw from a date on, or add what a *)
(* copy read earlier is missing.  The rest follows from that lemma and     *)
(* what the run has listed, reached and still to plan.                     *)
(***************************************************************************)
EXTENDS EventPages, TLAPS

-----------------------------------------------------------------------------
(* The dates and rows of a window. *)

\* The dates of a window lie in it, and a smaller window has those that lie in it.
LEMMA DatesOfWindow ==
  ASSUME NEW form, NEW from \in Int, NEW through \in Int
  PROVE  /\ Dates(form, from, through) \subseteq from..through
         /\ DatesAsRead(form, from, through) \subseteq Dates(form, from, through)
         /\ \A f, t \in Int : \A d \in f..t :
              /\ d \in Dates(form, from, through) => d \in Dates(form, f, t)
              /\ d \in DatesAsRead(form, from, through) => d \in DatesAsRead(form, f, t)
<1>1. /\ Dates(form, from, through) \subseteq from..through
      /\ \A f, t \in Int : \A d \in f..t :
           d \in Dates(form, from, through) => d \in Dates(form, f, t)
  <2>1. CASE form.rule.type = "annual"
    BY <2>1 DEF Dates
  <2>2. CASE form.rule.type # "annual"
    BY <2>2 DEF Dates, Occurrences
  <2> QED
    BY <2>1, <2>2
<1>2. \A f, t : DatesAsRead(form, f, t) =
        Dates(form, f, t) \ (IF West /\ form.rule.type # "annual" THEN {form.stop} ELSE {})
  BY DEF DatesAsRead
<1> DEFINE lost == IF West /\ form.rule.type # "annual" THEN {form.stop} ELSE {}
<1> HIDE DEF lost
<1> QED
  BY <1>1, <1>2 DEF lost

LEMMA StartOfOccurrence ==
  ASSUME NEW form, NEW d
  PROVE  OccurrenceOn(form, d).start = d
<1>1. CASE form.from = NoTime
  BY <1>1 DEF OccurrenceOn
<1>2. CASE form.from # NoTime
  BY <1>2 DEF OccurrenceOn
<1> QED
  BY <1>1, <1>2

\* The rows the table accepts of those planned have their types.
LEMMA OccurrenceType ==
  ASSUME NEW form \in EventForm, NEW d \in Nat, Accepted(OccurrenceOn(form, d))
  PROVE  OccurrenceOn(form, d) \in Occurrence
<1>1. form.start \in Nat /\ form.end \in Nat /\ form.from \in Int /\ form.to \in Int
  BY DEF EventForm, Time, NoTime, DayLength
<1>2. \A e, t \in Int : Instant(e, t) \in Int
  BY EventsAssumption DEF Instant, DayLength
<1> DEFINE days == form.end - form.start
<1>3. days \in Int /\ d + days \in Int
  BY <1>1
<1>4. CASE form.from = NoTime
  <2>1. OccurrenceOn(form, d) = [start |-> d, end |-> d + days, from |-> NoTime, to |-> NoTime]
    BY <1>4 DEF OccurrenceOn
  <2>2. d + days > d
    BY <2>1 DEF Accepted
  <2>3. d + days \in Nat
    BY <1>3, <2>2
  <2> QED
    BY <2>1, <2>3 DEF Occurrence, NoTime
<1>5. CASE form.from # NoTime
  <2> HIDE DEF days
  <2>0. Instant(d, form.from) \in Int /\ Instant(d + days, form.to) \in Int
    <3>1. d \in Int
      OBVIOUS
    <3> QED
      BY <1>1, <1>2, <1>3, <3>1, Zenon
  <2> USE DEF days
  <2>1. PICK f, t \in Int : f = Instant(d, form.from) /\ t = Instant(d + days, form.to)
    BY <2>0, Zenon
  <2>2. OccurrenceOn(form, d) = [start |-> d, end |-> d + days + 1, from |-> f, to |-> t]
    BY <1>5, <2>1 DEF OccurrenceOn
  <2>3. d + days + 1 > d
    BY <2>2 DEF Accepted
  <2>4. d + days + 1 \in Nat
    BY <1>3, <2>3
  <2> QED
    BY <2>1, <2>2, <2>4 DEF Occurrence
<1> QED
  BY <1>4, <1>5

LEMMA HorizonType == Horizon \in Nat
BY EventsAssumption

\* What is planned of a form, or of a row that was read, has the dates of the horizon.
LEMMA WindowRows ==
  ASSUME today \in Nat, NEW form \in EventForm,
         NEW new \in {Window(form), WindowAsRead(form)}, CanGenerate(new)
  PROVE  /\ new \in SUBSET Occurrence
         /\ \A r \in new : Accepted(r) /\ r.start \in today..(today + Horizon)
<1>1. ASSUME NEW r \in new
      PROVE  /\ r \in Occurrence /\ Accepted(r)
             /\ r.start \in today..(today + Horizon)
  <2>1. \E d \in Dates(form, today, today + Horizon) : r = OccurrenceOn(form, d)
    BY DatesOfWindow, HorizonType DEF Window, WindowAsRead
  <2>2. PICK d \in Dates(form, today, today + Horizon) : r = OccurrenceOn(form, d)
    BY <2>1
  <2>3. d \in today..(today + Horizon) /\ d \in Nat
    BY DatesOfWindow, HorizonType
  <2>4. Accepted(r)
    BY DEF CanGenerate
  <2> QED
    BY <2>2, <2>3, <2>4, OccurrenceType, StartOfOccurrence
<1> QED
  BY <1>1

\* Inserting adds a row for each date, and leaves those there are.
LEMMA InsertedRows ==
  ASSUME NEW rows, NEW new
  PROVE  /\ rows \subseteq Inserted(rows, new)
         /\ Inserted(rows, new) \subseteq rows \cup new
         /\ \A r \in new : \E q \in Inserted(rows, new) : q.start = r.start
         /\ \A r \in new : (\A q \in rows : q.start # r.start) => r \in Inserted(rows, new)
<1>1. \A q, r : Key(q) = Key(r) => q.start = r.start
  BY DEF Key
<1> QED
  BY <1>1 DEF Inserted

-----------------------------------------------------------------------------
(* Requests, the run, and what they know of the events. *)

\* A request names an event there is, and read the clock today or yesterday.
RequestInv ==
  \A k \in Client :
    requests[k].op # "none" =>
      /\ requests[k].id \in Event /\ events[requests[k].id].state # "absent"
      /\ requests[k].asOf \in {today - 1, today}

\* A run began today or yesterday, and the timer is never set beyond tomorrow.
ProcessInv ==
  /\ Maintaining <=> run \in {"chores", "events"}
  /\ Maintaining => wake \in {today - 1, today}
  /\ phase = "waiting" => wake <= today + 1

\* The copies of a run are of events there are.  Until the run reaches an active event,
\* or it is saved, its copy is the row.
ListedInv ==
  \A i \in Event :
    listed[i].state # "absent" =>
      /\ run = "events" /\ listed[i].state = "active" /\ events[i].state # "absent"
      /\ Active(i) /\ i \notin reached => listed[i] = events[i]

AbsentInv == \A i \in Event : events[i].state = "absent" => occurrences[i] = {}

Core == TypeOK /\ RequestInv /\ ProcessInv /\ ListedInv /\ AbsentInv

-----------------------------------------------------------------------------
(* What a step may do to the rows of an event. *)

\* Nothing.
Still(i) ==
  /\ today' \in {today, today + 1}
  /\ occurrences'[i] = occurrences[i] /\ events'[i] = events[i]
  /\ savedOn'[i] = savedOn[i]
  /\ i \in outdated => i \in outdated'
  /\ i \in revived => i \in revived'

\* CreateEvent, FinishUpdateEvent: from the date on that the request read.
SavedAs(i) ==
  /\ today' = today
  /\ \E asOf \in {today - 1, today}, form \in Form :
       /\ CutOff(i) <= asOf /\ CanGenerate(Window(form))
       /\ events'[i].form = form
       /\ occurrences'[i] = Inserted(Before(occurrences[i], asOf), Window(form))
  /\ events'[i].state \in {"active", "archived"}
  /\ Active(i)' \/ i \in revived'
  /\ savedOn'[i] = today

\* FinishDeactivateEvent
Withdrawn(i) ==
  /\ today' = today
  /\ events'[i].state = "archived"
  /\ \E asOf \in {today - 1, today} : occurrences'[i] = Before(occurrences[i], asOf)

\* EnsureEvent
Ensured(i) ==
  /\ today' = today
  /\ listed[i].state = "active" /\ CanGenerate(WindowAsRead(listed[i].form))
  /\ occurrences'[i] = Inserted(occurrences[i], WindowAsRead(listed[i].form))
  /\ UNCHANGED <<events, revived, savedOn>>
  /\ listed[i] # events[i] => i \in outdated'
  /\ i \in outdated => i \in outdated'

LEMMA StepOfRows ==
  ASSUME Core, [Next]_vars, NEW i \in Event
  PROVE  Still(i) \/ SavedAs(i) \/ Withdrawn(i) \/ Ensured(i)
<1>0. /\ TypeOK /\ today \in Nat
      /\ events \in [Event -> EventRow] /\ occurrences \in [Event -> SUBSET Occurrence]
      /\ savedOn \in [Event -> Nat]
  BY DEF Core, TypeOK
<1>1. ASSUME NEW j \in Event, NEW form \in Form, CreateEvent(j, form)
      PROVE  Still(i) \/ SavedAs(i)
  <2>1. /\ today' = today /\ CanGenerate(Window(form)) /\ revived' = revived
        /\ events[j].state = "absent"
        /\ events' = [events EXCEPT ![j] = [state |-> "active", form |-> form]]
        /\ occurrences' = [occurrences EXCEPT ![j] = Inserted({}, Window(form))]
        /\ outdated' = outdated \ {j}
        /\ savedOn' = [savedOn EXCEPT ![j] = today]
    BY <1>1 DEF CreateEvent, Saved
  <2>2. CASE i = j
    <3>1. occurrences[i] = {} /\ Before({}, today) = {}
      BY <2>1, <2>2 DEF Core, AbsentInv, Before
    <3>2. occurrences'[i] = Inserted(Before(occurrences[i], today), Window(form))
      BY <1>0, <2>1, <2>2, <3>1
    <3>3. events'[i].state = "active" /\ events'[i].form = form
      BY <1>0, <2>1, <2>2
    <3>4. savedOn'[i] = today
      BY <1>0, <2>1, <2>2
    <3>5. CutOff(i) <= today
      BY <1>0 DEF CutOff
    <3> QED
      BY <1>0, <2>1, <3>2, <3>3, <3>4, <3>5 DEF SavedAs, Active
  <2>3. CASE i # j
    BY <1>0, <2>1, <2>3 DEF Still
  <2> QED
    BY <2>2, <2>3
<1>2. ASSUME NEW k \in Client, NEW form \in Form, FinishUpdateEvent(k, form)
      PROVE  Still(i) \/ SavedAs(i)
  <2> DEFINE j == requests[k].id
             asOf == requests[k].asOf
  <2>1. /\ today' = today /\ CanGenerate(Window(form))
        /\ requests[k].op = "update"
        /\ events' = [events EXCEPT ![j].form = form]
        /\ occurrences' = [occurrences EXCEPT ![j] = Inserted(Before(@, asOf), Window(form))]
        /\ outdated' = outdated \ {j}
        /\ revived' = IF Active(j) THEN revived ELSE revived \cup {j}
        /\ savedOn' = [savedOn EXCEPT ![j] = today]
    BY <1>2 DEF FinishUpdateEvent, Saved
  <2>2. /\ j \in Event /\ events[j].state # "absent" /\ asOf \in {today - 1, today}
        /\ CutOff(j) <= asOf
    BY <1>0, <2>1 DEF Core, RequestInv, CutOff
  <2>5. i = j => CutOff(i) <= asOf
    BY <2>2, Zenon
  <2> HIDE DEF j, asOf
  <2>3. CASE i = j
    <3>1. events'[i].form = form /\ events'[i].state = events[i].state
      BY <1>0, <2>1, <2>2, <2>3 DEF EventRow
    <3>2. events'[i].state \in {"active", "archived"}
      BY <1>0, <2>2, <2>3, <3>1 DEF EventRow, RowState
    <3>3. occurrences'[i] = Inserted(Before(occurrences[i], asOf), Window(form))
      BY <1>0, <2>1, <2>3
    <3>4. Active(i)' \/ i \in revived'
      BY <2>1, <2>3, <3>1 DEF Active
    <3>5. savedOn'[i] = today
      BY <1>0, <2>1, <2>3
    <3> QED
      BY <2>1, <2>2, <2>3, <2>5, <3>1, <3>2, <3>3, <3>4, <3>5 DEF SavedAs
  <2>4. CASE i # j
    BY <1>0, <2>1, <2>2, <2>4 DEF Still
  <2> QED
    BY <2>3, <2>4
<1>3. ASSUME NEW k \in Client, FinishDeactivateEvent(k)
      PROVE  Still(i) \/ Withdrawn(i)
  <2> DEFINE j == requests[k].id
             asOf == requests[k].asOf
  <2>1. /\ today' = today /\ revived' = revived
        /\ requests[k].op = "archive"
        /\ events' = [events EXCEPT ![j].state = "archived"]
        /\ occurrences' = [occurrences EXCEPT ![j] = Before(@, asOf)]
        /\ outdated' = outdated \ {j}
        /\ savedOn' = [savedOn EXCEPT ![j] = 0]
    BY <1>3 DEF FinishDeactivateEvent
  <2>2. j \in Event /\ asOf \in {today - 1, today}
    BY <2>1 DEF Core, RequestInv
  <2> HIDE DEF j, asOf
  <2>3. CASE i = j
    <3>1. events'[i].state = "archived"
      BY <1>0, <2>1, <2>2, <2>3 DEF EventRow
    <3>2. occurrences'[i] = Before(occurrences[i], asOf)
      BY <1>0, <2>1, <2>3
    <3> QED
      BY <2>1, <2>2, <3>1, <3>2 DEF Withdrawn
  <2>4. CASE i # j
    BY <1>0, <2>1, <2>2, <2>4 DEF Still
  <2> QED
    BY <2>3, <2>4
<1>4. ASSUME NEW j \in Event, EnsureEvent(j)
      PROVE  Still(i) \/ Ensured(i)
  <2>1. /\ today' = today /\ UNCHANGED <<events, revived, savedOn>>
        /\ listed[j].state = "active" /\ CanGenerate(WindowAsRead(listed[j].form))
        /\ occurrences' = [occurrences EXCEPT
                             ![j] = Inserted(@, WindowAsRead(listed[j].form))]
        /\ outdated' = IF listed[j] # events[j] THEN outdated \cup {j} ELSE outdated
    BY <1>4 DEF EnsureEvent, IsNext, Core, ListedInv
  <2>2. CASE i = j
    <3>1. occurrences'[i] = Inserted(occurrences[i], WindowAsRead(listed[i].form))
      BY <1>0, <2>1, <2>2
    <3> QED
      BY <2>1, <2>2, <3>1 DEF Ensured
  <2>3. CASE i # j
    BY <1>0, <2>1, <2>3 DEF Still
  <2> QED
    BY <2>2, <2>3
<1>5. CASE \/ \E k \in Client, j \in Event : BeginUpdateEvent(k, j) \/ BeginDeactivateEvent(k, j)
           \/ \E k \in Client : Abandon(k)
           \/ Start \/ MidnightTimer \/ ListEvents \/ RunSucceeds
           \/ \E j \in Event : RunIsRefused(j)
           \/ RunBreaks \/ Crash \/ NextDay \/ UNCHANGED vars
  <2>1. UNCHANGED <<events, occurrences, savedOn, outdated, revived>> /\ today' \in {today, today + 1}
    BY <1>5 DEF BeginUpdateEvent, BeginDeactivateEvent, Begin, Abandon, Start, MidnightTimer,
                ListEvents, RunSucceeds, RunIsRefused, RunBreaks, RunEnds, Crash, NextDay,
                vars, data, history
  <2> QED
    BY <2>1 DEF Still
<1> QED
  BY <1>1, <1>2, <1>3, <1>4, <1>5 DEF Next

\* The rows keep their types, and an event that is absent has none.
LEMMA RowsKeepTypes ==
  ASSUME Core, [Next]_vars
  PROVE  /\ occurrences' \in [Event -> SUBSET Occurrence]
         /\ \A i \in Event : \A r \in occurrences'[i] : Accepted(r)
         /\ AbsentInv'
<1>0. /\ TypeOK /\ today \in Nat /\ Form \subseteq EventForm
      /\ occurrences \in [Event -> SUBSET Occurrence]
      /\ \A i \in Event : \A r \in occurrences[i] : Accepted(r)
      /\ \A i \in Event : listed[i].form \in EventForm
  BY EventsAssumption DEF Core, TypeOK, EventRow
<1>1. ASSUME NEW i \in Event
      PROVE  /\ occurrences'[i] \in SUBSET Occurrence
             /\ \A r \in occurrences'[i] : Accepted(r)
             /\ events'[i].state = "absent" => occurrences'[i] = {}
  <2>1. CASE Still(i)
    BY <1>0, <2>1 DEF Still, Core, AbsentInv
  <2>2. CASE SavedAs(i)
    <3>1. PICK asOf \in {today - 1, today}, form \in Form :
            /\ CanGenerate(Window(form))
            /\ occurrences'[i] = Inserted(Before(occurrences[i], asOf), Window(form))
      BY <2>2 DEF SavedAs
    <3>2. events'[i].state # "absent"
      BY <2>2 DEF SavedAs
    <3>3. Window(form) \in SUBSET Occurrence /\ \A r \in Window(form) : Accepted(r)
      BY <1>0, <3>1, WindowRows
    <3>4. Before(occurrences[i], asOf) \subseteq occurrences[i]
      BY DEF Before
    <3> QED
      BY <1>0, <3>1, <3>2, <3>3, <3>4, InsertedRows
  <2>3. CASE Withdrawn(i)
    BY <1>0, <2>3 DEF Withdrawn, Before
  <2>4. CASE Ensured(i)
    <3> DEFINE new == WindowAsRead(listed[i].form)
    <3>1. /\ CanGenerate(new) /\ occurrences'[i] = Inserted(occurrences[i], new)
          /\ events'[i].state # "absent"
      BY <2>4 DEF Ensured, Core, ListedInv
    <3>2. new \in SUBSET Occurrence /\ \A r \in new : Accepted(r)
      BY <1>0, <3>1, WindowRows
    <3> HIDE DEF new
    <3> QED
      BY <1>0, <3>1, <3>2, InsertedRows
  <2> QED
    BY <2>1, <2>2, <2>3, <2>4, StepOfRows
<1>2. occurrences' = [i \in Event |-> occurrences'[i]]
  BY <1>0 DEF Next, vars, data, CreateEvent, FinishUpdateEvent, FinishDeactivateEvent,
    BeginUpdateEvent, BeginDeactivateEvent, Begin, Abandon, Start, MidnightTimer, ListEvents,
    EnsureEvent, RunSucceeds, RunIsRefused, RunBreaks, RunEnds, Crash, NextDay
<1>3. occurrences' \in [Event -> SUBSET Occurrence]
  BY <1>1, <1>2
<1> QED
  BY <1>1, <1>3 DEF AbsentInv

\* The types of what is not a row.
TypeRest ==
  /\ today \in Nat
  /\ events \in [Event -> EventRow]
  /\ requests \in [Client -> Request]
  /\ phase \in {"down", "starting", "waiting", "maintaining"}
  /\ wake \in Nat
  /\ listed \in [Event -> EventRow]
  /\ run \in {"chores", "events", "ok", "failed"}
  /\ outdated \cup revived \cup reached \subseteq Event
  /\ savedOn \in [Event -> Nat]

Rest == TypeRest /\ RequestInv /\ ProcessInv /\ ListedInv

LEMMA CoreIsRest ==
  ASSUME Core
  PROVE  Rest
BY DEF Core, Rest, TypeOK, TypeRest

LEMMA IdleType == Idle \in Request /\ Idle.op = "none"
BY DEF Idle, Request

LEMMA NoEventType == NoEvent \in EventRow /\ NoEvent.state = "absent"
<1>1. NoForm.rule \in EventRule
  BY DEF NoForm, EventRule, EventRuleType, RuleType
<1>2. NoForm \in EventForm
  BY <1>1 DEF NoForm, EventForm, NoTime, NoEnd
<1> QED
  BY <1>2 DEF NoEvent, EventRow, RowState

LEMMA FinishedRequests ==
  ASSUME Rest, NEW k \in Client, Finish(k)
  PROVE  /\ requests' \in [Client -> Request]
         /\ \A j \in Client : requests'[j].op # "none" => requests'[j] = requests[j]
<1>1. requests' = [requests EXCEPT ![k] = Idle]
  BY DEF Finish
<1> QED
  BY <1>1, IdleType DEF Rest, TypeRest

LEMMA CreateEventStep ==
  ASSUME Rest, NEW i \in Event, NEW form \in Form, CreateEvent(i, form)
  PROVE  Rest'
<1>1. /\ Serving /\ events[i].state = "absent"
      /\ events' = [events EXCEPT ![i] = [state |-> "active", form |-> form]]
      /\ Saved(i)
      /\ UNCHANGED <<today, requests, phase, wake, listed, run, revived>>
  BY DEF CreateEvent, process
<1>2. form \in EventForm
  BY EventsAssumption
<1>3. [state |-> "active", form |-> form] \in EventRow
  BY <1>2 DEF EventRow, RowState
<1>4. TypeRest'
  BY <1>1, <1>3 DEF Rest, TypeRest, Saved
<1>5. events \in [Event -> EventRow]
  BY DEF Rest, TypeRest
<1>6. events'[i].state = "active" /\ \A j \in Event \ {i} : events'[j] = events[j]
  BY <1>1, <1>5
<1>7. RequestInv'
  BY <1>1, <1>6 DEF Rest, RequestInv
<1>8. ProcessInv'
  BY <1>1 DEF Rest, ProcessInv, Maintaining
<1>9. ListedInv'
  BY <1>1, <1>6 DEF Rest, ListedInv, Saved, Active
<1> QED
  BY <1>4, <1>7, <1>8, <1>9 DEF Rest

LEMMA FinishUpdateEventStep ==
  ASSUME Rest, NEW k \in Client, NEW form \in Form, FinishUpdateEvent(k, form)
  PROVE  Rest'
<1> DEFINE i == requests[k].id
<1>1. /\ requests[k].op = "update" /\ Finish(k) /\ Saved(i)
      /\ events' = [events EXCEPT ![i].form = form]
      /\ revived' = IF Active(i) THEN revived ELSE revived \cup {i}
      /\ UNCHANGED <<today, phase, wake, listed, run>>
  BY DEF FinishUpdateEvent, process
<1>2. i \in Event /\ events[i].state # "absent" /\ form \in EventForm
  BY <1>1, EventsAssumption DEF Rest, RequestInv
<1> HIDE DEF i
<1>3. events \in [Event -> EventRow]
  BY DEF Rest, TypeRest
<1>4. /\ events' \in [Event -> EventRow]
      /\ \A j \in Event : events'[j].state = events[j].state
      /\ \A j \in Event \ {i} : events'[j] = events[j]
  BY <1>1, <1>2, <1>3 DEF EventRow
<1>5. /\ requests' \in [Client -> Request]
      /\ \A j \in Client : requests'[j].op # "none" => requests'[j] = requests[j]
  BY <1>1, FinishedRequests
<1>6. TypeRest'
  BY <1>1, <1>2, <1>4, <1>5 DEF Rest, TypeRest, Saved
<1>7. RequestInv'
  BY <1>1, <1>4, <1>5 DEF Rest, RequestInv
<1>8. ProcessInv'
  BY <1>1 DEF Rest, ProcessInv, Maintaining
<1>9. ListedInv'
  <2> SUFFICES ASSUME NEW j \in Event, listed[j].state # "absent"
               PROVE  /\ run = "events" /\ listed[j].state = "active"
                      /\ events'[j].state # "absent"
                      /\ events'[j].state = "active" /\ j \notin reached' =>
                           listed[j] = events'[j]
    BY <1>1 DEF ListedInv, Active
  <2>1. /\ run = "events" /\ listed[j].state = "active" /\ events[j].state # "absent"
        /\ events[j].state = "active" /\ j \notin reached => listed[j] = events[j]
    BY DEF Rest, ListedInv, Active
  <2>2. reached' = reached \cup {i}
    BY <1>1, <2>1 DEF Saved
  <2> QED
    BY <1>4, <2>1, <2>2
<1> QED
  BY <1>6, <1>7, <1>8, <1>9 DEF Rest

LEMMA FinishDeactivateEventStep ==
  ASSUME Rest, NEW k \in Client, FinishDeactivateEvent(k)
  PROVE  Rest'
<1> DEFINE i == requests[k].id
<1>1. /\ requests[k].op = "archive" /\ Finish(k)
      /\ events' = [events EXCEPT ![i].state = "archived"]
      /\ outdated' = outdated \ {i} /\ reached' = reached \ {i}
      /\ savedOn' = [savedOn EXCEPT ![i] = 0]
      /\ UNCHANGED <<today, phase, wake, listed, run, revived>>
  BY DEF FinishDeactivateEvent, process
<1>2. i \in Event
  BY <1>1 DEF Rest, RequestInv
<1> HIDE DEF i
<1>3. events \in [Event -> EventRow] /\ savedOn \in [Event -> Nat]
  BY DEF Rest, TypeRest
<1>4. /\ events' \in [Event -> EventRow] /\ events'[i].state = "archived"
      /\ \A j \in Event \ {i} : events'[j] = events[j]
  BY <1>1, <1>2, <1>3 DEF EventRow, RowState
<1>5. /\ requests' \in [Client -> Request]
      /\ \A j \in Client : requests'[j].op # "none" => requests'[j] = requests[j]
  BY <1>1, FinishedRequests
<1>6. TypeRest'
  <2>1. savedOn' \in [Event -> Nat]
    BY <1>1, <1>3
  <2> QED
    BY <1>1, <1>4, <1>5, <2>1 DEF Rest, TypeRest
<1>7. RequestInv'
  BY <1>1, <1>4, <1>5 DEF Rest, RequestInv
<1>8. ProcessInv'
  BY <1>1 DEF Rest, ProcessInv, Maintaining
<1>9. ListedInv'
  BY <1>1, <1>4 DEF Rest, ListedInv, Active
<1> QED
  BY <1>6, <1>7, <1>8, <1>9 DEF Rest

LEMMA BeginStep ==
  ASSUME Rest, NEW k \in Client, NEW op \in {"archive", "update"}, NEW i \in Event,
         Begin(k, op, i)
  PROVE  Rest'
<1>1. PICK request : request = [op |-> op, id |-> i, asOf |-> today]
  OBVIOUS
<1>2. /\ requests' = [requests EXCEPT ![k] = request] /\ events[i].state # "absent"
      /\ UNCHANGED <<today, events, phase, wake, listed, run, outdated, revived, reached,
                     savedOn>>
  BY <1>1 DEF Begin, Offered, data, process, history
<1>3. /\ request \in Request /\ request.op = op /\ request.id = i /\ request.asOf = today
      /\ today \in Nat
  BY <1>1 DEF Request, Event, Rest, TypeRest
<1>4. TypeRest'
  BY <1>2, <1>3 DEF Rest, TypeRest
<1>5. RequestInv'
  BY <1>2, <1>3 DEF Rest, RequestInv, TypeRest
<1>6. ProcessInv' /\ ListedInv'
  BY <1>2 DEF Rest, ProcessInv, Maintaining, ListedInv, Active
<1> QED
  BY <1>4, <1>5, <1>6 DEF Rest

LEMMA AbandonStep ==
  ASSUME Rest, NEW k \in Client, Abandon(k)
  PROVE  Rest'
<1>1. /\ Finish(k)
      /\ UNCHANGED <<today, events, phase, wake, listed, run, outdated, revived, reached,
                     savedOn>>
  BY DEF Abandon, data, process, history
<1>2. /\ requests' \in [Client -> Request]
      /\ \A j \in Client : requests'[j].op # "none" => requests'[j] = requests[j]
  BY <1>1, FinishedRequests
<1> QED
  BY <1>1, <1>2 DEF Rest, TypeRest, RequestInv, ProcessInv, Maintaining, ListedInv, Active

LEMMA RunBeginsStep ==
  ASSUME Rest, Start \/ MidnightTimer
  PROVE  Rest'
<1>1. /\ run \notin {"chores", "events"}
      /\ phase' \in {"starting", "maintaining"} /\ run' = "chores" /\ wake' = today
      /\ reached' = {}
      /\ UNCHANGED <<today, events, requests, listed, outdated, revived, savedOn>>
  BY DEF Start, MidnightTimer, data, Rest, ProcessInv, Maintaining
<1>2. TypeRest' /\ RequestInv'
  BY <1>1 DEF Rest, TypeRest, RequestInv
<1>3. ProcessInv'
  BY <1>1 DEF ProcessInv, Maintaining, Rest, TypeRest
<1>4. ListedInv'
  BY <1>1 DEF Rest, ListedInv
<1> QED
  BY <1>2, <1>3, <1>4 DEF Rest

LEMMA ListEventsStep ==
  ASSUME Rest, ListEvents
  PROVE  Rest'
<1>1. /\ Maintaining /\ run' = "events"
      /\ listed' = [i \in Event |-> IF Active(i) THEN events[i] ELSE NoEvent]
      /\ UNCHANGED <<today, events, requests, phase, wake, outdated, revived, reached,
                     savedOn>>
  BY DEF ListEvents, data, history
<1>2. \A i \in Event : /\ listed'[i].state # "absent" => Active(i) /\ listed'[i] = events[i]
                       /\ listed'[i] \in EventRow
  BY <1>1, NoEventType DEF Rest, TypeRest
<1>3. TypeRest'
  BY <1>1, <1>2 DEF Rest, TypeRest
<1>4. RequestInv' /\ ProcessInv'
  BY <1>1 DEF Rest, RequestInv, ProcessInv, Maintaining
<1>5. ListedInv'
  BY <1>1, <1>2 DEF ListedInv, Active
<1> QED
  BY <1>3, <1>4, <1>5 DEF Rest

LEMMA EnsureEventStep ==
  ASSUME Rest, NEW i \in Event, EnsureEvent(i)
  PROVE  Rest'
<1>1. /\ run = "events"
      /\ listed' = [listed EXCEPT ![i] = NoEvent]
      /\ outdated' \subseteq outdated \cup {i}
      /\ reached' = reached \cup (IF Active(i) THEN {i} ELSE {})
      /\ UNCHANGED <<today, events, requests, phase, wake, run, revived, savedOn>>
  BY DEF EnsureEvent, IsNext
<1>2. \A j \in Event : listed'[j].state # "absent" => listed'[j] = listed[j]
  BY <1>1, NoEventType DEF Rest, TypeRest
<1>3. TypeRest'
  BY <1>1, NoEventType DEF Rest, TypeRest
<1>4. RequestInv' /\ ProcessInv'
  BY <1>1 DEF Rest, RequestInv, ProcessInv, Maintaining
<1>5. ListedInv'
  BY <1>1, <1>2 DEF Rest, ListedInv, Active
<1> QED
  BY <1>3, <1>4, <1>5 DEF Rest

LEMMA RunEndsStep ==
  ASSUME Rest, NEW how \in {"ok", "failed"}, RunEnds(how)
  PROVE  Rest'
<1>1. /\ run' = how /\ listed' = [i \in Event |-> NoEvent]
      /\ phase' = "waiting" /\ wake' = today + 1
      /\ reached' \subseteq reached
      /\ UNCHANGED <<today, events, requests, outdated, revived, savedOn>>
  BY DEF RunEnds, data
<1>2. TypeRest'
  BY <1>1, NoEventType DEF Rest, TypeRest
<1>3. RequestInv'
  BY <1>1 DEF Rest, RequestInv
<1>4. ProcessInv'
  BY <1>1 DEF ProcessInv, Maintaining, Rest, TypeRest
<1>5. ListedInv'
  BY <1>1, NoEventType DEF ListedInv
<1> QED
  BY <1>2, <1>3, <1>4, <1>5 DEF Rest

LEMMA CrashStep ==
  ASSUME Rest, Crash
  PROVE  Rest'
<1>1. /\ run' = "ok" /\ listed' = [i \in Event |-> NoEvent]
      /\ phase' = "down" /\ wake' = 0 /\ requests' = [k \in Client |-> Idle]
      /\ reached' = {}
      /\ UNCHANGED <<today, events, outdated, revived, savedOn>>
  BY DEF Crash, data
<1>2. TypeRest'
  BY <1>1, NoEventType, IdleType DEF Rest, TypeRest
<1>3. RequestInv' /\ ProcessInv' /\ ListedInv'
  BY <1>1, NoEventType, IdleType DEF RequestInv, ProcessInv, Maintaining, ListedInv
<1> QED
  BY <1>2, <1>3 DEF Rest

LEMMA NextDayStep ==
  ASSUME Rest, NextDay
  PROVE  Rest'
<1>1. /\ \A k \in Client : requests[k] # Idle => requests[k].asOf = today
      /\ Maintaining => wake = today
      /\ today' = today + 1 /\ today \in Nat
      /\ UNCHANGED <<events, requests, phase, wake, listed, run, outdated, revived,
                     reached, savedOn>>
  BY DEF NextDay, data, process, history, Rest, TypeRest
<1>2. TypeRest' /\ ListedInv'
  BY <1>1 DEF Rest, TypeRest, ListedInv, Active
<1>3. RequestInv'
  <2>1. \A k \in Client : requests[k].op # "none" => requests[k].asOf = today
    BY <1>1, IdleType
  <2> QED
    BY <1>1, <2>1 DEF Rest, RequestInv
<1>4. ProcessInv'
  BY <1>1 DEF Rest, ProcessInv, Maintaining, TypeRest
<1> QED
  BY <1>2, <1>3, <1>4 DEF Rest

LEMMA CoreInit == Init => Core
<1> SUFFICES ASSUME Init PROVE Core
  OBVIOUS
<1>1. TypeOK /\ RequestInv /\ ListedInv /\ AbsentInv
  BY NoEventType, IdleType DEF Init, TypeOK, RequestInv, ListedInv, AbsentInv
<1>2. ProcessInv
  BY DEF Init, ProcessInv, Maintaining
<1> QED
  BY <1>1, <1>2 DEF Core

LEMMA CoreNext == Core /\ [Next]_vars => Core'
<1> SUFFICES ASSUME Core, [Next]_vars PROVE Core'
  OBVIOUS
<1>1. Rest
  BY CoreIsRest
<1>2. Rest'
  <2>1. CASE \E i \in Event, form \in Form : CreateEvent(i, form)
    BY <1>1, <2>1, CreateEventStep
  <2>2. CASE \E k \in Client, i \in Event : BeginUpdateEvent(k, i) \/ BeginDeactivateEvent(k, i)
    BY <1>1, <2>2, BeginStep DEF BeginUpdateEvent, BeginDeactivateEvent
  <2>3. CASE \E k \in Client, form \in Form : FinishUpdateEvent(k, form)
    BY <1>1, <2>3, FinishUpdateEventStep
  <2>4. CASE \E k \in Client : FinishDeactivateEvent(k) \/ Abandon(k)
    BY <1>1, <2>4, FinishDeactivateEventStep, AbandonStep
  <2>5. CASE Start \/ MidnightTimer \/ ListEvents
    BY <1>1, <2>5, RunBeginsStep, ListEventsStep
  <2>6. CASE \E i \in Event : EnsureEvent(i)
    BY <1>1, <2>6, EnsureEventStep
  <2>7. CASE RunSucceeds \/ (\E i \in Event : RunIsRefused(i)) \/ RunBreaks
    BY <1>1, <2>7, RunEndsStep DEF RunSucceeds, RunIsRefused, RunBreaks
  <2>8. CASE Crash \/ NextDay
    BY <1>1, <2>8, CrashStep, NextDayStep
  <2>9. CASE UNCHANGED vars
    BY <1>1, <2>9 DEF vars, data, process, history, Rest, TypeRest, RequestInv, ProcessInv,
                      Maintaining, ListedInv, Active
  <2> QED
    BY <2>1, <2>2, <2>3, <2>4, <2>5, <2>6, <2>7, <2>8, <2>9 DEF Next
<1> QED
  BY <1>2, RowsKeepTypes DEF Core, Rest, TypeRest, TypeOK

LEMMA CoreInvariance == Spec => []Core
BY CoreInit, CoreNext, PTL DEF Spec


\* Every variable of the events keeps its type, and every row passes the table's CHECKs.
THEOREM EventTypes == Spec => []TypeOK
<1>1. Core => TypeOK
  BY DEF Core
<1> QED
  BY <1>1, CoreInvariance, PTL

-----------------------------------------------------------------------------
(* What is planned is what the event says. *)

\* What is planned of a form on a day.
PlannedOn(form, day) == {OccurrenceOn(form, d) : d \in Dates(form, day, day + Horizon)}

\* A row planned of a form yesterday is one planned of it today, unless its day is over.
LEMMA PlannedStays ==
  ASSUME NEW form, NEW day \in Nat, NEW next \in {day, day + 1},
         NEW r \in PlannedOn(form, day), r.start >= next
  PROVE  r \in PlannedOn(form, next)
<1>1. PICK d \in Dates(form, day, day + Horizon) : r = OccurrenceOn(form, d)
  BY DEF PlannedOn
<1>2. d \in day..(day + Horizon) /\ r.start = d
  BY <1>1, DatesOfWindow, StartOfOccurrence, HorizonType
<1>3. d \in next..(next + Horizon) /\ next \in Int /\ next + Horizon \in Int
  BY <1>2, HorizonType
<1>4. d \in Dates(form, next, next + Horizon)
  BY <1>1, <1>3, DatesOfWindow, HorizonType
<1> QED
  BY <1>1, <1>4 DEF PlannedOn

\* The rows from today on of one event that no run planned from an outdated copy.
Told(i) ==
  i \notin outdated =>
    \A r \in occurrences[i] :
      r.start >= today =>
        /\ r \in PlannedOn(events[i].form, today)
        /\ events[i].state = "active" \/ i \in revived

LEMMA ToldIsPlannedAsTold == PlannedAsTold <=> \A i \in Event : Told(i)
BY DEF PlannedAsTold, Told, Window, PlannedOn, Active

LEMMA ToldNext ==
  ASSUME Core, [Next]_vars, NEW i \in Event, Told(i)
  PROVE  Told(i)'
<1>0. /\ TypeOK /\ today \in Nat
      /\ \A r \in occurrences[i] : r.start \in Nat
      /\ listed[i].form \in EventForm
  BY DEF Core, TypeOK, Occurrence, EventRow
<1> SUFFICES ASSUME i \notin outdated', NEW r \in occurrences'[i], r.start >= today'
             PROVE  /\ r \in PlannedOn(events'[i].form, today')
                    /\ events'[i].state = "active" \/ i \in revived'
  BY DEF Told
<1>1. CASE Still(i)
  <2>1. /\ r \in occurrences[i] /\ i \notin outdated /\ today' \in {today, today + 1}
        /\ events'[i] = events[i] /\ (i \in revived => i \in revived')
    BY <1>1 DEF Still
  <2>2. r.start >= today
    BY <1>0, <2>1
  <2>3. r \in PlannedOn(events[i].form, today) /\ (events[i].state = "active" \/ i \in revived)
    BY <2>1, <2>2 DEF Told
  <2> QED
    BY <1>0, <2>1, <2>3, PlannedStays
<1>2. CASE SavedAs(i)
  <2>1. PICK asOf \in {today - 1, today}, form \in Form :
          /\ events'[i].form = form
          /\ occurrences'[i] = Inserted(Before(occurrences[i], asOf), Window(form))
    BY <1>2 DEF SavedAs
  <2>2. today' = today /\ (events'[i].state = "active" \/ i \in revived')
    BY <1>2 DEF SavedAs, Active
  <2>3. r \notin Before(occurrences[i], asOf)
    BY <1>0, <2>1, <2>2 DEF Before
  <2>4. r \in Window(form)
    BY <2>1, <2>3, InsertedRows
  <2> QED
    BY <2>1, <2>2, <2>4 DEF Window, PlannedOn
<1>3. CASE Withdrawn(i)
  <2>1. PICK asOf \in {today - 1, today} : occurrences'[i] = Before(occurrences[i], asOf)
    BY <1>3 DEF Withdrawn
  <2>2. r \in occurrences[i] /\ r.start < asOf
    BY <2>1 DEF Before
  <2>3. today' = today
    BY <1>3 DEF Withdrawn
  <2> QED
    BY <1>0, <2>1, <2>2, <2>3
<1>4. CASE Ensured(i)
  <2>1. /\ today' = today /\ events' = events /\ revived' = revived
        /\ i \notin outdated /\ listed[i] = events[i] /\ listed[i].state = "active"
        /\ occurrences'[i] = Inserted(occurrences[i], WindowAsRead(events[i].form))
    BY <1>4 DEF Ensured
  <2>2. CASE r \in occurrences[i]
    BY <2>1, <2>2 DEF Told
  <2>3. CASE r \in WindowAsRead(events[i].form)
    <3>1. WindowAsRead(events[i].form) \subseteq PlannedOn(events[i].form, today)
      BY <1>0, DatesOfWindow, HorizonType DEF WindowAsRead, PlannedOn
    <3> QED
      BY <2>1, <2>3, <3>1
  <2> QED
    BY <2>1, <2>2, <2>3, InsertedRows
<1> QED
  BY <1>1, <1>2, <1>3, <1>4, StepOfRows

\* Every row from today on is the event as it is now, and of an event that is active or
\* was edited since it was archived (UpdateEvent, DeactivateEvent, EnsureEventHorizon).
THEOREM EventsPlannedAsTold == Spec => []PlannedAsTold
<1>1. Init => PlannedAsTold
  BY DEF Init, PlannedAsTold
<1>2. Core /\ [Next]_vars /\ PlannedAsTold => PlannedAsTold'
  <2> SUFFICES ASSUME Core, [Next]_vars, PlannedAsTold
               PROVE  \A i \in Event : Told(i)'
    BY DEF PlannedAsTold, Told, Window, PlannedOn, Active
  <2> QED
    BY ToldIsPlannedAsTold, ToldNext
<1> QED
  BY <1>1, <1>2, CoreInvariance, PTL DEF Spec

-----------------------------------------------------------------------------
(* What was saved is on the agenda when its day comes. *)

\* An active event has a row, as it was saved, for each of its dates of the horizon of the
\* day it was saved.
Kept(i) ==
  Active(i) =>
    \A d \in Dates(events[i].form, savedOn[i], savedOn[i] + Horizon) :
      OccurrenceOn(events[i].form, d) \in occurrences[i]

SavedInv == \A i \in Event : Kept(i)

LEMMA KeptNext ==
  ASSUME Core, [Next]_vars, NEW i \in Event, Kept(i)
  PROVE  Kept(i)'
<1>0. today \in Nat /\ \A r \in occurrences[i] : r.start \in Nat
  BY DEF Core, TypeOK, Occurrence
<1> SUFFICES ASSUME events'[i].state = "active",
                    NEW d \in Dates(events'[i].form, savedOn'[i], savedOn'[i] + Horizon)
             PROVE  OccurrenceOn(events'[i].form, d) \in occurrences'[i]
  BY DEF Kept, Active
<1>1. CASE Still(i)
  BY <1>1 DEF Still, Kept, Active
<1>2. CASE SavedAs(i)
  <2>1. PICK asOf \in {today - 1, today}, form \in Form :
          /\ events'[i].form = form
          /\ occurrences'[i] = Inserted(Before(occurrences[i], asOf), Window(form))
    BY <1>2 DEF SavedAs
  <2>2. d \in Dates(form, today, today + Horizon)
    BY <1>2, <2>1 DEF SavedAs
  <2> DEFINE r == OccurrenceOn(form, d)
  <2>3. r \in Window(form)
    BY <2>2 DEF Window
  <2>4. r.start = d /\ d \in Int /\ d >= today
    BY <1>0, <2>2, DatesOfWindow, HorizonType, StartOfOccurrence
  <2> HIDE DEF r
  <2>5. \A q \in Before(occurrences[i], asOf) : q.start # r.start
    BY <1>0, <2>1, <2>4 DEF Before
  <2>6. r \in occurrences'[i]
    BY <2>1, <2>3, <2>5, InsertedRows
  <2> QED
    BY <2>1, <2>6 DEF r
<1>3. CASE Withdrawn(i)
  BY <1>3 DEF Withdrawn
<1>4. CASE Ensured(i)
  <2>1. events' = events /\ savedOn' = savedOn /\ occurrences[i] \subseteq occurrences'[i]
    BY <1>4, InsertedRows DEF Ensured
  <2> QED
    BY <2>1 DEF Kept, Active
<1> QED
  BY <1>1, <1>2, <1>3, <1>4, StepOfRows

LEMMA SavedInvariance == Spec => []SavedInv
<1>1. Init => SavedInv
  BY DEF Init, SavedInv, Kept, Active, NoEvent
<1>2. Core /\ [Next]_vars /\ SavedInv => SavedInv'
  <2> SUFFICES ASSUME Core, [Next]_vars, SavedInv PROVE \A i \in Event : Kept(i)'
    BY DEF SavedInv
  <2> QED
    BY KeptNext DEF SavedInv
<1> QED
  BY <1>1, <1>2, CoreInvariance, PTL DEF Spec

\* On its day, and on every later day it lasts, an occurrence of an event saved before is on
\* the agenda: no run, restart or overlapping request loses it (generateEvent).
THEOREM SavedIsShown == Spec => []AgendaShowsWhatWasSaved
<1>1. Core /\ SavedInv => AgendaShowsWhatWasSaved
  <2> SUFFICES ASSUME Core, SavedInv, NEW i \in Event, Active(i),
                      NEW d \in Dates(events[i].form, savedOn[i], savedOn[i] + Horizon),
                      d <= today, today < OccurrenceOn(events[i].form, d).end
               PROVE  <<i, OccurrenceOn(events[i].form, d)>> \in DailyAgenda(today)
    BY DEF AgendaShowsWhatWasSaved
  <2> DEFINE r == OccurrenceOn(events[i].form, d)
  <2>1. today \in Int
    BY DEF Core, TypeOK
  <2>2. r \in occurrences[i]
    BY DEF SavedInv, Kept
  <2>3. r.start <= today
    BY StartOfOccurrence
  <2>4. r.end > today
    <3> HIDE DEF r
    <3>1. r.end \in Nat
      BY <2>2 DEF Core, TypeOK, Occurrence
    <3> QED
      BY <2>1, <3>1 DEF r
  <2> HIDE DEF r
  <2>5. <<i, r>> \in DailyAgenda(today)
    BY <2>2, <2>3, <2>4 DEF DailyAgenda, ListScheduled
  <2> QED
    BY <2>5 DEF r
<1> QED
  BY <1>1, CoreInvariance, SavedInvariance, PTL

-----------------------------------------------------------------------------
(* Active events stay planned a horizon ahead. *)

\* The rows there are on "day" of a form fill its dates up to "through".
Filled(form, rows, day, through) ==
  DatesAsRead(form, day, through) \subseteq {r.start : r \in rows}

LEMMA FilledStays ==
  ASSUME NEW form, NEW rows, NEW day \in Int, NEW through \in Int,
         Filled(form, rows, day, through),
         NEW more, rows \subseteq more, NEW next \in Int, next >= day,
         NEW until \in Int, until <= through
  PROVE  Filled(form, more, next, until)
<1> SUFFICES ASSUME NEW d \in DatesAsRead(form, next, until)
             PROVE  d \in {r.start : r \in more}
  BY DEF Filled
<1>1. d \in next..until
  BY DatesOfWindow
<1>2. d \in day..through
  BY <1>1
<1>3. d \in DatesAsRead(form, day, through)
  BY <1>2, DatesOfWindow
<1> QED
  BY <1>3 DEF Filled

\* Inserting what is planned of a form, just submitted or as read, fills the horizon.
LEMMA InsertingFills ==
  ASSUME today \in Nat, NEW form, NEW rows, NEW new \in {Window(form), WindowAsRead(form)}
  PROVE  Filled(form, Inserted(rows, new), today, today + Horizon)
<1> SUFFICES ASSUME NEW d \in DatesAsRead(form, today, today + Horizon)
             PROVE  d \in {r.start : r \in Inserted(rows, new)}
  BY DEF Filled
<1>1. d \in Dates(form, today, today + Horizon)
  BY DatesOfWindow, HorizonType
<1>2. OccurrenceOn(form, d) \in new /\ OccurrenceOn(form, d).start = d
  BY <1>1, StartOfOccurrence DEF Window, WindowAsRead
<1> QED
  BY <1>2, InsertedRows

\* HorizonFilled of one event.
HorizonOf(i) ==
  events[i].state = "active" =>
    /\ run = "events" => i \in reached \/ listed[i].state # "absent"
    /\ Maintaining /\ i \in reached =>
         Filled(events[i].form, occurrences[i], today, wake + Horizon)
    /\ phase = "waiting" /\ (run = "ok" \/ i \in reached) =>
         Filled(events[i].form, occurrences[i], today, wake - 2 + Horizon)

LEMMA HorizonByEvent == HorizonFilled <=> \A i \in Event : HorizonOf(i)
BY DEF HorizonFilled, HorizonOf, FilledThrough, Filled, Active

LEMMA HorizonByEventNext == HorizonFilled' <=> \A i \in Event : HorizonOf(i)'
BY DEF HorizonFilled, HorizonOf, FilledThrough, Filled, Active

\* An event whose horizon was just filled has what HorizonOf asks for.
LEMMA FilledToday ==
  ASSUME TypeOK, ProcessInv, NEW i \in Event,
         UNCHANGED <<today, phase, wake, run>>,
         run = "events" => i \in reached' \/ listed'[i].state # "absent",
         Filled(events'[i].form, occurrences'[i], today, today + Horizon)
  PROVE  HorizonOf(i)'
<1>1. today \in Nat /\ wake \in Nat /\ Horizon \in Nat
  BY HorizonType DEF TypeOK
<1>2. Maintaining => wake + Horizon <= today + Horizon
  BY <1>1 DEF ProcessInv
<1>3. phase = "waiting" => wake - 2 + Horizon <= today + Horizon
  BY <1>1 DEF ProcessInv
<1>4. \A until \in Int : until <= today + Horizon =>
        Filled(events'[i].form, occurrences'[i], today, until)
  BY <1>1, FilledStays
<1> QED
  BY <1>1, <1>2, <1>3, <1>4 DEF HorizonOf, Maintaining

\* Where a step leaves an event as it is and takes none of its rows, what was filled
\* remains so.
LEMMA RowStays ==
  ASSUME TypeOK, NEW i \in Event, events'[i] = events[i],
         occurrences[i] \subseteq occurrences'[i], today' \in {today, today + 1}
  PROVE  \A through, until \in Int :
           Filled(events[i].form, occurrences[i], today, through) /\ until <= through =>
             Filled(events'[i].form, occurrences'[i], today', until)
<1>1. today \in Int /\ today' \in Int /\ today' >= today
  BY DEF TypeOK
<1> QED
  BY <1>1, FilledStays

\* A step that leaves the process and the rows of an event alone.
LEMMA HorizonStays ==
  ASSUME TypeOK, NEW i \in Event, HorizonOf(i),
         UNCHANGED <<phase, wake, listed, run>>,
         events'[i] = events[i], occurrences[i] \subseteq occurrences'[i],
         today' \in {today, today + 1}, i \in reached' <=> i \in reached
  PROVE  HorizonOf(i)'
<1>1. wake + Horizon \in Int /\ wake - 2 + Horizon \in Int
  BY HorizonType DEF TypeOK
<1>2. Maintaining' <=> Maintaining
  BY DEF Maintaining
<1>3. \A through \in Int :
        Filled(events[i].form, occurrences[i], today, through) =>
          Filled(events'[i].form, occurrences'[i], today', through)
  BY RowStays
<1> QED
  BY <1>1, <1>2, <1>3 DEF HorizonOf

LEMMA HorizonNextSaved ==
  ASSUME Core, NEW i \in Event, HorizonOf(i),
         \/ \E j \in Event, form \in Form : CreateEvent(j, form)
         \/ \E k \in Client, form \in Form : FinishUpdateEvent(k, form)
  PROVE  HorizonOf(i)'
<1>0. /\ TypeOK /\ ProcessInv /\ today \in Nat
      /\ events \in [Event -> EventRow] /\ occurrences \in [Event -> SUBSET Occurrence]
  BY DEF Core, TypeOK
<1>1. PICK j \in Event, form \in Form :
        /\ UNCHANGED <<today, phase, wake, listed, run>>
        /\ reached' = IF run = "ok" THEN reached ELSE reached \cup {j}
        /\ events'[j].form = form
        /\ \E rows : occurrences' = [occurrences EXCEPT ![j] = Inserted(rows, Window(form))]
        /\ \A i2 \in Event \ {j} : events'[i2] = events[i2]
  <2>1. ASSUME NEW j \in Event, NEW form \in Form, CreateEvent(j, form)
        PROVE  /\ UNCHANGED <<today, phase, wake, listed, run>>
               /\ reached' = IF run = "ok" THEN reached ELSE reached \cup {j}
               /\ events'[j].form = form
               /\ \E rows : occurrences' =
                              [occurrences EXCEPT ![j] = Inserted(rows, Window(form))]
               /\ \A i2 \in Event \ {j} : events'[i2] = events[i2]
    <3>1. /\ UNCHANGED <<today, phase, wake, listed, run>>
          /\ reached' = IF run = "ok" THEN reached ELSE reached \cup {j}
          /\ events' = [events EXCEPT ![j] = [state |-> "active", form |-> form]]
          /\ occurrences' = [occurrences EXCEPT ![j] = Inserted({}, Window(form))]
      BY <2>1 DEF CreateEvent, Saved, process
    <3> QED
      BY <1>0, <3>1
  <2>2. ASSUME NEW k \in Client, NEW form \in Form, FinishUpdateEvent(k, form)
        PROVE  \E j \in Event :
               /\ UNCHANGED <<today, phase, wake, listed, run>>
               /\ reached' = IF run = "ok" THEN reached ELSE reached \cup {j}
               /\ events'[j].form = form
               /\ \E rows : occurrences' =
                              [occurrences EXCEPT ![j] = Inserted(rows, Window(form))]
               /\ \A i2 \in Event \ {j} : events'[i2] = events[i2]
    <3> DEFINE j == requests[k].id
               rows == Before(occurrences[j], requests[k].asOf)
    <3>1. /\ UNCHANGED <<today, phase, wake, listed, run>>
          /\ reached' = IF run = "ok" THEN reached ELSE reached \cup {j}
          /\ events' = [events EXCEPT ![j].form = form]
          /\ occurrences' = [occurrences EXCEPT ![j] = Inserted(rows, Window(form))]
          /\ requests[k].op = "update"
      BY <2>2 DEF FinishUpdateEvent, Saved, process
    <3>2. j \in Event
      BY <3>1 DEF Core, RequestInv
    <3> HIDE DEF j, rows
    <3>3. events'[j].form = form /\ \A i2 \in Event \ {j} : events'[i2] = events[i2]
      BY <1>0, <3>1, <3>2 DEF EventRow
    <3> QED
      BY <3>1, <3>2, <3>3
  <2>3. CASE \E j \in Event, form \in Form : CreateEvent(j, form)
    BY <2>1, <2>3
  <2>4. CASE \E k \in Client, form \in Form : FinishUpdateEvent(k, form)
    BY <2>2, <2>4
  <2> QED
    BY <2>3, <2>4
<1>2. CASE i = j
  <2>1. PICK rows : occurrences'[i] = Inserted(rows, Window(form))
    BY <1>0, <1>1, <1>2
  <2>2. Filled(events'[i].form, occurrences'[i], today, today + Horizon)
    BY <1>0, <1>1, <1>2, <2>1, InsertingFills
  <2>3. run = "events" => i \in reached' \/ listed'[i].state # "absent"
    BY <1>1, <1>2
  <2> QED
    BY <1>0, <1>1, <2>2, <2>3, FilledToday
<1>3. CASE i # j
  <2>1. /\ UNCHANGED <<phase, wake, listed, run>> /\ today' \in {today, today + 1}
        /\ events'[i] = events[i] /\ occurrences[i] \subseteq occurrences'[i]
        /\ i \in reached' <=> i \in reached
    BY <1>0, <1>1, <1>3
  <2> QED
    BY <1>0, <2>1, HorizonStays
<1> QED
  BY <1>2, <1>3

LEMMA HorizonNextEnsured ==
  ASSUME Core, NEW i \in Event, HorizonOf(i), NEW j \in Event, EnsureEvent(j)
  PROVE  HorizonOf(i)'
<1>0. /\ TypeOK /\ ProcessInv /\ today \in Nat
      /\ listed \in [Event -> EventRow] /\ occurrences \in [Event -> SUBSET Occurrence]
  BY DEF Core, TypeOK
<1>1. /\ run = "events" /\ UNCHANGED <<today, events, phase, wake, run>>
      /\ occurrences' = [occurrences EXCEPT
                           ![j] = Inserted(@, WindowAsRead(listed[j].form))]
      /\ listed' = [listed EXCEPT ![j] = NoEvent]
      /\ reached' = reached \cup (IF events[j].state = "active" THEN {j} ELSE {})
      /\ listed[j].state # "absent"
  BY DEF EnsureEvent, IsNext, Active
<1>2. occurrences[i] \subseteq occurrences'[i]
  BY <1>0, <1>1, InsertedRows
<1>3. CASE events[i].state # "active"
  BY <1>1, <1>3 DEF HorizonOf
<1>4. CASE events[i].state = "active" /\ i = j /\ i \notin reached
  <2>1. listed[i] = events[i]
    BY <1>1, <1>4 DEF Core, ListedInv, Active
  <2>2. occurrences'[i] = Inserted(occurrences[i], WindowAsRead(events[i].form))
    BY <1>0, <1>1, <1>4, <2>1
  <2>3. Filled(events'[i].form, occurrences'[i], today, today + Horizon)
    BY <1>0, <1>1, <2>2, InsertingFills
  <2>4. i \in reached'
    BY <1>1, <1>4
  <2> QED
    BY <1>0, <1>1, <2>3, <2>4, FilledToday
<1>5. CASE events[i].state = "active" /\ ~ (i = j /\ i \notin reached)
  <2>1. (i \in reached' <=> i \in reached) /\ (i \notin reached => listed'[i] = listed[i])
    BY <1>0, <1>1, <1>5
  <2>2. \A through \in Int :
          Filled(events[i].form, occurrences[i], today, through) =>
            Filled(events'[i].form, occurrences'[i], today', through)
    BY <1>0, <1>1, <1>2, RowStays
  <2>3. wake + Horizon \in Int /\ wake - 2 + Horizon \in Int
    BY HorizonType, <1>0 DEF TypeOK
  <2> QED
    BY <1>1, <1>5, <2>1, <2>2, <2>3 DEF HorizonOf, Maintaining
<1> QED
  BY <1>3, <1>4, <1>5

LEMMA HorizonNextRunEnds ==
  ASSUME Core, NEW i \in Event, HorizonOf(i), RunSucceeds \/ (\E j \in Event : RunIsRefused(j)) \/ RunBreaks
  PROVE  HorizonOf(i)'
<1>0. /\ TypeOK /\ today \in Nat /\ wake \in Nat /\ Horizon \in Nat
  BY HorizonType DEF Core, TypeOK
<1>1. /\ Maintaining /\ phase' = "waiting" /\ wake' = today + 1
      /\ UNCHANGED <<today, events, occurrences>>
      /\ run' \in {"ok", "failed"}
      /\ run' = "ok" => run = "events" /\ listed[i].state = "absent"
      /\ run' # "ok" => reached' = reached
      /\ run' = "ok" => reached' = {}
  BY DEF RunSucceeds, RunIsRefused, IsNext, RunBreaks, RunEnds, data, Core, ProcessInv
<1> SUFFICES ASSUME events[i].state = "active", run' = "ok" \/ i \in reached'
             PROVE  Filled(events[i].form, occurrences[i], today, today - 1 + Horizon)
  <2>1. ~ Maintaining' /\ run' # "events"
    BY <1>1 DEF Maintaining
  <2>2. HorizonOf(i)' <=>
          (events'[i].state = "active" =>
             (run' = "ok" \/ i \in reached' =>
                Filled(events'[i].form, occurrences'[i], today', wake' - 2 + Horizon)))
    BY <1>1, <2>1 DEF HorizonOf
  <2>3. wake' - 2 + Horizon = today - 1 + Horizon
    BY <1>0, <1>1
  <2> QED
    BY <1>1, <2>2, <2>3
<1>2. i \in reached
  BY <1>1 DEF HorizonOf
<1>3. Filled(events[i].form, occurrences[i], today, wake + Horizon)
  BY <1>1, <1>2 DEF HorizonOf
<1>4. wake \in {today - 1, today}
  BY <1>1 DEF Core, ProcessInv
<1>5. today - 1 + Horizon <= wake + Horizon
  BY <1>0, <1>4
<1> QED
  BY <1>0, <1>3, <1>5, FilledStays

LEMMA HorizonNext ==
  ASSUME Core, [Next]_vars, NEW i \in Event, HorizonOf(i)
  PROVE  HorizonOf(i)'
<1>0. TypeOK /\ events \in [Event -> EventRow] /\ occurrences \in [Event -> SUBSET Occurrence]
  BY DEF Core, TypeOK
<1>1. CASE \/ \E j \in Event, form \in Form : CreateEvent(j, form)
           \/ \E k \in Client, form \in Form : FinishUpdateEvent(k, form)
  BY <1>1, HorizonNextSaved
<1>2. ASSUME NEW k \in Client, FinishDeactivateEvent(k)
      PROVE  HorizonOf(i)'
  <2> DEFINE j == requests[k].id
             rows == Before(occurrences[j], requests[k].asOf)
  <2>1. /\ UNCHANGED <<today, phase, wake, listed, run>>
        /\ events' = [events EXCEPT ![j].state = "archived"]
        /\ occurrences' = [occurrences EXCEPT ![j] = rows]
        /\ reached' = reached \ {j}
    BY <1>2 DEF FinishDeactivateEvent, process
  <2> HIDE DEF j, rows
  <2>2. CASE i = j
    <3>1. events'[i].state = "archived"
      BY <1>0, <2>1, <2>2 DEF EventRow
    <3> QED
      BY <3>1 DEF HorizonOf
  <2>3. CASE i # j
    <3>1. /\ events'[i] = events[i] /\ occurrences[i] \subseteq occurrences'[i]
          /\ today' \in {today, today + 1} /\ (i \in reached' <=> i \in reached)
      BY <1>0, <2>1, <2>3
    <3> QED
      BY <1>0, <2>1, <3>1, HorizonStays
  <2> QED
    BY <2>2, <2>3
<1>3. CASE \E j \in Event : EnsureEvent(j)
  BY <1>3, HorizonNextEnsured
<1>4. CASE RunSucceeds \/ (\E j \in Event : RunIsRefused(j)) \/ RunBreaks
  BY <1>4, HorizonNextRunEnds
<1>5. CASE Start \/ MidnightTimer \/ Crash
  <2>1. reached' = {} /\ \/ phase' \in {"starting", "maintaining"} /\ run' = "chores"
                         \/ phase' = "down" /\ run' = "ok"
    BY <1>5 DEF Start, MidnightTimer, Crash
  <2> QED
    BY <2>1 DEF HorizonOf, Maintaining
<1>6. CASE ListEvents
  <2>1. /\ UNCHANGED <<today, events, occurrences, phase, wake, reached>> /\ run' = "events"
        /\ listed'[i] = IF events[i].state = "active" THEN events[i] ELSE NoEvent
        /\ Maintaining
    BY <1>6 DEF ListEvents, data, history, Active
  <2> QED
    BY <2>1 DEF HorizonOf, Maintaining
<1>7. CASE \/ \E k \in Client, j \in Event : BeginUpdateEvent(k, j) \/ BeginDeactivateEvent(k, j)
           \/ \E k \in Client : Abandon(k)
           \/ NextDay \/ UNCHANGED vars
  <2>1. /\ UNCHANGED <<events, occurrences, phase, wake, listed, run, reached>>
        /\ today' \in {today, today + 1}
    BY <1>7 DEF BeginUpdateEvent, BeginDeactivateEvent, Begin, Abandon, NextDay, vars, data,
                process, history
  <2> QED
    BY <1>0, <2>1, HorizonStays
<1> QED
  BY <1>1, <1>2, <1>3, <1>4, <1>5, <1>6, <1>7 DEF Next

\* A run passes over no active event, and what it or a form planned of one stays planned
\* a horizon from the day before the run ended on, through midnights, edits, refusals and
\* crashes (EnsureEventHorizon, maintainHorizon).
THEOREM EventsHorizonStaysFilled == Spec => []HorizonFilled
<1>1. Init => HorizonFilled
  BY DEF Init, HorizonFilled, Active, NoEvent
<1>2. Core /\ [Next]_vars /\ HorizonFilled => HorizonFilled'
  <2> SUFFICES ASSUME Core, [Next]_vars, HorizonFilled PROVE HorizonFilled'
    OBVIOUS
  <2>1. \A i \in Event : HorizonOf(i)
    BY HorizonByEvent
  <2>2. \A i \in Event : HorizonOf(i)'
    BY <2>1, HorizonNext
  <2> QED
    BY <2>2, HorizonByEventNext
<1> QED
  BY <1>1, <1>2, CoreInvariance, PTL DEF Spec

\* A run that ends has planned every active event through the horizon of the day it began,
\* or, when it failed or was refused one, every event it had come to.
THEOREM EventRunsFillTheHorizon == Spec => RunsFill
<1>1. ASSUME Core, HorizonFilled, [Next]_vars, Maintaining, phase' = "waiting",
             NEW d \in {wake}, NEW i \in Event, Active(i)', run' = "ok" \/ i \in reached
      PROVE  FilledThrough(i, d + Horizon)'
  <2>0. ~UNCHANGED phase
    BY <1>1 DEF Maintaining
  <2>1. /\ RunSucceeds \/ (RunBreaks \/ \E j \in Event : RunIsRefused(j))
        /\ UNCHANGED <<events, occurrences, today>>
    <3>1. RunSucceeds \/ (RunBreaks \/ \E j \in Event : RunIsRefused(j))
      BY <1>1, <2>0
      DEF Next, vars, data, process, history, CreateEvent, BeginUpdateEvent,
          BeginDeactivateEvent, Begin, FinishUpdateEvent, FinishDeactivateEvent, Abandon,
          Start, MidnightTimer, ListEvents, EnsureEvent, Crash, NextDay
    <3> QED
      BY <3>1 DEF RunSucceeds, RunBreaks, RunIsRefused, RunEnds, data
  <2>2. Active(i)
    BY <1>1, <2>1 DEF Active
  <2>3. CASE RunSucceeds
    BY <1>1, <2>1, <2>2, <2>3 DEF RunSucceeds, HorizonFilled, FilledThrough
  <2>4. CASE RunBreaks \/ \E j \in Event : RunIsRefused(j)
    BY <1>1, <2>1, <2>2, <2>4 DEF RunBreaks, RunIsRefused, RunEnds, HorizonFilled, FilledThrough
  <2> QED
    BY <2>1, <2>3, <2>4
<1>2. Core /\ HorizonFilled /\ [Next]_vars =>
        [\A d \in {wake} : Maintaining /\ phase' = "waiting" =>
           \A i \in Event : Active(i)' /\ (run' = "ok" \/ i \in reached)
                              => FilledThrough(i, d + Horizon)']_vars
  BY <1>1
<1> QED
  BY <1>2, EventsHorizonStaysFilled, CoreInvariance, PTL DEF Spec, RunsFill

-----------------------------------------------------------------------------
(* The agendas agree. *)

\* The Monday of a date is at most six days before it, and its own Monday.
LEMMA EventMondays ==
  ASSUME NEW d \in Int
  PROVE  /\ MondayOf(d) \in Int /\ MondayOf(d) \in (d - 6)..d
         /\ MondayOf(MondayOf(d)) = MondayOf(d)
<1> DEFINE back == (Weekday(d) + 6) % 7
<1>1. back \in 0..6 /\ MondayOf(d) = d - back
  BY DEF MondayOf, Weekday
<1>2. (Weekday(d - back) + 6) % 7 = 0
  BY <1>1 DEF Weekday
<1>3. MondayOf(d - back) = d - back
  BY <1>1, <1>2 DEF MondayOf
<1> QED
  BY <1>1, <1>3

\* Under a day of a window stands what the day's own agenda shows.
LEMMA GroupedIsListed ==
  ASSUME TypeOK, NEW from \in Int, NEW through \in Int, NEW d \in from..through
  PROVE  GroupedByDate(ListScheduled(from, through), from, through)[d] = DailyAgenda(d)
<1> DEFINE items == ListScheduled(from, through)
           first(o) == IF o[2].start < from THEN from ELSE o[2].start
           after(o) == IF o[2].end > through + 1 THEN through + 1 ELSE o[2].end
<1>1. GroupedByDate(items, from, through)[d] = {o \in items : d \in first(o)..(after(o) - 1)}
  BY DEF GroupedByDate
<1>2. \A f, t : \A o : o \in ListScheduled(f, t) <=>
        \E i \in Event : \E r \in occurrences[i] :
          Active(i) /\ r.start <= t /\ r.end > f /\ o = <<i, r>>
  <2> SUFFICES ASSUME NEW f, NEW t, NEW o
               PROVE  o \in ListScheduled(f, t) <=>
                        \E i \in Event : \E r \in occurrences[i] :
                          Active(i) /\ r.start <= t /\ r.end > f /\ o = <<i, r>>
    OBVIOUS
  <2> QED
    BY DEF ListScheduled
<1>3. \A i \in Event : \A r \in occurrences[i] : r.start \in Nat /\ r.end \in Nat
  BY DEF TypeOK, Occurrence
<1>4. \A i \in Event : \A r \in occurrences[i] :
        (r.start <= through /\ r.end > from /\ d \in first(<<i, r>>)..(after(<<i, r>>) - 1))
          <=> (r.start <= d /\ r.end > d)
  BY <1>3
<1> HIDE DEF first, after, items
<1>5. ASSUME NEW o \in items, d \in first(o)..(after(o) - 1)
      PROVE  o \in DailyAgenda(d)
  <2>1. PICK i \in Event : \E r \in occurrences[i] :
          Active(i) /\ r.start <= through /\ r.end > from /\ o = <<i, r>>
    BY <1>2 DEF items
  <2>2. PICK r \in occurrences[i] :
          Active(i) /\ r.start <= through /\ r.end > from /\ o = <<i, r>>
    BY <2>1
  <2>3. r.start <= d /\ r.end > d
    BY <1>4, <1>5, <2>2
  <2> QED
    BY <1>2, <2>2, <2>3 DEF DailyAgenda
<1>6. ASSUME NEW o \in DailyAgenda(d)
      PROVE  o \in items /\ d \in first(o)..(after(o) - 1)
  <2>1. PICK i \in Event : \E r \in occurrences[i] :
          Active(i) /\ r.start <= d /\ r.end > d /\ o = <<i, r>>
    BY <1>2 DEF DailyAgenda
  <2>2. PICK r \in occurrences[i] : Active(i) /\ r.start <= d /\ r.end > d /\ o = <<i, r>>
    BY <2>1
  <2>3. r.start <= through /\ r.end > from /\ d \in first(<<i, r>>)..(after(<<i, r>>) - 1)
    BY <1>4, <2>2
  <2> QED
    BY <1>2, <2>2, <2>3 DEF items
<1>7. DailyAgenda(d) = {o \in items : d \in first(o)..(after(o) - 1)}
  BY <1>5, <1>6
<1> QED
  BY <1>1, <1>7 DEF items

\* Where a month of the calendar begins and ends.
LEMMA MonthDates ==
  ASSUME NEW m \in Months
  PROVE  /\ MonthStart[m] \in Nat /\ MonthStart[m + 1] \in Nat
         /\ MonthStart[m + 1] - MonthStart[m] \in 28..31
<1>1. Len(MonthStart) \in Nat
  BY CalendarAssumption
<1>2. m \in 1..Len(MonthStart) /\ m + 1 \in 1..Len(MonthStart)
  BY <1>1 DEF Months
<1>3. MonthStart[m] \in Nat /\ MonthStart[m + 1] \in Nat
  BY <1>2, CalendarAssumption
<1>4. MonthStart[m + 1] - MonthStart[m] \in 28..31
  BY CalendarAssumption, Zenon
<1> QED
  BY <1>3, <1>4, Zenon

\* The week's and the month's page show under each day what its own page shows
\* (ListScheduledEvents with an exclusive end, groupEventsByDate).
THEOREM EventAgendasAgree == Spec => []AgendasAgree
<1>1. TypeOK => AgendasAgree
  <2> SUFFICES ASSUME TypeOK PROVE AgendasAgree
    OBVIOUS
  <2> DEFINE days == 0..(today + Horizon)
  <2>1. ASSUME NEW x \in days, NEW d \in days \cap (MondayOf(x)..(MondayOf(x) + 6))
        PROVE  WeeklyAgenda(MondayOf(x))[d] = DailyAgenda(d)
    <3>1. MondayOf(x) \in Int /\ MondayOf(MondayOf(x)) = MondayOf(x)
      BY EventMondays
    <3> DEFINE start == MondayOf(x)
    <3>2. WeeklyAgenda(start) =
            GroupedByDate(ListScheduled(start, start + 6), start, start + 6)
      BY <3>1 DEF WeeklyAgenda
    <3>3. d \in start..(start + 6) /\ start \in Int /\ start + 6 \in Int
      BY <3>1
    <3> HIDE DEF start
    <3>4. WeeklyAgenda(start)[d] = DailyAgenda(d)
      BY <3>2, <3>3, GroupedIsListed
    <3> QED
      BY <3>4 DEF start
  <2>2. ASSUME NEW m \in Months, NEW d \in days \cap (MonthStart[m]..(MonthStart[m + 1] - 1))
        PROVE  MonthlyAgenda(m)[d] = DailyAgenda(d)
    <3> DEFINE start == MondayOf(MonthStart[m])
    <3>1. /\ MonthStart[m] \in Nat /\ MonthStart[m + 1] \in Nat
          /\ MonthStart[m + 1] - MonthStart[m] \in 28..31
      BY MonthDates, Zenon
    <3>2. start \in (MonthStart[m] - 6)..MonthStart[m] /\ start \in Int
      BY <3>1, EventMondays
    <3> HIDE DEF start
    <3>3. d \in start..(start + 41) /\ start + 41 \in Int
      BY <3>1, <3>2
    <3>4. MonthlyAgenda(m) =
            GroupedByDate(ListScheduled(start, start + 41), start, start + 41)
      BY DEF MonthlyAgenda, start
    <3> QED
      BY <3>2, <3>3, <3>4, GroupedIsListed
  <2> QED
    BY <2>1, <2>2 DEF AgendasAgree
<1> QED
  BY <1>1, EventTypes, PTL


-----------------------------------------------------------------------------
(* Occurrences that have begun. *)

LEMMA BegunRowsStay ==
  ASSUME Core, [Next]_vars, NEW i \in Event, Active(i)', NEW r, r.start \in Int,
         r.start < CutOff(i)
  PROVE  r \in occurrences'[i] <=> r \in occurrences[i]
<1>0. today \in Nat /\ CutOff(i) \in Int /\ CutOff(i) <= today
  BY DEF Core, TypeOK, CutOff
<1>1. \A form : r \notin Window(form) /\ r \notin WindowAsRead(form)
  <2> SUFFICES ASSUME NEW form, r \in Window(form) \cup WindowAsRead(form) PROVE FALSE
    OBVIOUS
  <2>1. PICK d \in Dates(form, today, today + Horizon) : r = OccurrenceOn(form, d)
    BY <1>0, DatesOfWindow, HorizonType DEF Window, WindowAsRead
  <2>2. r.start \in today..(today + Horizon)
    BY <1>0, <2>1, DatesOfWindow, HorizonType, StartOfOccurrence
  <2> QED
    BY <1>0, <2>2, HorizonType
<1>2. \A rows, new : r \notin new => (r \in Inserted(rows, new) <=> r \in rows)
  BY DEF Inserted
<1>3. CASE Still(i)
  BY <1>3 DEF Still
<1>4. CASE SavedAs(i)
  <2>1. PICK asOf \in {today - 1, today}, form \in Form :
          /\ CutOff(i) <= asOf
          /\ occurrences'[i] = Inserted(Before(occurrences[i], asOf), Window(form))
    BY <1>4 DEF SavedAs
  <2>2. r \in Before(occurrences[i], asOf) <=> r \in occurrences[i]
    BY <1>0, <2>1 DEF Before
  <2> QED
    BY <1>1, <1>2, <2>1, <2>2, Zenon
<1>5. CASE Withdrawn(i)
  BY <1>5 DEF Withdrawn, Active
<1>6. CASE Ensured(i)
  <2>1. occurrences'[i] = Inserted(occurrences[i], WindowAsRead(listed[i].form))
    BY <1>6 DEF Ensured
  <2> QED
    BY <1>1, <1>2, <2>1, Zenon
<1> QED
  BY <1>3, <1>4, <1>5, <1>6, StepOfRows

\* What is going on is left alone: no edit, run or restart takes an occurrence that began on
\* an earlier day off an agenda, or plans another beside it.
THEOREM OngoingIsLeftAlone == Spec => OngoingStays
<1>1. ASSUME Core, [Next]_vars, NEW i \in Event, NEW d \in today..(today + Horizon),
             Active(i), Active(i)'
      PROVE  LET begun(agenda) == {o \in agenda : o[1] = i /\ o[2].start < CutOff(i)}
             IN begun(DailyAgenda(d)') = begun(DailyAgenda(d))
  <2>1. /\ \A r \in occurrences[i] : r.start \in Int
        /\ \A r \in occurrences'[i] : r.start \in Int
    BY <1>1, CoreNext DEF Core, TypeOK, Occurrence
  <2>2. ASSUME NEW r, r.start < CutOff(i)
        PROVE  <<i, r>> \in DailyAgenda(d)' <=> <<i, r>> \in DailyAgenda(d)
    <3>1. r.start \in Int => (r \in occurrences'[i] <=> r \in occurrences[i])
      BY <1>1, <2>2, BegunRowsStay, Zenon
    <3>2. r \in occurrences'[i] <=> r \in occurrences[i]
      BY <2>1, <3>1, Zenon
    <3>3. <<i, r>> \in DailyAgenda(d) <=> r \in occurrences[i] /\ r.start <= d /\ r.end > d
      BY <1>1 DEF DailyAgenda, ListScheduled
    <3>4. <<i, r>> \in DailyAgenda(d)' <=> r \in occurrences'[i] /\ r.start <= d /\ r.end > d
      BY <1>1 DEF DailyAgenda, ListScheduled
    <3> QED
      BY <3>2, <3>3, <3>4
  <2>3. \A o \in DailyAgenda(d) \cup DailyAgenda(d)' : o = <<o[1], o[2]>>
    BY DEF DailyAgenda, ListScheduled
  <2> QED
    BY <2>2, <2>3
<1>2. Core /\ [Next]_vars =>
        [\A i \in Event, d \in today..(today + Horizon) :
           LET begun(agenda) == {o \in agenda : o[1] = i /\ o[2].start < CutOff(i)}
           IN Active(i) /\ Active(i)' => begun(DailyAgenda(d)') = begun(DailyAgenda(d))]_vars
  BY <1>1
<1> QED
  BY <1>2, CoreInvariance, PTL DEF Spec, OngoingStays

-----------------------------------------------------------------------------
(* The rows implement the chores' ledger. *)

LEMMA TodayStays ==
  ASSUME [Next]_vars, ~ NextDay
  PROVE  today' = today
BY DEF Next, vars, CreateEvent, BeginUpdateEvent, BeginDeactivateEvent, Begin,
       FinishUpdateEvent, FinishDeactivateEvent, Abandon, Start, MidnightTimer, ListEvents,
       EnsureEvent, RunSucceeds, RunIsRefused, RunBreaks, RunEnds, Crash

\* A step withdraws no row of a date before yesterday, and plans none but of the horizon.
LEMMA RowsReplanned ==
  ASSUME Core, [Next]_vars, today' = today, NEW i \in Event
  PROVE  /\ \A r \in occurrences[i] :
              r.start >= today - 1 \/ \E q \in occurrences'[i] : q.start = r.start
         /\ \A r \in occurrences'[i] :
              r \in occurrences[i] \/ r.start \in today..(today + Horizon)
<1>0. today \in Nat /\ \A r \in occurrences[i] : r.start \in Nat
  BY DEF Core, TypeOK, Occurrence
<1>1. \A form : \A r \in Window(form) \cup WindowAsRead(form) :
        r.start \in today..(today + Horizon)
  <2> SUFFICES ASSUME NEW form, NEW r \in Window(form) \cup WindowAsRead(form)
               PROVE  r.start \in today..(today + Horizon)
    OBVIOUS
  <2>1. PICK d \in Dates(form, today, today + Horizon) : r = OccurrenceOn(form, d)
    BY <1>0, DatesOfWindow, HorizonType DEF Window, WindowAsRead
  <2> QED
    BY <1>0, <2>1, DatesOfWindow, HorizonType, StartOfOccurrence
<1>2. \A asOf \in {today - 1, today} : \A r \in occurrences[i] :
        r.start >= today - 1 \/ r \in Before(occurrences[i], asOf)
  BY <1>0 DEF Before
<1>3. \A asOf : Before(occurrences[i], asOf) \subseteq occurrences[i]
  BY DEF Before
<1>4. CASE Still(i)
  BY <1>4 DEF Still
<1>5. CASE SavedAs(i)
  <2>1. PICK asOf \in {today - 1, today}, form \in Form :
          occurrences'[i] = Inserted(Before(occurrences[i], asOf), Window(form))
    BY <1>5 DEF SavedAs
  <2> QED
    BY <1>1, <1>2, <1>3, <2>1, InsertedRows
<1>6. CASE Withdrawn(i)
  BY <1>2, <1>3, <1>6 DEF Withdrawn
<1>7. CASE Ensured(i)
  <2>1. occurrences'[i] = Inserted(occurrences[i], WindowAsRead(listed[i].form))
    BY <1>7 DEF Ensured
  <2> QED
    BY <1>1, <2>1, InsertedRows
<1> QED
  BY <1>4, <1>5, <1>6, <1>7, StepOfRows

\* The dates planned, as the ledger has them.
DatesOf(rows) == UNION {{<<i, r.start>> : r \in rows[i]} : i \in Event}

LEMMA InDatesOf ==
  \A rows, o : o \in DatesOf(rows) <=> \E i \in Event : \E r \in rows[i] : o = <<i, r.start>>
BY DEF DatesOf

LEMMA LedgerOfEvents ==
  ASSUME Core, [Next]_vars
  PROVE  [Ledger!Next]_(Ledger!vars)
<1>1. CASE NextDay
  <2>1. Ledger!NextDay
    BY <1>1 DEF NextDay, data, Ledger!NextDay
  <2> QED
    BY <2>1 DEF Ledger!Next
<1>2. CASE ~ NextDay
  <2>0. today' = today
    BY <1>2, TodayStays
  <2> DEFINE open == DatesOf(occurrences)
             next == DatesOf(occurrences')
  <2>1. \A o \in open \ next : o[2] >= today - 1
    <3> SUFFICES ASSUME NEW o \in open \ next PROVE o[2] >= today - 1
      OBVIOUS
    <3>1. PICK i \in Event : \E r \in occurrences[i] : o = <<i, r.start>>
      BY InDatesOf
    <3>2. PICK r \in occurrences[i] : o = <<i, r.start>>
      BY <3>1
    <3>3. ~ \E q \in occurrences'[i] : q.start = r.start
      BY <3>2, InDatesOf
    <3>4. r.start >= today - 1
      BY <2>0, <3>3, RowsReplanned
    <3> QED
      BY <3>2, <3>4
  <2>2. \A o \in next \ open : o \in Event \X (today..(today + Horizon))
    <3> SUFFICES ASSUME NEW o \in next \ open
                 PROVE  o \in Event \X (today..(today + Horizon))
      OBVIOUS
    <3>1. PICK i \in Event : \E r \in occurrences'[i] : o = <<i, r.start>>
      BY InDatesOf
    <3>2. PICK r \in occurrences'[i] : o = <<i, r.start>>
      BY <3>1
    <3>3. r \notin occurrences[i]
      BY <3>2, InDatesOf
    <3>4. r.start \in today..(today + Horizon)
      BY <2>0, <3>3, RowsReplanned
    <3> QED
      BY <3>2, <3>4
  <2>3. Ledger!Replan
    BY <2>0, <2>1, <2>2 DEF Ledger!Replan, Ledger!Withdrawable, Ledger!Plannable, DatesOf
  <2> QED
    BY <2>3 DEF Ledger!Next
<1> QED
  BY <1>1, <1>2

\* Events implement the ledger of the chores, without ticking: whatever is saved, archived,
\* planned at night or restarted, nothing is planned for a past date or beyond the horizon,
\* and nothing older than yesterday is withdrawn.
THEOREM EventsImplementLedger == Spec => ImplementsLedger
<1>1. Init => Ledger!Init
  BY DEF Init, Ledger!Init
<1>2. Core /\ [Next]_vars => [Ledger!Next]_(Ledger!vars)
  BY LedgerOfEvents
<1> QED
  BY <1>1, <1>2, CoreInvariance, PTL DEF Spec, ImplementsLedger, Ledger!Spec


-----------------------------------------------------------------------------
(* An edit that changes nothing. *)

\* The form of an event that was ever created was submitted, and is valid.
FormInv ==
  \A i \in Event :
    events[i].state # "absent" => events[i].form \in Form /\ ValidEvent(events[i].form)

LEMMA FormInvNext ==
  ASSUME Core, FormInv, [Next]_vars
  PROVE  FormInv'
<1>0. events \in [Event -> EventRow]
  BY DEF Core, TypeOK
<1>1. ASSUME NEW i \in Event, NEW form \in Form, CreateEvent(i, form)
      PROVE  FormInv'
  <2>1. /\ ValidEvent(form)
        /\ events' = [events EXCEPT ![i] = [state |-> "active", form |-> form]]
    BY <1>1 DEF CreateEvent
  <2>2. events'[i].form = form /\ \A j \in Event \ {i} : events'[j] = events[j]
    BY <1>0, <2>1
  <2> QED
    BY <2>1, <2>2 DEF FormInv
<1>2. ASSUME NEW k \in Client, NEW form \in Form, FinishUpdateEvent(k, form)
      PROVE  FormInv'
  <2> DEFINE i == requests[k].id
  <2>1. /\ requests[k].op = "update" /\ ValidEvent(form)
        /\ events' = [events EXCEPT ![i].form = form]
    BY <1>2 DEF FinishUpdateEvent
  <2>2. i \in Event
    BY <2>1 DEF Core, RequestInv
  <2> HIDE DEF i
  <2>3. events'[i].form = form /\ \A j \in Event \ {i} : events'[j] = events[j]
    BY <1>0, <2>1, <2>2 DEF EventRow
  <2> QED
    BY <2>1, <2>3 DEF FormInv
<1>3. ASSUME NEW k \in Client, FinishDeactivateEvent(k)
      PROVE  FormInv'
  <2> DEFINE i == requests[k].id
  <2>1. /\ requests[k].op = "archive" /\ events[i].state # "absent"
        /\ events' = [events EXCEPT ![i].state = "archived"]
    BY <1>3 DEF FinishDeactivateEvent, Active
  <2>2. i \in Event
    BY <2>1 DEF Core, RequestInv
  <2> HIDE DEF i
  <2>3. events'[i].form = events[i].form /\ \A j \in Event \ {i} : events'[j] = events[j]
    BY <1>0, <2>1, <2>2 DEF EventRow
  <2> QED
    BY <2>1, <2>3 DEF FormInv
<1>4. CASE UNCHANGED events
  BY <1>4 DEF FormInv
<1>5. \/ UNCHANGED events
      \/ \E i \in Event, form \in Form : CreateEvent(i, form)
      \/ \E k \in Client, form \in Form : FinishUpdateEvent(k, form)
      \/ \E k \in Client : FinishDeactivateEvent(k)
  BY DEF Next, vars, data, BeginUpdateEvent, BeginDeactivateEvent, Begin, Abandon, Start,
         MidnightTimer, ListEvents, EnsureEvent, RunSucceeds, RunIsRefused, RunBreaks,
         RunEnds, Crash, NextDay
<1> QED
  BY <1>1, <1>2, <1>3, <1>4, <1>5

\* What the browser sends back of the inputs of a form, as they were filled in, is the form.
LEMMA FormComesBack ==
  ASSUME NEW form \in Form, ValidEvent(form)
  PROVE  EventFromForm(FormFields(form)) = form
<1> DEFINE rule == form.rule
           f == FormFields(form)
           back == EventFromForm(f)
<1>1. /\ form \in EventForm /\ rule \in EventRule
      /\ form.audience \cap Person = form.audience
  BY EventsAssumption DEF EventForm, ValidEvent
<1>2. form = [rule |-> rule, start |-> form.start, end |-> form.end, from |-> form.from,
              to |-> form.to, stop |-> form.stop, audience |-> form.audience]
  BY <1>1 DEF EventForm
<1>3. rule = [type |-> rule.type, interval |-> rule.interval, weekdays |-> rule.weekdays,
              day |-> rule.day, month |-> rule.month]
  BY <1>1 DEF EventRule
<1>4. /\ rule.type # "every_n_days" => rule.interval = 0
      /\ rule.type # "weekly_days" => rule.weekdays = {}
      /\ rule.type \notin {"monthly_day", "annual"} => rule.day = 0
      /\ rule.type # "annual" => rule.month = 0
      /\ rule.type = "one_off" => form.stop = NoEnd
  BY FormAssumption
<1>5. /\ rule.interval \in Nat /\ rule.day \in Nat /\ rule.month \in Nat
      /\ form.end \in Nat /\ form.stop \in Int
      /\ form.from = NoTime => form.to = NoTime
  BY <1>1 DEF EventForm, EventRule, NoEnd, ValidEvent
<1>6. f.allDay <=> form.from = NoTime
  BY Zenon DEF FormFields
<1>7. /\ f.startDate = form.start /\ f.endDate = FinalDay(form)
      /\ f.startTime = form.from /\ f.endTime = form.to
      /\ f.ruleType = rule.type
      /\ f.audience = form.audience \cap Person
  BY DEF FormFields
<1>8. /\ rule.type = "every_n_days" => f.interval = rule.interval
      /\ f.weekdays = IF rule.type = "weekly_days" THEN rule.weekdays ELSE {}
      /\ rule.type = "monthly_day" => f.day = rule.day
      /\ rule.type = "annual" => f.month = rule.month /\ f.annualDay = rule.day
      /\ f.stop = IF rule.type = "one_off" THEN Blank ELSE form.stop
  BY DEF FormFields
<1> HIDE DEF f
<1>9. /\ back.start = form.start /\ back.audience = form.audience
      /\ back.end = form.end /\ back.from = form.from /\ back.to = form.to
      /\ back.stop = form.stop
  <2>1. back.start = form.start /\ back.audience = form.audience
    BY <1>1, <1>7 DEF EventFromForm
  <2>2. back.end = form.end
    BY <1>5, <1>6, <1>7 DEF EventFromForm, FinalDay
  <2>3. back.from = form.from /\ back.to = form.to
    BY <1>5, <1>6, <1>7 DEF EventFromForm
  <2>4. back.stop = form.stop
    BY <1>4, <1>5, <1>8 DEF EventFromForm, Blank, NoEnd
  <2> QED
    BY <2>1, <2>2, <2>3, <2>4
<1>10. back.rule = rule
  <2>1. /\ back.rule.type = rule.type /\ back.rule.weekdays = rule.weekdays
        /\ back.rule.interval = rule.interval /\ back.rule.day = rule.day
        /\ back.rule.month = rule.month
    <3> DEFINE interval == IF f.ruleType = "every_n_days" THEN f.interval ELSE 0
               weekdays == IF f.ruleType = "weekly_days" THEN f.weekdays ELSE {}
               day == (IF f.ruleType = "monthly_day" THEN f.day ELSE 0)
                        + (IF f.ruleType = "annual" THEN f.annualDay ELSE 0)
               month == IF f.ruleType = "annual" THEN f.month ELSE 0
    <3>1. back.rule = [type |-> f.ruleType, interval |-> interval, weekdays |-> weekdays,
                       day |-> day, month |-> month]
      BY DEF EventFromForm
    <3>2. interval = rule.interval /\ weekdays = rule.weekdays /\ month = rule.month
      <4> HIDE DEF rule
      <4> QED
        BY <1>4, <1>7, <1>8
    <3>3. day = rule.day
      <4>1. CASE rule.type = "monthly_day"
        BY <1>5, <1>7, <1>8, <4>1
      <4>2. CASE rule.type = "annual"
        BY <1>5, <1>7, <1>8, <4>2
      <4>3. CASE rule.type \notin {"monthly_day", "annual"}
        BY <1>4, <1>5, <1>7, <1>8, <4>3
      <4> QED
        BY <4>1, <4>2, <4>3
    <3> HIDE DEF back, interval, weekdays, day, month
    <3> QED
      BY <1>7, <3>1, <3>2, <3>3
  <2>2. back.rule = [type |-> back.rule.type, interval |-> back.rule.interval,
                     weekdays |-> back.rule.weekdays, day |-> back.rule.day,
                     month |-> back.rule.month]
    BY DEF EventFromForm
  <2> HIDE DEF back, rule
  <2> QED
    BY <1>3, <2>1, <2>2
<1>11. back = [rule |-> back.rule, start |-> back.start, end |-> back.end,
               from |-> back.from, to |-> back.to, stop |-> back.stop,
               audience |-> back.audience]
  BY DEF EventFromForm
<1>12. back = form
  <2> HIDE DEF back, rule
  <2> QED
    BY <1>2, <1>9, <1>10, <1>11
<1> QED
  BY <1>12 DEF f

\* The form of a new event is valid as it is opened.
LEMMA NewEventIsValid ==
  ASSUME NEW d \in Nat
  PROVE  ValidEvent(EventFromForm(FormFields(NewEvent(d))))
<1>1. PICK form : form = NewEvent(d)
  OBVIOUS
<1>2. /\ form.rule.type = "one_off" /\ form.start = d /\ form.end = d + 1
      /\ form.from = NoTime /\ form.audience = {}
  BY <1>1 DEF NewEvent, NoForm
<1>3. PICK f : f = FormFields(form)
  OBVIOUS
<1>4. f.allDay
  BY <1>2, <1>3, Zenon DEF FormFields
<1>5. /\ f.startDate = d /\ f.endDate = d + 1 - 1 /\ f.ruleType = "one_off"
      /\ f.stop = Blank /\ f.audience = {}
  BY <1>2, <1>3 DEF FormFields, FinalDay
<1>6. PICK back : back = EventFromForm(f)
  OBVIOUS
<1>7. /\ back.rule.type = "one_off" /\ back.start = d /\ back.end = d + 1
      /\ back.from = NoTime /\ back.to = NoTime /\ back.stop = NoEnd /\ back.audience = {}
  BY <1>4, <1>5, <1>6 DEF EventFromForm
<1>8. ValidEvent(back)
  BY <1>7 DEF ValidEvent, ValidEventRule
<1> QED
  BY <1>1, <1>3, <1>6, <1>8

\* An edit that changes nothing keeps the event, whatever its rule: the page shows its final
\* day and enables the inputs of its rule, and eventFromForm makes the same event of them.
THEOREM EditsKeepEvents == Spec => []EditKeepsTheEvent
<1>1. Init => FormInv
  BY DEF Init, FormInv, NoEvent
<1>2. Core /\ FormInv /\ [Next]_vars => FormInv'
  BY FormInvNext
<1>3. Core /\ FormInv => EditKeepsTheEvent
  <2> SUFFICES ASSUME Core, FormInv PROVE EditKeepsTheEvent
    OBVIOUS
  <2>1. today \in Nat
    BY DEF Core, TypeOK
  <2>2. ValidEvent(EventFromForm(FormFields(NewEvent(today))))
    BY <2>1, NewEventIsValid
  <2> QED
    BY <2>2, FormComesBack DEF FormInv, EditKeepsTheEvent
<1> QED
  BY <1>1, <1>2, <1>3, CoreInvariance, PTL DEF Spec
=============================================================================
