# KinOps in TLA+

A formal model of KinOps, a household planner written in Go: recurring chores
with rotating assignments, household events, a kitchen that reads meals and
groceries from a Mealie server, and an administrator's dashboard. The modules
follow the source under `src/`, the TLC runs check them on small instances, and
the theorems hold for every value of the constants.

## The system

| component | source | state it keeps | operations |
|---|---|---|---|
| recurrence and assignment | `internal/scheduling` | none | validate a rule, the dates of a window, the assignee of an occurrence |
| chore service | `internal/service/service.go`, `internal/store` | people, chores, schedules, occurrences in SQLite | create, edit, archive; add a person; plan the horizon |
| daily board | `internal/service/daily.go`, `handlers/daily.go`, `components/instance_card.templ` | status and completion log of an occurrence; the pages in the browsers | load, complete, reopen, answer |
| calendar pages and dashboard | `service/calendar.go`, `service/admin.go`, `store/analytics.go` | none | the week, the month, rates, streaks, overdue counts |
| household events | `internal/service/events.go`, `internal/events` | events, audiences, occurrences | create, edit, archive, plan the horizon, agendas, the form of an edit |
| process and maintenance | `cmd/kinops/main.go` | a timer, the list a run works through | start, plan at midnight, stop |
| kitchen cache | `internal/kitchen/cache.go`, `service.go` | entries in memory, with ages | get, set, clear, load, fall back |
| kitchen groceries | `internal/kitchen/service.go`, `internal/mealie`, `handlers/kitchen.go` | none of its own: Mealie's | add, check, edit, remove, list; search and create foods and units |
| admin sessions | `internal/auth`, `handlers/admin.go` | sessions in memory | log in, look up, log out, expire, sweep; CSRF tokens of pages |
| calendar feed | `service/feed.go`, `handlers/feed.go` | each person's token | resolve and list; rotate |
| kitchen meals and recipes | `internal/kitchen/service.go` | Mealie's | one call to Mealie each |
| configuration, migrations, layout | `config`, `internal/database`, `views` | none | I/O, parsing, rendering |

**How they interact.** The HTTP handlers run one goroutine per request and call
the services. The database has one connection, so transactions run one at a
time; a statement outside a transaction is one by itself. `main` plans the
horizon once before it serves, and a goroutine of its own plans it again after
every midnight, concurrently with the requests: the chores first, then the
events, also when the chores' half failed. The kitchen service talks to Mealie
over HTTP with a timeout and keeps three caches, each behind a mutex that is
held for one cache call and never across a call to Mealie. Sessions are in a map
behind a mutex, and the clock is read before the mutex is taken. The browsers
are part of the system: a page keeps row ids, CSRF tokens and the inputs of its
forms for as long as it is open.

**What is hard.** What the code does *around* its transactions and its mutexes:
a date, a clock or a row read before the transaction that uses it; schedules and
events listed in one query and planned from that copy in later transactions; a
load under way while a write clears the cache; an item read, changed and written
back over several calls to Mealie; an answer read after the transaction it
reports. Pages that are older than what they name. Then midnights in the middle
of a request or a run, stops between two transactions of a run, one failing
schedule or event that ends a run, and the long histories behind a number:
occurrences completed ahead, withdrawn, planned again, reopened. `PROJECT.json`
lists each at its line under `hazards`, with the properties that cover it.

**What makes each component correct.**

- Recurrence: the loops return exactly the dates of the rule in the window.
- Chores: no date and no number twice, history untouched by replanning, what lies
  ahead always says what the schedule says, a full horizon after every run, nothing
  revived after an archiving. Board: log and status agree.
- Daily board: a card names the occurrence it shows for as long as its row is there;
  what only a page's own buttons changed is on it as a reload would show it.
- Calendar pages and dashboard: they count the same rows, and agree.
- Events: what is planned is what the event says now, each occurrence stands on the
  agenda of each of its days, what has begun is left alone, an edit that changes nothing
  changes nothing.
- Kitchen cache: a view without a warning is recent and shows what was reported as
  written, a view with one is not older than allowed, and the cache is bounded.
- Groceries: a form changes what it sends and nothing else, the answer tells what
  became of the item, a list is whole, every request ends.
- Sessions: only the living are let in, and the living stay; a form acts for the
  session that loaded its page. Feed: a rotated address is dead.

## Modules

| module | what it is |
|---|---|
| `Recurrence` | dates, rules, validation, `Occurrences`, `Assignee`: operators without state |
| `OccurrencesLoop` | the loops of `scheduling.Occurrences`, one iteration a step, compared with `Recurrence!Occurrences` |
| `Chores` | the chore service, the board's transitions and the maintenance: the core |
| `ChoreLedger` | the abstract specification `Chores` and `Events` implement: open and done occurrences, never planned or withdrawn in the past |
| `ChoresProofs` | theorems about `Chores`: its rows, what planning promises, the ledger |
| `LoopProofs` | `OccurrencesLoop` returns what `Recurrence!Occurrences` says |
| `Events` | the event service, its half of the maintenance and the agendas |
| `EventPages` | the form of an event: what it shows, and what is made of what it sends |
| `EventsProofs` | theorems about `Events` and `EventPages` |
| `DailyBoard` | the daily pages in the browsers over the rows with their SQLite ids |
| `BoardPages` | week, month and dashboard as operators on the rows of `DailyBoard` |
| `BoardProofs` | theorems about `DailyBoard` and `BoardPages` |
| `KitchenCache` | the read cache between pages and Mealie |
| `KitchenProofs` | theorems about `KitchenCache` |
| `Grocery` | the shopping list, one call to Mealie a step |
| `GroceryProofs` | theorems about `Grocery` |
| `Access` | sessions, the forms of the administrator's pages, feed tokens |
| `AccessProofs` | theorems about `Access` |
| `Numbers` | lemmas the proofs share: least and greatest elements, places in a set, sums of counts |
| `MCChores`, `MCOccurrencesLoop`, `MCEvents`, `MCBoard`, `MCKitchenCache`, `MCGrocery`, `MCAccess` | small instances for TLC |

`Chores`, `Events`, `OccurrencesLoop` and `BoardPages` EXTEND `Recurrence`, so that
what the loop is compared with is the very operator the services plan with and the
pages count by. `Chores` and `Events` each instantiate `ChoreLedger` with their own
refinement mapping; `BoardPages` EXTENDS `DailyBoard`, `EventPages` EXTENDS `Events`.

### Recurrence and OccurrencesLoop

A date is a number of days since a first day, and `MonthStart` is the calendar:
the first days of its months, of any number and of 28 to 31 days. Only in
`OccurrencesLoop` is it what the code has, a local midnight, which on a day whose clocks
change at midnight there is not. A rule is a record with all of the code's fields;
`ValidRule` and `ValidSchedule` are `ValidateRule` and `ValidateSchedule`.
`Occurrences` is a set: the dates of a window a rule matches. `OccurrencesLoop`
has an action for each part of the Go function: `Refuse` and `Clip` before the
loop, `Stride` for the skip of `every_n_days`, `WalkDate` and `WalkMonth` for the
bodies, `Return`.

### Chores

State: the tables (`people`, `chores`, `schedules`, and `instances`, the rows of
each schedule with their logs), the clock (`today`), the requests that have read
something and not yet written (`requests`), the process (`phase`, `wake`,
`listed`, `lastRun`), and two history variables that no action reads:
`outdated`, the schedules a run planned from an old copy, and `undone`, the
chores an overlapping edit brought back.

| action | code |
|---|---|
| `CreatePerson`, `CreateChore`, `CreateSchedule`, `UpdateSchedule` | one transaction each in `service.go` |
| `CompleteInstance`, `ReopenInstance` | `transitionInstance` in `daily.go` |
| `Begin...`/`FinishDeactivateSchedule`, `...DeactivateChore` | the clock is read, then the transaction runs |
| `Begin...`/`FinishUpdateChore` | the row is read, then written back |
| `Abandon` | the request is cancelled between the two, or a statement fails |
| `Start`, `MidnightTimer` | `EnsureHorizon` lists the active schedules |
| `EnsureSchedule` | one transaction of `EnsureHorizon`, from the listed copy |
| `RunEnds`, `RunFails` | the run ends, or an error ends it; the timer is set for the next midnight |
| `Crash` | the process stops; tables stay, everything else is lost |
| `NextDay` | midnight |

Every transaction that plans ends with `generate`, which is `Kept` (withdraw the
pending rows from today on, when asked to), `Missing` (the dates of the horizon
that have no row), `Planned` (number them after the highest number, find their
assignees) and `Generated`. An operation that returns an error rolls back, and is
a stuttering step. People are never deactivated: the service has no operation
that does.

### Events and EventPages

State: the event rows (`events`), their occurrences (`occurrences`, a set of records
per event), the requests that read the clock before their transaction, and the process
with the copies its run still has to plan from (`listed`, `run`). History that no
action reads: `outdated`, `revived`, `reached`, `savedOn`.

| action | code |
|---|---|
| `CreateEvent` | `CreateEvent`: one transaction, planned at once |
| `Begin...`/`FinishUpdateEvent`, `...DeactivateEvent` | the clock is read; the row is written, what starts from then on is deleted and, by an edit, planned again |
| `ListEvents`, `EnsureEvent` | `EnsureEventHorizon`: the active events listed once, each planned from its copy |
| `RunSucceeds`, `RunIsRefused`, `RunBreaks` | the run ends; an occurrence the table refuses, or a failing statement, ends it early |
| `Start`, `MidnightTimer`, `Crash`, `NextDay` | as in `Chores`; `run` is "chores" until that half is over |

A time of day counts half hours. `Instant` is `localDateTime`: on `SkipDay` the hour the
clocks skip is moved as `time.Date` moves it, which is how an occurrence comes to end
before it begins and to be refused by the table's CHECK (`Accepted`). `DatesAsRead`
keeps that a stored last date is a midnight of Greenwich. `DailyAgenda`, `WeeklyAgenda`
and `MonthlyAgenda` are `ListScheduledEvents` and `groupEventsByDate` on the windows of
the three pages. `EventPages` takes an event through its own edit form and back:
`FormFields` is what the inputs show, `EventFromForm` what `eventFromForm` makes of them.

### DailyBoard and BoardPages

State: `rows`, by id, and for each browser its page: the cards as they were read, the
tallies, the count of overdue cards, the button pressed and the row read for its answer.
History of a page that no action reads: `since`, the rows that have been there ever since
it was loaded; `touched`, those that anything but one of its answered buttons has changed;
`fresh`, whether a row has changed since its tallies were read; `taken`, how many overdue
cards its answers took off. `NextId` is SQLite's
`INTEGER PRIMARY KEY` without AUTOINCREMENT: one more than the highest id there is.

| action | code |
|---|---|
| `LoadPage`, `ShowPage` | `Daily`: the people first, then the instances |
| `Press`, `PressElsewhere` | `transitionInstance`, from a button of a page of any age |
| `ReadItem`, `ShowAnswer`, `LoseAnswer` | the answer is read after the transaction, and replaces card and numbers on the page, or fails |
| `Replan`, `Extend`, `Join` | what requests and runs elsewhere do to the rows: any dates, since `Chores` says which |

The answer replaces the card, the summary and the progress of a person, and leaves the
count of overdue cards in the heading as it was loaded. `PageAsReloaded` says what that
makes of a page: each card whose row is not `touched` is there, and as it is, exactly as on
a reload, whatever happened to the other rows; the tallies are a reload's while `fresh`; and
while nothing is touched the count is too high by the cards `taken`. It says so of pages
whose other cards are out of date, too. `BoardPages` computes
the cells of a week, the counts of a month, and the dashboard's rates, streaks and
overdue counts. Two of its operators deserve a look: a rate is rounded to the nearest
percent, so 199 of 200 shows 100, and a day whose chores are still pending breaks a
streak, today included. The model does as the code does.

### KitchenCache

State: the clock, what Mealie holds under a key (`plan`, a version), the entries
(`cache`), the reads and the writes under way. The history variables are `asOf`
(what Mealie held at each moment), `confirmed` (the last version reported to a
writer) and `overtaken` (keys whose entry was stored by a load that a Clear
overtook). A read is `BeginRead` (clock and first `Get`), `MealieAnswers`,
`FinishLoad` (`Set` with the clock of the beginning) or `LoadFails` (second `Get`
with that clock, a warning or an error). A write is `WriteAccepted`, then
`WriteConfirmed` (`Clear`) or `WriteFails`, which reports a failure although
Mealie has the change: the answer was lost, or the recipe links could not be
read. `ChangedElsewhere` is somebody at Mealie's own pages. `Victims` follows
`Set`'s scan, its use of "" for "none yet" included.

### Grocery

State: Mealie's `items` and `catalog` of foods and units, and each browser's request with
what it has read so far. KinOps keeps nothing itself.

| action | code |
|---|---|
| `Begin` | a handler of the grocery page; the details are checked first |
| `ReadItem` | `UpdateGroceryItem` reads the item it will write back |
| `SearchIngredient`, `CreateIngredient` | `resolveIngredient`: a page of a search, and a creation when no name is equal without regard to case |
| `WriteItem` | the call that changes the list, and how it ends |
| `LoadPage` | `shoppingItems`: one page of the list |
| `ChangeElsewhere`, `IngredientElsewhere` | somebody at Mealie's own pages |

Every call may be refused, fail with nothing done, or be done and answered by a server
error, a timeout or something malformed; `Status` is `kitchenErrorStatus`. A change that was
accepted with a malformed answer is told "Check the meal details". The list is `Listed`, the
items there are in the order of their positions and, where these are equal, of their ids.
`Grouped` and `Cards` are the groups of the page, which hold places of the list that was read,
and the cards made of them; how groups and items are sorted on the page is left out.

### Access

State: the clock, the Manager's table (`sessions`: when each ends), the cookie of each
browser, the page each tab still shows with the token of the session that loaded it, the
request of each tab, the feed token of each person and the request of each feed reader.
`retired` is history: the last token whose rotation was reported.

| action | code |
|---|---|
| `Begin` | a tab asks, with the cookie its browser has now and the token its page has |
| `ReadClock` | `lookup` and `CreateSession` read the clock before they lock the table |
| `Require`, `Handle` | the two lookups, in `Require` and in the handler; each removes an expired session |
| `Login`, `Logout`, `Reply` | `CreateSession` with its sweep, `DestroySession`, and the cookie the answer sets, if it arrives |
| `Dashboard`, `Rotate`, `Reread` | what is behind the lookups; a rotation writes and then reads back |
| `AskFeed`, `AnswerFeed` | the feed resolves its token, then lists |
| `Restart` | the sessions and requests are gone, cookies and pages are not |

A login does not end an earlier session of the same browser, and the service never
deactivates a person.

## Runs

| run | shows | bounds |
|---|---|---|
| `planning` | rows unique and in step with their logs, ahead as scheduled, horizon full, history kept, while one schedule changes between rotations and a fixed person | 1 chore, 1 schedule, 3 people, 3 days, horizon of 3, 2 changes of status an occurrence |
| `requests` | what may come back after an archiving and through what; `ImplementsLedger`; under fairness every due run begins, also after one that failed, and fills the horizon | 2 requests at once, 2 schedules, 3 days, horizon of 1, crashes and failures |
| `recurrence_loop` | the loops return the set, and return | months of 31, 30, 28 and 31 days, all rule types, valid and refused; no midnight missing, or that of the first of a month or of another day, east or west of Greenwich |
| `events` | what is planned is what the event says, in time and on every agenda; what has begun stays; the edit form loses nothing; `ImplementsLedger`; due runs begin and fill the horizon | 2 events of 3 forms (a daily dinner with a last date, an annual feast of two days, a show in the skipped hour), 1 request, 2 days, horizon of 2 |
| `board` | cards and ids, pages against a reload, week, month and dashboard against the rows | 1 schedule, ids up to 3, 2 days, 1 page followed, any other page pressing |
| `kitchen_cache` | what a view with and without a warning may lack; a reported write is shown; the cache is bounded | 2 reads, 1 write, 2 keys with room for 1, 3 moments, 1 change a key |
| `groceries` | what an update may undo, what is made twice, what an answer says, lists whole and ending | 2 browsers, 2 requests in all, 3 items, 3 foods and units, one thing a page, 1 change elsewhere |
| `access` | who is let in, by which page, which sessions stay, what a rotation ends | 2 tabs of a browser, 4 requests, 2 sessions of 2 ticks, 4 moments, 2 people with 2 tokens, 1 reader, 1 restart |
| `lost_archive`, `overtaken_load`, `last_date`, `reused_id` | counterexamples, below | |

**Why the bounds are enough.** Nothing in `Chores` compares more than two days,
two rows or two copies at once: a hazard needs a date before, at and after today,
a row completed ahead next to one withdrawn, a listed copy next to a changed row,
and a second schedule behind the first in a run's list. The runs have each.
Three days let a run be late by a midnight and a request span one. Two people
make a rotation, and `CreatePerson` happens before and after schedules exist.
`NextDay` is bounded so that neither a request nor a run sees two midnights: both
take far less than a day, and `CutOff` and the ledger's `today - 1` say where that
matters. `Form` holds the forms a run submits; `MaxNumber` bounds the numbers
whose status changes, never the numbers planned.

In `events` the second event is behind the first in a run's list, so that one that
is refused leaves another unplanned; the skipped hour is inside the horizon and the
feast spans a midnight. In `board` an id is reused as soon as the highest row is
deleted and one is inserted: three ids have a row below it, it, and one above. In
`kitchen_cache` an entry is fresh at age 0, stale at 1 and expired at 2; loads may
take any time, and the theorems cover every other choice. In `groceries` a page
holds one item, so that two items already need paging and a search returns a full
page without the name; two overlapping requests are what any of its races take. In
`access` a session may expire between any two steps of a request, a sweep meets
one session, living or dead, and a person's token is rotated once; four requests are a
login, another one, a page and a form of it. What a sweep makes of several sessions and
repeated rotations of several tokens only the theorems cover, for every number. No request
of `planning` spans a midnight: that history survives one whose clock was read the day
before is `HistoryIsKept`.

**Fairness.** `requests` and `events` assume weak fairness of the timer, of the planning
of the next listed row and of the end of a run: one goroutine does these in turn, blocks
on nothing but the database, and the Go scheduler runs it. `groceries` assumes that a
call to Mealie ends: the HTTP client has a timeout. The loop of `Occurrences` is a
function call, which keeps running. Nothing is assumed of users, midnights, failures or
restarts. `MaintenanceFills` is in three parts: a run that is due begins, however the last
one ended; a run that has begun ends, unless the process stops; and when it ends, and this
very run has not failed, it has filled the horizon (`RunsFill`). Nobody
promises that a session is ended, so `Access` has no fairness.

**What the code does not keep.** Four runs end in a counterexample, each for a
promise the repository makes:

- `lost_archive`: an edit of a chore that read its row before the archiving writes
  the active flag back. `ActiveScheduleHasActiveChore` shows that it is the only
  way an archived chore and its schedules come to disagree.
- `overtaken_load`: after a write is reported, a load that Mealie answered before
  it stores the old plan in the cleared cache, and later views show it without a
  warning. `ConfirmedIsShown` shows that only this does.
- `last_date`: the last date of an event is compared as a midnight of Greenwich, and
  west of it a maintenance run never plans it, though the window is "inclusive". Only
  a save plans it. `HorizonFilled` of `Events` shows that nothing else is missing.
- `reused_id`: a button of an old page acts on the occurrence that was given the id of
  the one it shows. `NamesHold` shows what has to be deleted first.

Some properties state what holds around a weakness instead of a counterexample:
`OnlyStaleRunRevives` (a run that listed a schedule before its archiving plans it
again; nothing else does), `PlannedAsTold` (so does an event, and an archived event
that is edited), `PlannedAhead` (numbers follow dates only among what is planned
together: an occurrence completed ahead keeps its number, and its neighbour may fall
to the same person), `OnlyOverlappingUpdatesAreLost` and `OneOfEachName`.
`ReturnsOccurrences` says what a missing midnight costs: east of Greenwich the last
date of the window, until a later run plans it; west of it everything from the eve of
that day on may be wrong, a daily rule has the eve twice, and the UNIQUE constraint
then refuses the whole schedule while the day is ahead. The default zone has every
midnight. With a blank key, which the grocery page has when no list is chosen,
`Victims` may evict another entry than the oldest: the bound on the cache is proved
with such a key too.

## Proofs

`tlapm` checks eight modules to the last leaf: `Numbers`, which has lemmas only, and one
for each component. The theorems hold for every number of requests, every calendar,
horizon, set of forms, cache size, page size, age, browser, item and person. Every
invariant and every action property that a passing run checks is a theorem, both
refinements of `ChoreLedger` included; only the three liveness properties are not.

They assume what the modules' named assumptions say, which TLC evaluates in every run:

| assumption | says |
|---|---|
| `CalendarAssumption` | there is a month, months have 28 to 31 days and follow each other |
| `CallsAssumption` | calls of `Occurrences` are well typed, valid or not, and their windows end within the calendar |
| `ChoresAssumption`, `EventsAssumption` | forms are well typed, bounds are natural numbers; the skipped hour is neither the first nor one of the last of its day, as `Instant` needs |
| `FormAssumption` | a form of an event has only the fields its rule needs, which is what `eventFromForm` reads |
| `BoardAssumption`, `RatedDaysAssumption` | the founders are finitely many, each schedule has an assignee, a rate is of at least one day |
| `KitchenAssumption` | there is a key, at most one is blank, there is room for an entry |
| `GroceryAssumption` | forms and first items are well typed, a page has room for an item, no spelling is empty |
| `AccessAssumption` | every tab has a browser, there is a person, a session lives for a while |

| theorem | establishes | invariant it rests on |
|---|---|---|
| `ChoresProofs!TypeCorrect` | `TypeOK` of `Chores` | `IInv` |
| `OccurrencesUnique` | `UniqueOccurrence` | `IInv` |
| `LogsAgree` | `LogTellsStatus` | `IInv` |
| `AssigneesFound` | `AssigneesExist` | `IInv`, `AInv` |
| `ActiveChoresOfActiveSchedules` | `ActiveScheduleHasActiveChore` | `IInv`, `CInv` |
| `PlansFollowSchedules` | `PlannedAsScheduled` | `IInv`, `TimelyRequests` |
| `HorizonStaysFilled` | `HorizonFilled` | `IInv`, `HInv` |
| `RunsFillTheHorizon` | `RunsFill` of `Chores`: what is planned when a run ends | `IInv`, `HInv` |
| `HistoryIsKept` | `HistoryKept` | `IInv`, `TimelyRequests` |
| `PlansLieAhead` | `PlannedAhead` | `IInv` |
| `ArchivedStayEmpty` | `OnlyStaleRunRevives` | `IInv` |
| `ChoresImplementLedger` | `ImplementsLedger` of `Chores` | `IInv`, `TimelyRequests` |
| `RotationIsFair` | a rotation starts with its person and gives each active person one turn a round | none: `Division`, `EveryRemainder` |
| `LoopsReturn` | `ReturnsOccurrences` | `LoopInv` |
| `EventTypes` | `TypeOK` of `Events` | `Core` |
| `EventsPlannedAsTold` | `PlannedAsTold` | `Core`, `Told` |
| `SavedIsShown` | `AgendaShowsWhatWasSaved` | `Core`, `SavedInv` |
| `EventsHorizonStaysFilled` | `HorizonFilled` of `Events` | `Core`, itself |
| `EventRunsFillTheHorizon` | `RunsFill` of `Events` | `Core`, `HorizonFilled` |
| `OngoingIsLeftAlone` | `OngoingStays` | `Core` |
| `EventAgendasAgree` | `AgendasAgree` | `Core` |
| `EventsImplementLedger` | `ImplementsLedger` of `Events` | `Core` |
| `EditsKeepEvents` | `EditKeepsTheEvent` | `Core`, `FormInv` |
| `BoardTypes` | `TypeOK` of `DailyBoard` | `BInv` |
| `CardsNameTheirRows` | `NamesHold` | `BInv` |
| `PagesNeedNoReload` | `PageAsReloaded` | `BInv` |
| `CalendarPagesAgree` | `PagesAgree` | `BInv` |
| `DashboardCountsThePages` | `DashboardAgrees` | `BInv`, `PeopleInv` |
| `CacheTyped` | `TypeOK` of `KitchenCache`, the bound on the cache included | `Typed` |
| `ViewsAreFresh` | `FreshEnough` | `Typed`, `Dated` |
| `WarnedViewsAreBounded` | `StaleEnough` | `Typed`, `Dated` |
| `ReportedWritesShow` | `ConfirmedIsShown` | `Typed`, `Settled` |
| `AnswersTell` | `AnswerTells` | `GInv` |
| `OnlyOverlappingUpdatesLost` | `OnlyOverlappingUpdatesAreLost` | `GInv` |
| `IngredientsMadeOnce` | `OneOfEachName` | `GInv` |
| `ListsAreWhole` | `ListIsWhole` | `GInv`, `LenInv`, `ListInv` |
| `AccessProofs!TypeCorrect` | `TypeOK` of `Access` | `IInv` |
| `LivingAreLetIn` | `OnlyTheLivingAreLetIn` | `IInv` |
| `OldPagesStayQuiet` | `OldPagesDoNothing` | `IInv` |
| `SessionsStay` | `SessionsLast` | `IInv` |
| `AnswersAgree` | `AnsweredAsDone` | `IInv` |
| `RotatedStaysRefused` | `RotatedIsRefused` | `TypeOK`, `FeedInv` |

**`ChoresProofs`.** None of the properties is inductive by itself. `IInv` adds to the
types that the rows of every schedule are *well formed* (dates and numbers distinct,
log and status agreed, numbers bounded) and that a request under way names a chore or a
schedule there is. The bound is what the argument turns on: `MaxSequence` is a
`CHOOSE`, so a highest number has to be shown to exist. The set of upper bounds of the
numbers is a set of naturals that is not empty, it has a least element because `<` is
well founded on the naturals (`LeastNatural`), and that element is itself one of the numbers
(`GreatestNatural`). `Planned` numbers a date by its place among the missing dates, a
cardinality that grows strictly with the date (`Places`), so no two new rows share a
number and none meets an old one (`GeneratedWellFormed`). The rest is one lemma per
statement the code runs on the rows, and one per action.

`AInv` adds that a schedule whose archiving is under way was created: otherwise its end
would leave an archived row without a person. Nobody is ever removed, and somebody
joining leaves the others assignable (`AssignableGrows`), the copies a run holds
included. `CInv` adds that an active schedule's chore is a chore there is.

What planning promises rests on one lemma on the rows of a schedule: a step leaves them
alone, ticks or unticks one, withdraws from a date on, or plans. `TimelyRequests` says that
a request under way read its clock today or yesterday, so that an archiving reaches back at
most one day: without it neither history nor the ledger's `today - 1` would hold.
`HorizonFilled` speaks of the process at rest, so `HInv` says of a *run* that it has filled
every active schedule of which it no longer has a current copy (`RunFills`), and that it is
at most a midnight late (`OnTime`): a copy that is outdated when its turn comes is of a
schedule whose edit has planned already.

**`LoopProofs`.** The loops compare and advance local midnights, of which one may be
missing. `Near` says that a date of the code *means* a day: it is that day's midnight, or an
hour from it once the walk has met the day without one. A comparison of dates is then one
of the days meant (`NearLess`), but for two dates that mean the same day. `Walking`
is the invariant of each loop: the walk has come to a day it means, every date taken is
expected, and every date expected before that day was taken (`WalkOk`), in order. West of
Greenwich the missing midnight sends a walk to the eve, which may be another month, so
`Spared` says from where on nothing is claimed; the loop over months may then be anywhere
(`LostMonth`). What the set of a rule's dates has between two iterations is arithmetic:
nothing between two strides (`OneStride`), one date in each month that has the day
(`PassingIsExpected`, `ExpectedPasses`).

**`EventsProofs`.** `Core` adds to the types that requests and runs are at most a day old,
and that a run's copy of an active event it has not reached is the row. As
for schedules, one lemma lists what a step does to the rows of an event (`StepOfRows`).
`Told` says that the rows ahead of an event that no run planned from an outdated copy are
those of its form; it is inductive because what was planned yesterday of a form is what is
planned today, but for the day that is over. `SavedInv` keeps, for each date of the horizon
of the day an event was saved, its row: the agenda then needs the arithmetic of windows
alone. `OngoingStays` is about what it leaves out, an occurrence that has begun: nothing plans
a row that starts before today, and what an edit or an archiving withdraws starts no earlier than
the date it read. That an edit form changes nothing needs `FormInv`, that a stored form is one that was
sent and validated, and that a time of day survives `Instant` and back.

**`BoardProofs`.** An id is given again when the highest row is deleted. `Named` is
`NamesHold` of one card of a page of any age: while the page's row is there it is the same
occurrence, and once a new row may have its id, no row above it is left of those the page
has seen. `NamesInv` says so of the cards and of the row read for an answer; that the id of
an inserted row lies above every row there is makes it inductive. `FreshInv` is a page's
debt: between a press and its answer, a page differs from a reload in the touched rows and in
the pressed card, and in that card's status alone while its row is untouched (`UnderWay`). An
answer takes a card off exactly when its row is no longer listed (`AnsweredCard`), and each
overdue one it takes off is one that the count keeps (`OverdueTaken`). The pages of the calendar then
show what the daily pages show by the arithmetic of weeks and months.
`DashboardCountsThePages` sums the
counts of people: the rows of a person are disjoint from the rows of another, everyone with
a row is a person there is (`PeopleInv`), and a sum over a finite set of people is the number
of rows (`CountsAddUp`).

**`KitchenProofs`.** `Typed` carries the finiteness of the cache, without which
its size means nothing. `Dated` says of every entry, and of every read that was answered, what the
age it claims has to mean: it has at least what Mealie had at the moment it is dated.
A load dates its entry by its own *beginning*, so the claim survives whatever
else was loaded, stored or changed while it ran. `Settled` says the same of writes:
an entry that is not `overtaken` has everything that was confirmed, and a read
that no confirmation overlapped has too. The proof of `ReportedWritesShow` is the
reason `overtaken` exists: with a load that outlives a Clear the step to `FinishLoad`
fails without the exception, and the run `overtaken_load` shows the failure.

**`GroceryProofs`.** `GInv` says of each phase of a request what it knows: the item it read
is Mealie's still, or its update is marked as overtaken (`Knows`); it has written only when it
says so (`Answered`). Items are added at the end, changed and removed in place, and foods and
units are only added, so what was read of either stays where it was. `ListInv` adds that a load which nothing
disturbed has read the first items of the list, as many as its pages hold: that the
last page ends it then makes the list whole, and the groups share its places out
between them. `Listed` orders the items by counting what comes before each, so its places are
the numbers from one on, each once (`PlacesCounted`), by a count of a finite set.

**`AccessProofs`.** A request is let in by a lookup whose clock may be old by the time it is
used, so `OnlyTheLivingAreLetIn` is not inductive. `Sound` says of a request what its
phase has established: before a lookup, that *if* the session it carries is still in the
table and ends after the clock it will be compared with, then it was alive when the
request began; after the lookup, that it was. The hypothesis survives every step of
others because the tables only move one way (`Later`): time grows, and a session that
was there keeps its end or goes (`SoundStays`). A session issued later has a number no
request carries, which is why `Known` bounds cookies, tokens and pages by `issued`.
`SessionsStay` needs that no clock a request has read is ahead of the present, and `FeedInv`
that a retired token is older than the one in the database, so that a feed which lists
resolved its token before the rotation was reported.

**Out of the prover's reach** are liveness under fairness and induction over data by the
library's theorems, whose parameters are operators. Where an argument is an induction it
goes by a least counterexample instead (`LeastNatural`, in `MonthsIncrease` and `CountsAddUp`), and what
the loops compute is proved by their invariant, one iteration a step.

## Model-checked only

Liveness: `MaintenanceFills` of `Chores` and of `Events`, but for its part `RunsFill`;
`RequestsEnd`, and `Terminates`.
That the loops return what they should is proved; that they return at all is `Terminates`.
`TypeOK` of `Chores`, `Events`, `DailyBoard` and `Access` is proved and in no run; that of
`Grocery` is in no run either: add it to the INVARIANTS of `MCGrocery.cfg` to have TLC check
it. The counterexamples of the four runs above are TLC's.

## Plan

1. Proofs: `TypeOK` of `Grocery`, whose requests' findings are left open by `GInv`.
2. The missing midnights of `OccurrencesLoop` in what plans with it: in `Chores` and
   `Events` a day has always one.
3. The schedule form of a chore, through its inputs and back, as `EventPages` does for
   events; the meal and recipe pages of the kitchen.

## Not modelled

Text and layout: names, colours, icons, iCalendar lines, templates beyond what they
offer to press and send. Parsing and routing of requests. SQLite and its migrations: a
transaction is atomic and durable, and of the schema the constraints and the row ids are
modelled. HTTP retries (there are none) and JSON. Configuration, read once. Password
hashing and the randomness of tokens: a token nobody was given is not guessed. Event
colours and settings, each one statement. Meals, which one call to Mealie writes, beyond
what the cache sees of them. Midnights that do not exist in a time zone, but for the
loops that meet them.
