\* A daily event that stops two days ahead, planned from its stored row.
SPECIFICATION Spec
CONSTANTS
  MonthStart <- Calendar
  Form <- OneForm
  Client = {}
  Person = {1}
  Horizon = 2
  West = TRUE
  SkipDay = 3
  SkipAt = 4
  MaxEvents = 1
  MaxDay = 2
INVARIANT
  FilledToTheLastDate
