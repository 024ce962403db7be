\* The recurrence loops against the set of dates they have to return.
SPECIFICATION Spec
CONSTANTS
  MonthStart <- CalendarWithFebruary
  Calls <- Arguments
INVARIANTS
  ReturnsOccurrences
PROPERTIES
  Terminates
CHECK_DEADLOCK FALSE
