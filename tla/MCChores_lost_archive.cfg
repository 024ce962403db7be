\* An edit of a chore that overlaps its archiving undoes it.
SPECIFICATION Spec
CONSTANTS
  MonthStart <- Calendar
  Form <- FixedForms
  Client = {k1, k2}
  Horizon = 1
  MaxChores = 1
  MaxSchedules = 1
  MaxPeople = 1
  MaxDay = 1
  MaxToggles = 0
  MaxNumber = 0
PROPERTIES
  ArchivedChoreStaysArchived
