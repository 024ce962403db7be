\* Two requests under way at once, and a maintenance that may fail, around two midnights.
SPECIFICATION FairSpec
CONSTANTS
  MonthStart <- Calendar
  Form <- FixedForms
  Client = {k1, k2}
  Horizon = 1
  MaxChores = 1
  MaxSchedules = 2
  MaxPeople = 1
  MaxDay = 2
  MaxToggles = 0
  MaxNumber = 2
INVARIANTS
  ActiveScheduleHasActiveChore PlannedAsScheduled
PROPERTIES
  OnlyStaleRunRevives ImplementsLedger MaintenanceFills
