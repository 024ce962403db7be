\* One schedule edited, completed, reopened and maintained over two midnights.
SPECIFICATION Spec
CONSTANTS
  MonthStart <- Calendar
  Form <- EditForms
  Client = {}
  Horizon = 3
  MaxChores = 1
  MaxSchedules = 1
  MaxPeople = 3
  MaxDay = 2
  MaxToggles = 2
  MaxNumber = 3
INVARIANTS
  UniqueOccurrence LogTellsStatus AssigneesExist PlannedAsScheduled HorizonFilled
PROPERTIES
  HistoryKept PlannedAhead
