\* Two events saved, archived, planned and refused around midnights and crashes.
SPECIFICATION FairSpec
CONSTANTS
  MonthStart <- Calendar
  Form <- AllForms
  Client = {k1}
  Person = {1}
  Horizon = 2
  West = TRUE
  SkipDay = 3
  SkipAt = 4
  MaxEvents = 2
  MaxDay = 1
INVARIANTS
  PlannedAsTold HorizonFilled AgendaShowsWhatWasSaved AgendasAgree
  EditKeepsTheEvent
PROPERTIES
  OngoingStays ImplementsLedger MaintenanceFills
