\* A schedule that is replanned under a page that is still open.
SPECIFICATION Spec
CONSTANTS
  MonthStart <- Calendar
  s1 = s1
  p1 = p1
  Schedule = {s1}
  Person = {p1}
  AssigneeOf <- Fixed
  Founders = {p1}
  Browser = {b1}
  PageDate = {0}
  Horizon = 1
  RatedDays = 1
  MaxId = 2
  MaxDay = 0
PROPERTY
  PressActsOnItsCard
