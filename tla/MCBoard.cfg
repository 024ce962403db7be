\* A schedule replanned and extended under an old page of the second day, by someone
\* who may join while the page is loaded.
SPECIFICATION Spec
CONSTANTS
  MonthStart <- Calendar
  s1 = s1
  p1 = p1
  Schedule = {s1}
  Person = {p1}
  AssigneeOf <- Fixed
  Founders = {}
  Browser = {b1}
  PageDate = {1}
  Horizon = 1
  RatedDays = 1
  MaxId = 3
  MaxDay = 1
INVARIANTS
  NamesHold PageAsReloaded PagesAgree DashboardAgrees
