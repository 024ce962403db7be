\* Two tabs of one browser, a calendar program, sessions of two ticks.
SPECIFICATION Spec
CONSTANTS
  b1 = b1
  Browser = {b1}
  Tab = {t1, t2}
  BrowserOf <- OneBrowser
  Reader = {f}
  Person = {p1, p2}
  TTL = 2
  MaxTime = 3
  MaxSession = 2
  MaxVersion = 2
  MaxRequests = 4
  MaxRestarts = 1
SYMMETRY Symmetry
INVARIANTS
  OnlyTheLivingAreLetIn RotatedIsRefused AnsweredAsDone
PROPERTIES
  OldPagesDoNothing SessionsLast
\* Requests, time and sessions are bounded.
CHECK_DEADLOCK FALSE
