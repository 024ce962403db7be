\* Reads of two keys, with room for one, around writes, failures and ageing.
SPECIFICATION Spec
CONSTANTS
  Key = {day, week}
  Blank = {}
  Reader = {r1, r2}
  Writer = {w1}
  MaxEntries = 1
  FreshFor = 0
  StaleFor = 1
  MaxTime = 2
  MaxVersion = 1
SYMMETRY Requests
INVARIANTS
  TypeOK FreshEnough StaleEnough ConfirmedIsShown
