\* A load that is overtaken by a write.
SPECIFICATION Spec
CONSTANTS
  Key = {week}
  Blank = {}
  Reader = {r1, r2}
  Writer = {w1}
  MaxEntries = 1
  FreshFor = 1
  StaleFor = 1
  MaxTime = 1
  MaxVersion = 1
SYMMETRY Requests
INVARIANTS
  WriteInvalidates
