CONSTANTS
  a = a
  b = b
  id = id
  stamp = stamp
  None = None
  Runs <- OneRun
  CaseResults <- EveryStatus
  FixedIds <- MCFixedIds
  Stamps <- MCStamps
  MaxFiles = 2
  MaxCases = 2
SPECIFICATION Spec
INVARIANT InvalidConfigExitsTwo
