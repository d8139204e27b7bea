CONSTANTS
  a = a
  b = b
  id = id
  stamp = stamp
  None = None
  Runs <- TwoRuns
  CaseResults <- FewResults
  FixedIds <- MCFixedIds
  Stamps <- MCStamps
  MaxFiles = 1
  MaxCases = 1
SPECIFICATION Spec
INVARIANT EvidenceBehindVerdict
PROPERTY PriorRunKept
