CONSTANTS
  p1 = p1
  p2 = p2
  None = None
  Pids <- MCOnePid
  MaxActions = 1
  MaxInvocations = 2
SPECIFICATION Spec
INVARIANT OneEventPerInvocation
