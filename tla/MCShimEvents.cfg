CONSTANTS
  p1 = p1
  p2 = p2
  None = None
  Pids <- MCPids
  MaxActions = 2
  MaxInvocations = 2
SPECIFICATION Spec
INVARIANTS
  TypeOK
  EventsAreOwn
  AwaitedEventsCollected
PROPERTIES
  TargetReached
  CaseNotHeldUp
