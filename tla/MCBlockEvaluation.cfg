CONSTANTS
  out = out
  ref = ref
  name = name
  None = None
  Blocks <- MCBlocks
  Checkpoints <- MCCheckpoints
  Paths <- MCPaths
  Entries <- MCEntries
  PolicyNames <- MCPolicyNames
  OutsidePaths <- MCOutsidePaths
  FileStates <- MCFileStates
  MaxDisturbances = 2
SPECIFICATION Spec
INVARIANTS
  TypeOK
  ValidatedFirst
  QuietVerdict
  AbortBlamesExpected
  ComparisonExact
  DiagnosticPerFailure
PROPERTY TrueAtSomeMoment
