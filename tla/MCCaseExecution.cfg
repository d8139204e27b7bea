CONSTANTS
  x = x
  y = y
  None = None
  Names <- MCNames
  Cases <- MCCases
  Results <- MCResults
SPECIFICATION Spec
INVARIANTS
  TypeOK
  BindingFlowSound
  BindingProvenance
  BlockAttribution
  SetupGatesBody
  PassMeansAllRan
  EndsWhereItBroke
PROPERTIES
  EvidenceKept
  CaseEnds
