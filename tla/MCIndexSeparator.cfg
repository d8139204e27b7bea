SPECIFICATION ToolSpec
CONSTANTS
  r1 = r1
  r2 = r2
  None = None
  Runs <- ToolRunSet
  Names <- NameSet
  Paths <- PathSet
  Workloads <- IndexWorkloads
  Contracts <- ContractPair
  ReporNames <- Repors
  DefaultIndex <- IndexNames
  Before <- NameBefore
  PathBefore <- DisplayBefore
  Words <- TitleWords
  Untitled <- Stem
  Published <- PublishedSet
  Foreign <- ForeignSet
  Scripts <- ScriptSet
PROPERTY IndexRefusedFirst
