CONSTANTS
  Source = "tsql"
  Target = "oracle"
  MaxLength = 3
  NoCode = "none"
  Texts <- MCTexts
  Shingles <- MCShingles
  Codes <- MCCodes
  Features <- MCFeatures
  Batches <- MCBatches
  Scripts <- MCScripts
  SourceTsql <- MCSourceTsql
  Pipeline <- MCPipeline
  GateText = "gate"
  DivergeText = "diverge"
  CloserText = "closer"
SPECIFICATION Spec
INVARIANTS
  CarriersMirrored
  DroppedBatchReported
  NoDegradeWithoutTrace
  SynthesizedOnlyWhenSilent
  ProceduralWarningsCoded
  EveryBatchEmitted
  ResultMirrors
  NoOrphanCloser
  QuotesReadAsInSession
PROPERTIES
  ReportOnlyGrows
  PromiseKept
  Terminates
