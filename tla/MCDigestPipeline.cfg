CONSTANTS
  NoText = NoText
  Wording <- WordingDef
  Torn = "torn"
  Similar <- SimilarDef
  Loose <- LooseDef
  Turns <- TurnsDef
  Pages <- PagesDef
  Pack <- PackDef
  Labels <- LabelsDef
  Extracts <- ExtractsDef
  Rewordings = {"drill"}
  ScopeGoal = "ship"
  Forgotten = {"learn"}
  BudgetTotal = 4
  BudgetDocs = 1
  BudgetStream = 1
  CharBudget = 2
  FactCap = 2
  NoteCap = 1
  ProvenanceCap = 2
  HistoryCap = 1
  ConsolidateMin = 1
  MaxRetries = 1
  MaxFacts = 1
  MaxOutputs = 3
  MaxLog = 3
  MaxRuns = 3
SPECIFICATION MCSpec
INVARIANT TypeOK
PROPERTY ProtectedStays CorrectionsTake DocumentFactStands
CHECK_DEADLOCK FALSE
