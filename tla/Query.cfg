CONSTANTS
  Engines <- AllEngines
  UpperWords = {"LOCK"}
  rulesetVersion = 1
  minStatementBytes = 1
  maxNameParts = 4
  executeResultBudget = 40
  SchemaResultBudget = 24
  FixedBytes = 10
  schemaTableBytes = 5
  schemaColumnBytes = 3
  describeTableBytes = 5
  describeColumnBytes = 2
  describeKeyBytes = 1
  describeIndexBytes = 3
  Baseline <- Base
  Overlays <- AllOverlays
  NoOverlay = NoOverlay
  Statements <- AllStatements
  Results <- Replies
  CatalogTokens <- Catalog
  CatalogRows <- AllRows
  Descriptions <- AllDescriptions
SPECIFICATION Spec
INVARIANTS
  VerdictIsEarned
  LooseningIsLogged
  AnswersSayWhatTheyLack
