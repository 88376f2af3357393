SPECIFICATION Spec
CONSTANTS
  query = query
  search = search
  columns = columns
  keys = keys
  indexes = indexes
  names = names
  Statements <- AllStatements
  similarNames = names
  Rejected = Rejected
  Unread = Unread
  Calls = {c1}
  Tools = {"describe_table"}
  Plan <- ShortPlans
  Explains = {}
  Describes = {"describe_table"}
  Checks = {"describe_table"}
  Engine = "sqlserver"
  MaxConns = 1
  statementDeadline = 1
  rollbackTimeout = 1
  Overlays <- TwoRulesets
  ShutdownTimeout = 2
  MaxEdits = 1
INVARIANTS VerdictProducedOutcome
