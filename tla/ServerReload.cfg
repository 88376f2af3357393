SPECIFICATION Spec
CONSTANTS
  query = query
  search = search
  columns = columns
  keys = keys
  indexes = indexes
  names = names
  Statements <- AllStatements
  similarNames = names
  Rejected = Rejected
  Unread = Unread
  Calls = {c1, c2}
  Tools = {"execute_query", "describe_table"}
  Plan <- ShortPlans
  Explains = {"execute_query"}
  Describes = {"describe_table"}
  Checks = {"describe_table"}
  Engine = "mysql"
  MaxConns = 2
  statementDeadline = 1
  rollbackTimeout = 1
  Overlays <- TwoRulesets
  ShutdownTimeout = 2
  MaxEdits = 2
INVARIANTS GateBeforeSocket ReloadNotLost DrainBeforeClose
PROPERTY CallsAreAudited
SYMMETRY Alike
