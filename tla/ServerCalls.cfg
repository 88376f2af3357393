SPECIFICATION FairSpec
CONSTANTS
  query = query
  search = search
  columns = columns
  keys = keys
  indexes = indexes
  names = names
  Statements <- AllStatements
  similarNames = names
  Rejected = Rejected
  Unread = Unread
  Calls = {c1, c2}
  Tools = {"execute_query", "search_schema", "describe_table"}
  Plan <- AllPlans
  Explains = {"execute_query"}
  Describes = {"describe_table"}
  Checks = {"search_schema", "describe_table"}
  Engine = "postgres"
  MaxConns = 1
  statementDeadline = 2
  rollbackTimeout = 1
  Overlays <- TwoRulesets
  ShutdownTimeout = 4
  MaxEdits = 0
INVARIANTS TypeOK PoolAccounted AuditMatches DrainCoversOneStatement
PROPERTIES ShutdownEnds EveryCallEnds
