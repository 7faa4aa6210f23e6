SPECIFICATION ClientSpec
CONSTANTS
  Servers = {s1}
  Escrows = {e1, e2}
  Findings = {x}
  None = None
  MAX_U64 = 1
  MaxDeposited = 1
  Forms = {f1}
  TheServer = s1
  Budgets = {1}
  NoData = NoData
CHECK_DEADLOCK FALSE
PROPERTY ListShowsLocks
