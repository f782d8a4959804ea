CONSTANTS
  Requests = {r1, r2}
  MaxMetas = 2
  MaxConfigs = 2
  MaxNotify = 2
  Statuses <- MCStatuses
SPECIFICATION Spec
SYMMETRY Symmetry
CHECK_DEADLOCK FALSE
INVARIANTS
  TypeOK
  UsesLiveConfig
  ConfigsAccounted
  HandledOnlyInspected
  TransactionsEndOnce
  AuditMatchesWire
